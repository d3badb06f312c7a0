-------------------------- MODULE UdpStack_proofs --------------------------
(***************************************************************************)
(* Proofs about UdpStack, for any number of callers and slots, any sequence *)
(* numbers and any timing, and about the ring buffers (OSQ) that carry what *)
(* it receives to the tasks, for buffers of any size and messages of 1 to  *)
(* 255 bytes.                                                              *)
(***************************************************************************)
EXTENDS UdpStack, OSQ, FiniteSetTheorems, SequenceTheorems, TLAPS

(* Every set of numbers up to n that is not empty has a smallest one.  The *)
(* strict subsets of a finite set are well-founded, so among the prefixes  *)
(* 1 .. s with s in the set one has no other below it.                     *)
LEMMA Least ==
  ASSUME NEW n \in Nat, NEW T \in SUBSET (1 .. n), T # {}
  PROVE  \E s \in T : \A t \in T : ~(t < s)
<1> DEFINE Prefixes == {1 .. s : s \in T}
<1>1. T \subseteq Nat
  OBVIOUS
<1>2. Prefixes \subseteq FiniteSubsetsOf(1 .. n)
  BY FS_Interval DEF FiniteSubsetsOf
<1>3. PICK P \in Prefixes : \A Q \in Prefixes : ~(<<Q, P>> \in StrictSubsetOrdering(1 .. n))
  <2>1. Prefixes # {}
    OBVIOUS
  <2> HIDE DEF Prefixes
  <2>2. QED
    BY <1>2, <2>1, FS_StrictSubsetOrderingWellFounded, WFMin
<1>4. PICK s \in T : P = 1 .. s
  OBVIOUS
<1>5. ASSUME NEW t \in T, t < s
      PROVE  FALSE
  <2>1. 1 .. t \in Prefixes /\ 1 .. t \subseteq 1 .. s /\ s \in 1 .. s /\ s \notin 1 .. t
    BY <1>1, <1>5
  <2>2. <<1 .. t, 1 .. s>> \in StrictSubsetOrdering(1 .. n)
    BY <2>1, <1>2, <1>4 DEF StrictSubsetOrdering, FiniteSubsetsOf
  <2>3. QED
    BY <1>3, <1>4, <2>1, <2>2
<1>6. QED
  BY <1>5

(* Every set of slots that is not empty has a first one.                   *)
LEMMA FirstSlot ==
  ASSUME NEW T \in SUBSET Slots, T # {}
  PROVE  \E s \in T : \A t \in T : ~(t < s)
BY Least, SlotCountAssumption DEF Slots

(* A join returns (sem_t * )-1 or NULL, or a slot that was free, and then  *)
(* no slot in use had the id.                                              *)
LEMMA JoinReturns ==
  ASSUME NEW array, NEW id
  PROVE  /\ JoinResult(array, id) \in Sems
         /\ JoinResult(array, id) \in Slots =>
              /\ ~array[JoinResult(array, id)].enable
              /\ \A s \in Slots : array[s].enable => array[s].id # id
<1> DEFINE Unused == {s \in Slots : ~array[s].enable}
<1>1. NULL \notin Slots /\ BAD \notin Slots
  BY SlotCountAssumption DEF Slots, NULL, BAD
<1>2. CASE Taken(array, id) \/ Full(array)
  BY <1>1, <1>2 DEF JoinResult, Sems
<1>3. CASE ~Taken(array, id) /\ ~Full(array)
  <2>1. PICK s \in Unused : \A t \in Unused : ~(t < s)
    BY <1>3, FirstSlot DEF Full
  <2>2. FirstFree(array) \in Slots /\ ~array[FirstFree(array)].enable
    BY <2>1 DEF FirstFree
  <2>3. QED
    BY <1>3, <2>2 DEF JoinResult, Sems, Taken
<1>4. QED
  BY <1>2, <1>3

(* If a slot in use has the id, the search for it stops at such a slot.    *)
LEMMA MatchFound ==
  ASSUME NEW array, NEW id, Taken(array, id)
  PROVE  /\ FirstMatch(array, id) \in Slots
         /\ array[FirstMatch(array, id)].enable
         /\ array[FirstMatch(array, id)].id = id
<1> DEFINE Matching == {s \in Slots : array[s].enable /\ array[s].id = id}
<1>1. PICK s \in Matching : \A t \in Matching : ~(t < s)
  BY FirstSlot DEF Taken
<1>2. QED
  BY <1>1 DEF FirstMatch
-----------------------------------------------------------------------------
(* What an ACK does to resend_array: at most one slot changes, which is    *)
(* freed.                                                                  *)
LEMMA Triggered ==
  ASSUME NEW id, resend_array \in [Slots -> SendSlots]
  PROVE  /\ trig_one_send_array(id) \in [Slots -> SendSlots]
         /\ \A s \in Slots : trig_one_send_array(id)[s].enable =>
              trig_one_send_array(id)[s] = resend_array[s]
<1>1. CASE ~Taken(resend_array, id)
  BY <1>1 DEF trig_one_send_array
<1>2. CASE Taken(resend_array, id)
  <2> DEFINE m == FirstMatch(resend_array, id)
  <2>1. m \in Slots
    BY <1>2, MatchFound
  <2>2. FreeSend(resend_array[m].sem + 1) \in SendSlots
        /\ ~FreeSend(resend_array[m].sem + 1).enable
    BY <2>1, IdsAssumption, PollsAssumption DEF FreeSend, SendSlots, Packets, Ids
  <2>3. trig_one_send_array(id) = [resend_array EXCEPT ![m] = FreeSend(resend_array[m].sem + 1)]
    BY <1>2, <2>1 DEF trig_one_send_array
  <2> HIDE DEF m
  <2>4. QED
    BY <2>1, <2>2, <2>3
<1>3. QED
  BY <1>1, <1>2

(* Polling a slot keeps it as it is but for its counters, or frees it.     *)
LEMMA PolledSlot ==
  ASSUME NEW slot \in SendSlots
  PROVE  /\ Polled(slot) \in SendSlots
         /\ Polled(slot).enable => slot.enable /\ Polled(slot).id = slot.id
<1> USE IdsAssumption, PollsAssumption
        DEF Polled, Expires, FreeSend, SendSlots, Packets, Ids
<1>1. CASE ~slot.enable
  BY <1>1
<1>2. CASE slot.enable /\ slot.cnt + 1 < SendPolls
  BY <1>2
<1>3. CASE slot.enable /\ slot.cnt + 1 >= SendPolls /\ slot.resend = 0
  BY <1>3
<1>4. CASE slot.enable /\ slot.cnt + 1 >= SendPolls /\ slot.resend # 0
  <2> DEFINE again == [slot EXCEPT !.cnt = 0, !.resend = slot.resend - 1]
  <2>1. Polled(slot) = again
    BY <1>4
  <2>2. 0 \in 0 .. SendPolls /\ slot.resend - 1 \in 0 .. 1
    BY <1>4
  <2>3. again \in SendSlots /\ again.enable = slot.enable /\ again.id = slot.id
    BY <2>2
  <2>4. QED
    BY <1>4, <2>1, <2>3
<1>5. QED
  BY <1>1, <1>2, <1>3, <1>4

LEMMA WaitedSlot ==
  ASSUME NEW slot \in RecvSlots
  PROVE  /\ Waited(slot) \in RecvSlots
         /\ Waited(slot).enable => slot.enable /\ Waited(slot).id = slot.id
  BY IdsAssumption, PollsAssumption
  DEF Waited, Expires, FreeRecv, RecvSlots, Ids
-----------------------------------------------------------------------------
(* TypeOK needs to know in addition that a call which took a sequence      *)
(* number stays within the bound, that no request waits for its ACK when   *)
(* it has nothing to wait for next, and that only requests expect answers. *)
CallsInOrder == \A c \in Callers :
                  /\ call[c].at = "sn" => call[c].id \in 0 .. MaxSn
                  /\ call[c].at = "ack" /\ call[c].req => call[c].rsp # NULL
                  /\ call[c].at = "expect" => call[c].req

IInv == TypeOK /\ CallsInOrder /\ UniqueKeys

LEMMA InitIInv == Init => IInv
<1> SUFFICES ASSUME Init PROVE IInv
  OBVIOUS
<1>1. Idle \in Calls /\ Idle.at = "idle"
  BY IdsAssumption DEF Idle, Calls, Ids, Sems
<1>2. FreeSend(0) \in SendSlots /\ ~FreeSend(0).enable
  BY IdsAssumption, PollsAssumption DEF FreeSend, SendSlots, Packets, Ids
<1>3. FreeRecv(0) \in RecvSlots /\ ~FreeRecv(0).enable
  BY IdsAssumption, PollsAssumption DEF FreeRecv, RecvSlots, Ids
<1>4. TypeOK
  <2>1. \A c \in Callers : call[c] = Idle
    BY DEF Init
  <2>2. call \in [Callers -> Calls]
    BY <1>1 DEF Init
  <2>3. resend_array \in [Slots -> SendSlots] /\ waitrsp_array \in [Slots -> RecvSlots]
    BY <1>2, <1>3 DEF Init
  <2>a. sn \in 0 .. MaxSn
    BY IdsAssumption DEF Init
  <2>b. wire \subseteq Packets
    BY DEF Init
  <2>c. fault \in BOOLEAN
    BY DEF Init
  <2>4. sn \in 0 .. MaxSn /\ wire \subseteq Packets /\ fault \in BOOLEAN
    BY <2>a, <2>b, <2>c
  <2>5. QED
    BY <1>1, <2>1, <2>2, <2>3, <2>4 DEF TypeOK
<1>5. CallsInOrder
  BY <1>1 DEF Init, CallsInOrder
<1>6. UniqueKeys
  BY <1>2, <1>3 DEF Init, UniqueKeys, UniqueIn
<1>7. QED
  BY <1>4, <1>5, <1>6 DEF IInv

(* A step that gives one call a new record, and no slot array a new slot,  *)
(* keeps what IInv says of the calls.                                      *)
LEMMA CallChanges ==
  ASSUME TypeOK, CallsInOrder,
         NEW c \in Callers, NEW r \in Calls,
         call' = [call EXCEPT ![c] = r],
         r.at = "ack" => r.ack \in Slots /\ (r.req => r.rsp # NULL),
         r.at = "rsp" => r.rsp \in Slots,
         r.at = "sn"  => r.id \in 0 .. MaxSn,
         r.at = "expect" => r.req
  PROVE  /\ call' \in [Callers -> Calls]
         /\ \A d \in Callers : /\ call'[d].at = "ack" => call'[d].ack \in Slots
                               /\ call'[d].at = "rsp" => call'[d].rsp \in Slots
         /\ CallsInOrder'
<1>1. call \in [Callers -> Calls]
  BY DEF TypeOK
<1>2. \A d \in Callers : call'[d] = IF d = c THEN r ELSE call[d]
  BY <1>1
<1>3. call' \in [Callers -> Calls]
  BY <1>1
<1>4. QED
  BY <1>2, <1>3 DEF TypeOK, CallsInOrder

(* When a call has joined a slot, it sends next, and no other call moves.  *)
LEMMA JoinedCalls ==
  ASSUME TypeOK, CallsInOrder, NEW c \in Callers, NEW s \in Sems, call' = Joined(c, s)
  PROVE  /\ call' \in [Callers -> Calls]
         /\ \A d \in Callers : /\ call'[d].at = "ack" => call'[d].ack \in Slots
                               /\ call'[d].at = "rsp" => call'[d].rsp \in Slots
         /\ CallsInOrder'
<1>1. call \in [Callers -> Calls]
  BY DEF TypeOK
<1>2. ASSUME NEW d \in Callers, d # c
      PROVE  /\ call'[d] = [call[d] EXCEPT !.sole = @ /\ call[d].rsp # s]
             /\ call'[d] \in Calls
             /\ call'[d].at = call[d].at /\ call'[d].ack = call[d].ack
             /\ call'[d].rsp = call[d].rsp /\ call'[d].req = call[d].req
             /\ call'[d].id = call[d].id
  <2>1. call'[d] = [call[d] EXCEPT !.sole = @ /\ call[d].rsp # s]
    BY <1>2 DEF Joined
  <2> DEFINE b == call[d].sole /\ call[d].rsp # s
  <2>2. b \in BOOLEAN /\ call'[d] = [call[d] EXCEPT !.sole = b]
    BY <2>1
  <2> HIDE DEF b
  <2>3. QED
    BY <1>1, <2>1, <2>2 DEF Calls
<1>3. call'[c] \in Calls /\ call'[c].at = "send"
  <2> DEFINE b == s \in Slots /\ \A t \in Slots : waitrsp_array[t].enable =>
                                            waitrsp_array[t].prcvbuffer # c
  <2>1. b \in BOOLEAN /\ call'[c] = [call[c] EXCEPT !.at = "send", !.rsp = s, !.sole = b]
    BY DEF Joined
  <2> HIDE DEF b
  <2>2. QED
    BY <1>1, <2>1 DEF Calls
<1>4. call' \in [Callers -> Calls]
  <2>1. call' = [d \in Callers |-> call'[d]]
    BY DEF Joined
  <2>2. QED
    BY <1>2, <1>3, <2>1
<1>5. QED
  BY <1>2, <1>3, <1>4 DEF TypeOK, CallsInOrder

(* A slot array in which slots are only freed or keep their ids has unique *)
(* keys if it had them before.                                             *)
LEMMA KeysKept ==
  ASSUME NEW old, NEW new, UniqueIn(old),
         \A s \in Slots : new[s].enable => old[s].enable /\ new[s].id = old[s].id
  PROVE  UniqueIn(new)
  BY DEF UniqueIn
-----------------------------------------------------------------------------
(* Every step keeps the invariant.                                         *)
LEMMA StepIInv == IInv /\ [Next]_vars => IInv'
<1> SUFFICES ASSUME IInv, [Next]_vars PROVE IInv'
  OBVIOUS
<1> USE DEF IInv
<1>a. /\ sn \in 0 .. MaxSn /\ call \in [Callers -> Calls]
      /\ resend_array \in [Slots -> SendSlots] /\ waitrsp_array \in [Slots -> RecvSlots]
      /\ wire \subseteq Packets /\ fault \in BOOLEAN
  BY DEF TypeOK
<1>b. UniqueIn(resend_array) /\ UniqueIn(waitrsp_array)
  BY DEF UniqueKeys
<1>c. Idle \in Calls /\ Idle.at = "idle"
  BY IdsAssumption DEF Idle, Calls, Ids, Sems
<1>d. \A c \in Callers : Packet(c) \in Packets
  BY <1>a DEF Packet, Packets, Calls
<1>1. ASSUME NEW c \in Callers, NEW req \in BOOLEAN, ReadSn(c, req)
      PROVE  IInv'
  <2> DEFINE r == [Idle EXCEPT !.at = "sn", !.req = req, !.id = sn + 1]
  <2>a. sn + 1 \in 0 .. MaxSn /\ sn + 1 \in Ids
    <3>1. sn \in Nat /\ MaxSn \in Nat /\ sn < MaxSn
      BY <1>1, <1>a, IdsAssumption DEF ReadSn
    <3>2. sn + 1 \in 0 .. MaxSn
      BY <3>1
    <3>3. QED
      BY <3>2 DEF Ids
  <2>b. r.at = "sn" /\ r.id = sn + 1
    BY DEF Idle
  <2>c. r \in Calls
    BY <1>c, <2>a DEF Calls
  <2>1. r \in Calls /\ r.at = "sn" /\ r.id \in 0 .. MaxSn
    BY <2>a, <2>b, <2>c
  <2>2. call' = [call EXCEPT ![c] = r]
    BY <1>1 DEF ReadSn
  <2> HIDE DEF r
  <2>3. /\ call' \in [Callers -> Calls] /\ CallsInOrder'
        /\ \A d \in Callers : /\ call'[d].at = "ack" => call'[d].ack \in Slots
                              /\ call'[d].at = "rsp" => call'[d].rsp \in Slots
    BY <2>1, <2>2, CallChanges
  <2>4. UNCHANGED <<sn, resend_array, waitrsp_array, wire, fault>>
    BY <1>1 DEF ReadSn, arrays
  <2>5. QED
    BY <1>a, <1>b, <2>3, <2>4 DEF TypeOK, UniqueKeys, UniqueIn
<1>2. ASSUME NEW c \in Callers, NEW id \in PeerIds, SendRsp(c, id)
      PROVE  IInv'
  <2> DEFINE r == [Idle EXCEPT !.at = "send", !.id = id]
  <2>1. r \in Calls /\ r.at = "send"
    BY IdsAssumption DEF Idle, Calls, Ids, Sems
  <2>2. call' = [call EXCEPT ![c] = r]
    BY <1>2 DEF SendRsp
  <2> HIDE DEF r
  <2>3. /\ call' \in [Callers -> Calls] /\ CallsInOrder'
        /\ \A d \in Callers : /\ call'[d].at = "ack" => call'[d].ack \in Slots
                              /\ call'[d].at = "rsp" => call'[d].rsp \in Slots
    BY <2>1, <2>2, CallChanges
  <2>4. UNCHANGED <<sn, resend_array, waitrsp_array, wire, fault>>
    BY <1>2 DEF SendRsp, arrays
  <2>5. QED
    BY <1>a, <1>b, <2>3, <2>4 DEF TypeOK, UniqueKeys, UniqueIn
<1>3. ASSUME NEW c \in Callers, WriteSn(c)
      PROVE  IInv'
  <2> DEFINE r == [call[c] EXCEPT !.at = IF call[c].req THEN "expect" ELSE "send"]
  <2>1. r \in Calls /\ r.at \in {"expect", "send"} /\ (r.at = "expect" => r.req)
    BY <1>a DEF Calls
  <2>2. call' = [call EXCEPT ![c] = r]
    BY <1>3, <1>a DEF WriteSn, Goes
  <2> HIDE DEF r
  <2>3. /\ call' \in [Callers -> Calls] /\ CallsInOrder'
        /\ \A d \in Callers : /\ call'[d].at = "ack" => call'[d].ack \in Slots
                              /\ call'[d].at = "rsp" => call'[d].rsp \in Slots
    BY <2>1, <2>2, CallChanges
  <2>4. UNCHANGED <<resend_array, waitrsp_array, wire, fault>> /\ sn' \in 0 .. MaxSn
    BY <1>3 DEF WriteSn, arrays, CallsInOrder
  <2>5. QED
    BY <1>a, <1>b, <2>3, <2>4 DEF TypeOK, UniqueKeys, UniqueIn
<1>4. ASSUME NEW c \in Callers, join_one_business_recv_array(c)
      PROVE  IInv'
  <2> DEFINE s == JoinResult(waitrsp_array, call[c].id)
             slot == [enable |-> TRUE, id |-> call[c].id, cnt |-> 0,
                      prcvbuffer |-> c, sem |-> 0]
  <2>1. /\ s \in Sems
        /\ s \in Slots => \A t \in Slots :
             waitrsp_array[t].enable => waitrsp_array[t].id # call[c].id
    BY JoinReturns
  <2>2. call' = Joined(c, s)
    BY <1>4 DEF join_one_business_recv_array
  <2>3. waitrsp_array' = IF s \in Slots THEN [waitrsp_array EXCEPT ![s] = slot]
                         ELSE waitrsp_array
    BY <1>4 DEF join_one_business_recv_array
  <2>4. UNCHANGED <<sn, resend_array, wire, fault>>
    BY <1>4 DEF join_one_business_recv_array
  <2> HIDE DEF s
  <2>5. call' \in [Callers -> Calls] /\ CallsInOrder'
        /\ \A d \in Callers : /\ call'[d].at = "ack" => call'[d].ack \in Slots
                              /\ call'[d].at = "rsp" => call'[d].rsp \in Slots
    BY <2>1, <2>2, JoinedCalls
  <2>6. slot \in RecvSlots /\ slot.id = call[c].id
    BY <1>a, PollsAssumption DEF RecvSlots, Calls
  <2> HIDE DEF slot
  <2>8. waitrsp_array' \in [Slots -> RecvSlots]
    BY <1>a, <2>3, <2>6
  <2>9. UniqueIn(waitrsp_array')
    BY <1>a, <1>b, <2>1, <2>3, <2>6 DEF UniqueIn
  <2>10. QED
    BY <1>a, <1>b, <2>4, <2>5, <2>8, <2>9 DEF TypeOK, UniqueKeys, UniqueIn
<1>5. ASSUME NEW c \in Callers, one_udp_comm_trs_api(c)
      PROVE  IInv'
  <2> DEFINE s    == JoinResult(resend_array, call[c].id)
             r    == [call[c] EXCEPT !.at = "ack", !.ack = s]
             slot == [enable |-> TRUE, id |-> call[c].id, cnt |-> 0, resend |-> 1,
                      msg |-> Packet(c), sem |-> 0]
  <2>1. /\ s \in Sems
        /\ s \in Slots => \A t \in Slots :
             resend_array[t].enable => resend_array[t].id # call[c].id
    BY JoinReturns
  <2>2. \/ call' = [call EXCEPT ![c] = Idle]
        \/ call' = call
        \/ s # BAD /\ ~Untracked(c, s) /\ call' = [call EXCEPT ![c] = r]
    BY <1>5, <1>a DEF one_udp_comm_trs_api, Returns
  <2>3. resend_array' = IF s \in Slots THEN [resend_array EXCEPT ![s] = slot]
                        ELSE resend_array
    BY <1>5 DEF one_udp_comm_trs_api, join_one_send_array
  <2>4. UNCHANGED <<sn, waitrsp_array>> /\ wire' \subseteq Packets /\ fault' \in BOOLEAN
    BY <1>5, <1>a, <1>d DEF one_udp_comm_trs_api
  <2> HIDE DEF s
  <2>5. s # BAD /\ ~Untracked(c, s) =>
          r \in Calls /\ r.at = "ack" /\ r.ack \in Slots /\ (r.req => r.rsp # NULL)
    BY <2>1, <1>a DEF Calls, Untracked, Sems
  <2>6. slot \in SendSlots /\ slot.id = call[c].id
    BY <1>a, <1>d, PollsAssumption DEF SendSlots, Calls
  <2> HIDE DEF r, slot
  <2>7. /\ call' \in [Callers -> Calls] /\ CallsInOrder'
        /\ \A d \in Callers : /\ call'[d].at = "ack" => call'[d].ack \in Slots
                              /\ call'[d].at = "rsp" => call'[d].rsp \in Slots
    <3>1. CASE call' = [call EXCEPT ![c] = Idle]
      BY <3>1, <1>c, CallChanges
    <3>2. CASE call' = call
      BY <3>2, <1>a DEF TypeOK, CallsInOrder
    <3>3. CASE s # BAD /\ ~Untracked(c, s) /\ call' = [call EXCEPT ![c] = r]
      BY <3>3, <2>5, CallChanges
    <3>4. QED
      BY <2>2, <3>1, <3>2, <3>3
  <2>8. resend_array' \in [Slots -> SendSlots]
    BY <1>a, <2>3, <2>6
  <2>9. UniqueIn(resend_array')
    BY <1>a, <1>b, <2>1, <2>3, <2>6 DEF UniqueIn
  <2>10. QED
    BY <1>a, <1>b, <2>4, <2>7, <2>8, <2>9 DEF TypeOK, UniqueKeys, UniqueIn
<1>6. ASSUME NEW c \in Callers, Acked(c)
      PROVE  IInv'
  <2> DEFINE r == [call[c] EXCEPT !.at = "rsp"]
             s == call[c].ack
  <2>1. s \in Slots /\ resend_array[s].sem > 0
    BY <1>6 DEF Acked, TypeOK
  <2>2. \/ call' = [call EXCEPT ![c] = Idle]
        \/ call' = call
        \/ call[c].req /\ call[c].rsp # BAD /\ call' = [call EXCEPT ![c] = r]
    BY <1>6, <1>a DEF Acked, Returns, Goes
  <2>3. resend_array' = [resend_array EXCEPT ![s].sem = resend_array[s].sem - 1]
    BY <1>6 DEF Acked
  <2>4. UNCHANGED <<sn, waitrsp_array, wire>> /\ fault' \in BOOLEAN
    BY <1>6 DEF Acked
  <2>5. call[c].req /\ call[c].rsp # BAD => r \in Calls /\ r.at = "rsp" /\ r.rsp \in Slots
    BY <1>6, <1>a DEF Acked, Calls, CallsInOrder, Sems
  <2> HIDE DEF r, s
  <2>7. /\ call' \in [Callers -> Calls] /\ CallsInOrder'
        /\ \A d \in Callers : /\ call'[d].at = "ack" => call'[d].ack \in Slots
                              /\ call'[d].at = "rsp" => call'[d].rsp \in Slots
    <3>1. CASE call' = [call EXCEPT ![c] = Idle]
      BY <3>1, <1>c, CallChanges
    <3>2. CASE call' = call
      BY <3>2, <1>a DEF TypeOK, CallsInOrder
    <3>3. CASE call[c].req /\ call[c].rsp # BAD /\ call' = [call EXCEPT ![c] = r]
      BY <3>3, <2>5, CallChanges
    <3>4. QED
      BY <2>2, <3>1, <3>2, <3>3
  <2>8. resend_array' \in [Slots -> SendSlots]
    BY <1>a, <2>1, <2>3 DEF SendSlots
  <2>9. \A t \in Slots : resend_array'[t].enable =>
          resend_array[t].enable /\ resend_array'[t].id = resend_array[t].id
    BY <1>a, <2>1, <2>3 DEF SendSlots
  <2>10. UniqueIn(resend_array')
    BY <1>b, <2>9, KeysKept
  <2>11. QED
    BY <1>a, <1>b, <2>4, <2>7, <2>8, <2>10 DEF TypeOK, UniqueKeys, UniqueIn
<1>7. ASSUME NEW c \in Callers, AckTimeout(c)
      PROVE  IInv'
  <2> DEFINE m == FirstMatch(waitrsp_array, call[c].id)
  <2>1. \/ waitrsp_array' = waitrsp_array
        \/ /\ m \in Slots
           /\ waitrsp_array' = [waitrsp_array EXCEPT ![m] = FreeRecv(waitrsp_array[m].sem)]
    BY <1>7, MatchFound DEF AckTimeout, dele_one_business_recv_array
  <2> HIDE DEF m
  <2>2. m \in Slots => /\ FreeRecv(waitrsp_array[m].sem) \in RecvSlots
                       /\ ~FreeRecv(waitrsp_array[m].sem).enable
    BY <1>a, IdsAssumption, PollsAssumption DEF FreeRecv, RecvSlots, Ids
  <2>3. waitrsp_array' \in [Slots -> RecvSlots]
    BY <1>a, <2>1, <2>2
  <2>4. \A t \in Slots : waitrsp_array'[t].enable =>
          waitrsp_array[t].enable /\ waitrsp_array'[t].id = waitrsp_array[t].id
    BY <1>a, <2>1, <2>2
  <2>5. UniqueIn(waitrsp_array')
    BY <1>b, <2>4, KeysKept
  <2>6. UNCHANGED <<sn, resend_array, wire, fault>> /\ call' = [call EXCEPT ![c] = Idle]
    BY <1>7 DEF AckTimeout, Returns
  <2>7. /\ call' \in [Callers -> Calls] /\ CallsInOrder'
        /\ \A d \in Callers : /\ call'[d].at = "ack" => call'[d].ack \in Slots
                              /\ call'[d].at = "rsp" => call'[d].rsp \in Slots
    BY <2>6, <1>c, CallChanges
  <2>8. QED
    BY <1>a, <1>b, <2>3, <2>5, <2>6, <2>7 DEF TypeOK, UniqueKeys, UniqueIn
<1>8. ASSUME NEW c \in Callers, Responded(c)
      PROVE  IInv'
  <2> DEFINE s == call[c].rsp
  <2>1. s \in Slots /\ waitrsp_array[s].sem > 0
    BY <1>8 DEF Responded, TypeOK
  <2>2. waitrsp_array' = [waitrsp_array EXCEPT ![s].sem = waitrsp_array[s].sem - 1]
    BY <1>8 DEF Responded
  <2> HIDE DEF s
  <2>3. waitrsp_array' \in [Slots -> RecvSlots]
    BY <1>a, <2>1, <2>2 DEF RecvSlots
  <2>4. \A t \in Slots : waitrsp_array'[t].enable =>
          waitrsp_array[t].enable /\ waitrsp_array'[t].id = waitrsp_array[t].id
    BY <1>a, <2>1, <2>2 DEF RecvSlots
  <2>5. UniqueIn(waitrsp_array')
    BY <1>b, <2>4, KeysKept
  <2>6. UNCHANGED <<sn, resend_array, wire, fault>> /\ call' = [call EXCEPT ![c] = Idle]
    BY <1>8 DEF Responded, Returns
  <2>7. /\ call' \in [Callers -> Calls] /\ CallsInOrder'
        /\ \A d \in Callers : /\ call'[d].at = "ack" => call'[d].ack \in Slots
                              /\ call'[d].at = "rsp" => call'[d].rsp \in Slots
    BY <2>6, <1>c, CallChanges
  <2>8. QED
    BY <1>a, <1>b, <2>3, <2>5, <2>6, <2>7 DEF TypeOK, UniqueKeys, UniqueIn
<1>9. ASSUME NEW c \in Callers, ResponseTimeout(c)
      PROVE  IInv'
  <2>1. UNCHANGED <<sn, resend_array, waitrsp_array, wire, fault>>
        /\ call' = [call EXCEPT ![c] = Idle]
    BY <1>9 DEF ResponseTimeout, Returns, arrays
  <2>2. /\ call' \in [Callers -> Calls] /\ CallsInOrder'
        /\ \A d \in Callers : /\ call'[d].at = "ack" => call'[d].ack \in Slots
                              /\ call'[d].at = "rsp" => call'[d].rsp \in Slots
    BY <2>1, <1>c, CallChanges
  <2>3. QED
    BY <1>a, <1>b, <2>1, <2>2 DEF TypeOK, UniqueKeys, UniqueIn
<1>10. ASSUME NEW array, poll_all_send_array(array),
              array \in [Slots -> SendSlots],
              \A s \in Slots : array[s].enable => array[s] = resend_array[s],
              UNCHANGED <<sn, call, waitrsp_array, fault>>
       PROVE  IInv'
  <2>1. /\ resend_array' = [s \in Slots |-> Polled(array[s])]
        /\ wire' = wire \cup Resent(array)
    BY <1>10 DEF poll_all_send_array
  <2>2. resend_array' \in [Slots -> SendSlots]
    BY <1>10, <2>1, PolledSlot
  <2>3. \A s \in Slots : resend_array'[s].enable =>
          resend_array[s].enable /\ resend_array'[s].id = resend_array[s].id
    BY <1>10, <2>1, PolledSlot
  <2>4. UniqueIn(resend_array')
    BY <1>b, <2>3, KeysKept
  <2>5. wire' \subseteq Packets
    BY <1>10, <1>a, <2>1 DEF Resent, SendSlots
  <2>6. QED
    BY <1>10, <1>a, <1>b, <2>2, <2>4, <2>5 DEF TypeOK, CallsInOrder, UniqueKeys, UniqueIn
<1>11. ASSUME udp_rcv_data_task_thread
       PROVE  IInv'
  <2>1. CASE \E p \in wire : poll_all_send_array(trig_one_send_array(p.id))
    BY <2>1, <1>11, <1>a, <1>10, Triggered DEF udp_rcv_data_task_thread
  <2>2. CASE poll_all_send_array(resend_array)
    BY <2>2, <1>11, <1>a, <1>10 DEF udp_rcv_data_task_thread
  <2>3. QED
    BY <1>11, <2>1, <2>2 DEF udp_rcv_data_task_thread
<1>12. ASSUME NEW id \in Ids, udp_rcv_data_process_task_thread(id)
       PROVE  IInv'
  <2> DEFINE m == FirstMatch(waitrsp_array, id)
             b == waitrsp_array[m].prcvbuffer
  <2>1. UNCHANGED <<sn, resend_array, wire>>
    BY <1>12 DEF udp_rcv_data_process_task_thread
  <2>2. CASE Expected(id) = NULL
    BY <2>1, <2>2, <1>12, <1>a, <1>b
    DEF udp_rcv_data_process_task_thread, trig_one_business_recv_array, TypeOK,
        CallsInOrder, UniqueKeys, UniqueIn
  <2>3. CASE Expected(id) # NULL
    <3>1. m \in Slots /\ Expected(id) = m
      BY <2>3, MatchFound DEF Expected
    <3>2. /\ waitrsp_array' = [waitrsp_array EXCEPT ![m] = FreeRecv(waitrsp_array[m].sem + 1)]
          /\ fault' \in BOOLEAN
          /\ \/ call' = call
             \/ b \in Callers /\ \E got \in {"own", "other"} : call' = [call EXCEPT ![b].got = got]
      <4>1. trig_one_business_recv_array(id)
        BY <1>12 DEF udp_rcv_data_process_task_thread
      <4>2. /\ waitrsp_array' = [waitrsp_array EXCEPT ![m] = FreeRecv(waitrsp_array[m].sem + 1)]
            /\ Copied(b, id)
        BY <2>3, <3>1, <4>1 DEF trig_one_business_recv_array
      <4> HIDE DEF m, b
      <4>3. /\ fault' \in BOOLEAN
            /\ call' = call \/ \E got \in {"own", "other"} : call' = [call EXCEPT ![b].got = got]
        BY <1>a, <4>2 DEF Copied
      <4>4. ASSUME NEW got, b \notin Callers PROVE [call EXCEPT ![b].got = got] = call
        BY <1>a, <4>4
      <4>5. QED
        BY <4>2, <4>3, <4>4
    <3> HIDE DEF m, b
    <3>3. /\ FreeRecv(waitrsp_array[m].sem + 1) \in RecvSlots
          /\ ~FreeRecv(waitrsp_array[m].sem + 1).enable
      BY <1>a, <3>1, IdsAssumption, PollsAssumption DEF FreeRecv, RecvSlots, Ids
    <3>4. waitrsp_array' \in [Slots -> RecvSlots]
      BY <1>a, <3>1, <3>2, <3>3
    <3>5. \A t \in Slots : waitrsp_array'[t].enable =>
            waitrsp_array[t].enable /\ waitrsp_array'[t].id = waitrsp_array[t].id
      BY <1>a, <3>1, <3>2, <3>3
    <3>6. UniqueIn(waitrsp_array')
      BY <1>b, <3>5, KeysKept
    <3>7. /\ call' \in [Callers -> Calls] /\ CallsInOrder'
        /\ \A d \in Callers : /\ call'[d].at = "ack" => call'[d].ack \in Slots
                              /\ call'[d].at = "rsp" => call'[d].rsp \in Slots
      <4>1. CASE call' = call
        BY <4>1, <1>a DEF TypeOK, CallsInOrder
      <4>2. ASSUME b \in Callers, NEW got \in {"own", "other"},
                   call' = [call EXCEPT ![b].got = got]
            PROVE  /\ call' \in [Callers -> Calls] /\ CallsInOrder'
                   /\ \A d \in Callers : /\ call'[d].at = "ack" => call'[d].ack \in Slots
                                         /\ call'[d].at = "rsp" => call'[d].rsp \in Slots
        <5> DEFINE r == [call[b] EXCEPT !.got = got]
        <5>1. /\ r \in Calls /\ r.at = call[b].at /\ r.ack = call[b].ack
              /\ r.rsp = call[b].rsp /\ r.req = call[b].req /\ r.id = call[b].id
          BY <4>2, <1>a DEF Calls
        <5>2. call' = [call EXCEPT ![b] = r]
          BY <4>2
        <5> HIDE DEF r
        <5>3. /\ r.at = "ack" => r.ack \in Slots /\ (r.req => r.rsp # NULL)
              /\ r.at = "rsp" => r.rsp \in Slots
              /\ r.at = "sn"  => r.id \in 0 .. MaxSn
              /\ r.at = "expect" => r.req
          BY <4>2, <5>1 DEF TypeOK, CallsInOrder
        <5>4. r \in Calls
          BY <5>1
        <5>5. QED
          BY <4>2, <5>2, <5>3, <5>4, CallChanges
      <4>3. QED
        BY <3>2, <4>1, <4>2
    <3>8. QED
      BY <1>a, <1>b, <2>1, <3>2, <3>4, <3>6, <3>7 DEF TypeOK, UniqueKeys, UniqueIn
  <2>4. QED
    BY <2>2, <2>3
<1>13. ASSUME poll_all_business_recv_array
       PROVE  IInv'
  <2>1. /\ waitrsp_array' = [s \in Slots |-> Waited(waitrsp_array[s])]
        /\ UNCHANGED <<sn, call, resend_array, wire, fault>>
    BY <1>13 DEF poll_all_business_recv_array
  <2>2. waitrsp_array' \in [Slots -> RecvSlots]
    BY <1>a, <2>1, WaitedSlot
  <2>3. \A s \in Slots : waitrsp_array'[s].enable =>
          waitrsp_array[s].enable /\ waitrsp_array'[s].id = waitrsp_array[s].id
    BY <1>a, <2>1, WaitedSlot
  <2>4. UniqueIn(waitrsp_array')
    BY <1>b, <2>3, KeysKept
  <2>5. QED
    BY <1>a, <1>b, <2>1, <2>2, <2>4 DEF TypeOK, CallsInOrder, UniqueKeys, UniqueIn
<1>14. ASSUME UNCHANGED vars
       PROVE  IInv'
  BY <1>14, <1>a, <1>b DEF vars, TypeOK, CallsInOrder, UniqueKeys, UniqueIn
<1>15. QED
  BY <1>1, <1>2, <1>3, <1>4, <1>5, <1>6, <1>7, <1>8, <1>9, <1>11, <1>12, <1>13, <1>14
  DEF Next, CallStep

LEMMA Invariance == Spec => []IInv
  BY InitIInv, StepIInv, PTL DEF Spec

(* Every variable stays within its type, and no call ever waits on NULL.   *)
THEOREM TypeCorrect == Spec => []TypeOK
<1>1. IInv => TypeOK
  BY DEF IInv
<1>2. QED
  BY <1>1, Invariance, PTL

(* No two slots in use of an array have the same key, so that an ACK or a  *)
(* response means one call, however ids were handed out and chosen.        *)
THEOREM KeysAreUnique == Spec => []UniqueKeys
<1>1. IInv => UniqueKeys
  BY DEF IInv
<1>2. QED
  BY <1>1, Invariance, PTL

(* A slot that is its caller's own, c being the caller, s the slot.        *)
OwnSlot(c, s) ==
  /\ s \in Slots /\ call[c].req /\ call[c].at \in {"send", "ack", "rsp"}
  /\ \A t \in Slots : waitrsp_array[t].enable /\ waitrsp_array[t].prcvbuffer = c => t = s
  /\ waitrsp_array[s].enable => /\ waitrsp_array[s].id = call[c].id
                                /\ waitrsp_array[s].prcvbuffer = c
                                /\ waitrsp_array[s].sem = 0
  /\ waitrsp_array[s].sem > 0 => call[c].got = "own"

(* What sole promises: only the response to the request can post the       *)
(* semaphore, and it is in the buffer by then.                             *)
SoleInv == \A c \in Callers : call[c].sole => OwnSlot(c, call[c].rsp)

(* A step that frees slots or takes from semaphores, and lets the calls    *)
(* go on or return, keeps the promise.                                     *)
LEMMA SoleKept ==
  ASSUME TypeOK, SoleInv,
         \A t \in Slots : /\ waitrsp_array'[t].sem \in 0 .. waitrsp_array[t].sem
                          /\ waitrsp_array'[t].enable =>
                               /\ waitrsp_array[t].enable
                               /\ waitrsp_array'[t].id = waitrsp_array[t].id
                               /\ waitrsp_array'[t].prcvbuffer = waitrsp_array[t].prcvbuffer,
         \A c \in Callers : call'[c].sole =>
                             /\ call[c].sole /\ call'[c].rsp = call[c].rsp
                             /\ call'[c].req = call[c].req /\ call'[c].id = call[c].id
                             /\ call'[c].got = call[c].got
                             /\ call'[c].at \in {"send", "ack", "rsp"}
  PROVE  SoleInv'
<1>1. SUFFICES ASSUME NEW c \in Callers, call'[c].sole PROVE OwnSlot(c, call[c].rsp)'
  BY DEF SoleInv
<1> DEFINE s == call[c].rsp
<1>2. call[c].sole /\ OwnSlot(c, s) /\ call'[c].rsp = s /\ s \in Slots
  BY <1>1 DEF SoleInv, OwnSlot
<1>3. waitrsp_array[s].sem \in Nat /\ waitrsp_array'[s].sem \in 0 .. waitrsp_array[s].sem
  BY <1>2 DEF TypeOK, RecvSlots
<1> HIDE DEF s
<1>4. QED
  BY <1>1, <1>2, <1>3 DEF OwnSlot

LEMMA InitSole == Init => SoleInv
  BY DEF Init, SoleInv, Idle

LEMMA StepSole == IInv /\ SoleInv /\ [Next]_vars => SoleInv'
<1> SUFFICES ASSUME IInv, SoleInv, [Next]_vars PROVE SoleInv'
  OBVIOUS
<1>a. TypeOK /\ call \in [Callers -> Calls] /\ waitrsp_array \in [Slots -> RecvSlots]
  BY DEF IInv, TypeOK
<1>b. ~Idle.sole
  BY DEF Idle
<1>c. \A t \in Slots : waitrsp_array[t].sem \in Nat
  BY <1>a DEF RecvSlots
<1>d. \A c \in Callers : call[c].sole => call[c].at \in {"send", "ack", "rsp"}
  BY DEF SoleInv, OwnSlot
<1>e. \A t \in Slots : waitrsp_array[t].sem \in 0 .. waitrsp_array[t].sem
  BY <1>c
<1>1. ASSUME NEW c \in Callers, NEW r, UNCHANGED waitrsp_array,
             call' = [call EXCEPT ![c] = r],
             \/ ~r.sole
             \/ /\ r.sole = call[c].sole /\ r.rsp = call[c].rsp /\ r.req = call[c].req
                /\ r.id = call[c].id /\ r.got = call[c].got
                /\ r.at \in {"send", "ack", "rsp"}
      PROVE  SoleInv'
  <2>1. \A d \in Callers : call'[d] = IF d = c THEN r ELSE call[d]
    BY <1>1, <1>a
  <2>2. QED
    BY <1>1, <1>a, <1>d, <1>e, <2>1, SoleKept
<1>2. ASSUME NEW c \in Callers, NEW req \in BOOLEAN, ReadSn(c, req)
      PROVE  SoleInv'
  <2> DEFINE r == [Idle EXCEPT !.at = "sn", !.req = req, !.id = sn + 1]
  <2>1. ~r.sole /\ call' = [call EXCEPT ![c] = r] /\ UNCHANGED waitrsp_array
    BY <1>2, <1>b DEF ReadSn, arrays, Idle
  <2> HIDE DEF r
  <2>2. QED
    BY <1>1, <2>1
<1>3. ASSUME NEW c \in Callers, NEW id \in PeerIds, SendRsp(c, id)
      PROVE  SoleInv'
  <2> DEFINE r == [Idle EXCEPT !.at = "send", !.id = id]
  <2>1. ~r.sole /\ call' = [call EXCEPT ![c] = r] /\ UNCHANGED waitrsp_array
    BY <1>3, <1>b DEF SendRsp, arrays, Idle
  <2> HIDE DEF r
  <2>2. QED
    BY <1>1, <2>1
<1>4. ASSUME NEW c \in Callers, WriteSn(c)
      PROVE  SoleInv'
  <2> DEFINE r == [call[c] EXCEPT !.at = IF call[c].req THEN "expect" ELSE "send"]
  <2>1. call' = [call EXCEPT ![c] = r] /\ UNCHANGED waitrsp_array
    BY <1>4, <1>a DEF WriteSn, Goes, arrays
  <2>2. ~r.sole
    BY <1>4, <1>a, <1>d DEF WriteSn, Calls
  <2> HIDE DEF r
  <2>3. QED
    BY <1>1, <2>1, <2>2
<1>5. ASSUME NEW c \in Callers, join_one_business_recv_array(c)
      PROVE  SoleInv'
  <2> DEFINE s == JoinResult(waitrsp_array, call[c].id)
             slot == [enable |-> TRUE, id |-> call[c].id, cnt |-> 0,
                      prcvbuffer |-> c, sem |-> 0]
  <2>1. /\ call' = Joined(c, s)
        /\ waitrsp_array' = IF s \in Slots THEN [waitrsp_array EXCEPT ![s] = slot]
                            ELSE waitrsp_array
    BY <1>5 DEF join_one_business_recv_array
  <2>2. call[c].req
    BY <1>5 DEF join_one_business_recv_array, IInv, CallsInOrder
  <2> HIDE DEF s
  <2>3. SUFFICES ASSUME NEW d \in Callers, call'[d].sole PROVE OwnSlot(d, call[d].rsp)'
    BY DEF SoleInv
  <2>4. CASE d = c
    <3> DEFINE b == s \in Slots /\ \A t \in Slots : waitrsp_array[t].enable =>
                                              waitrsp_array[t].prcvbuffer # c
    <3>1. b \in BOOLEAN /\ call'[c] = [call[c] EXCEPT !.at = "send", !.rsp = s, !.sole = b]
      BY <2>1 DEF Joined
    <3>2. /\ call'[c].req /\ call'[c].at = "send" /\ call'[c].rsp = s /\ call'[c].sole = b
          /\ call'[c].id = call[c].id
      <4> HIDE DEF b
      <4>1. QED
        BY <1>a, <2>2, <3>1 DEF Calls
    <3>3. b
      BY <2>3, <2>4, <3>2
    <3>4. /\ waitrsp_array'[s] = slot
          /\ \A t \in Slots : t # s => waitrsp_array'[t] = waitrsp_array[t]
      BY <1>a, <2>1, <3>3
    <3>5. QED
      BY <2>4, <3>2, <3>3, <3>4 DEF OwnSlot
  <2>5. CASE d # c
    <3> DEFINE b == call[d].sole /\ call[d].rsp # s
    <3>1. b \in BOOLEAN /\ call'[d] = [call[d] EXCEPT !.sole = b]
      BY <2>1, <2>5 DEF Joined
    <3>2. /\ call'[d].req = call[d].req /\ call'[d].at = call[d].at
          /\ call'[d].rsp = call[d].rsp /\ call'[d].sole = b
          /\ call'[d].id = call[d].id /\ call'[d].got = call[d].got
      <4> HIDE DEF b
      <4>1. QED
        BY <1>a, <3>1 DEF Calls
    <3>3. b
      BY <2>3, <3>2
    <3>4. OwnSlot(d, call[d].rsp)
      BY <3>3 DEF SoleInv
    <3>5. waitrsp_array'[call[d].rsp] = waitrsp_array[call[d].rsp]
      BY <1>a, <2>1, <3>3, <3>4 DEF OwnSlot
    <3>6. \A t \in Slots : waitrsp_array'[t].enable /\ waitrsp_array'[t].prcvbuffer = d =>
            waitrsp_array[t].enable /\ waitrsp_array[t].prcvbuffer = d
      BY <1>a, <2>1, <2>5
    <3>7. QED
      BY <3>2, <3>4, <3>5, <3>6 DEF OwnSlot
  <2>6. QED
    BY <2>4, <2>5
<1>6. ASSUME NEW c \in Callers, one_udp_comm_trs_api(c)
      PROVE  SoleInv'
  <2> DEFINE s == JoinResult(resend_array, call[c].id)
             r == [call[c] EXCEPT !.at = "ack", !.ack = s]
  <2>1. /\ UNCHANGED waitrsp_array
        /\ \/ call' = [call EXCEPT ![c] = Idle]
           \/ call' = call
           \/ call' = [call EXCEPT ![c] = r]
    BY <1>6, <1>a DEF one_udp_comm_trs_api, Returns
  <2> HIDE DEF s
  <2>2. /\ r.sole = call[c].sole /\ r.rsp = call[c].rsp /\ r.req = call[c].req
        /\ r.id = call[c].id /\ r.got = call[c].got /\ r.at = "ack"
    BY <1>a DEF Calls
  <2> HIDE DEF r
  <2>3. CASE call' = call
    BY <2>1, <2>3 DEF SoleInv, OwnSlot
  <2>4. QED
    BY <1>1, <1>b, <2>1, <2>2, <2>3
<1>7. ASSUME NEW c \in Callers, Acked(c)
      PROVE  SoleInv'
  <2> DEFINE r == [call[c] EXCEPT !.at = "rsp"]
  <2>1. /\ UNCHANGED waitrsp_array
        /\ \/ call' = [call EXCEPT ![c] = Idle]
           \/ call' = call
           \/ call' = [call EXCEPT ![c] = r]
    BY <1>7, <1>a DEF Acked, Returns, Goes
  <2>2. /\ r.sole = call[c].sole /\ r.rsp = call[c].rsp /\ r.req = call[c].req
        /\ r.id = call[c].id /\ r.got = call[c].got /\ r.at = "rsp"
    BY <1>a DEF Calls
  <2> HIDE DEF r
  <2>3. CASE call' = call
    BY <2>1, <2>3 DEF SoleInv, OwnSlot
  <2>4. QED
    BY <1>1, <1>b, <2>1, <2>2, <2>3
<1>8. ASSUME NEW c \in Callers, call' = [call EXCEPT ![c] = Idle]
      PROVE  \A d \in Callers : call'[d].sole =>
               call[d].sole /\ call'[d] = call[d] /\ call'[d].at \in {"send", "ack", "rsp"}
  BY <1>8, <1>a, <1>b, <1>d
<1>9. ASSUME NEW c \in Callers, AckTimeout(c)
      PROVE  SoleInv'
  <2> DEFINE m == FirstMatch(waitrsp_array, call[c].id)
  <2>1. \/ waitrsp_array' = waitrsp_array
        \/ m \in Slots /\ waitrsp_array' = [waitrsp_array EXCEPT ![m] = FreeRecv(waitrsp_array[m].sem)]
    BY <1>9, MatchFound DEF AckTimeout, dele_one_business_recv_array
  <2>2. call' = [call EXCEPT ![c] = Idle]
    BY <1>9 DEF AckTimeout, Returns
  <2> HIDE DEF m
  <2>3. ~FreeRecv(waitrsp_array[m].sem).enable
        /\ FreeRecv(waitrsp_array[m].sem).sem = waitrsp_array[m].sem
    BY DEF FreeRecv
  <2>4. QED
    BY <1>a, <1>e, <1>8, <2>1, <2>2, <2>3, SoleKept
<1>10. ASSUME NEW c \in Callers, Responded(c)
       PROVE  SoleInv'
  <2> DEFINE s == call[c].rsp
  <2>1. /\ s \in Slots /\ waitrsp_array[s].sem > 0
        /\ waitrsp_array' = [waitrsp_array EXCEPT ![s].sem = waitrsp_array[s].sem - 1]
        /\ call' = [call EXCEPT ![c] = Idle]
    BY <1>10, <1>a DEF Responded, TypeOK, Returns
  <2> HIDE DEF s
  <2>2. ASSUME NEW t \in Slots
        PROVE  /\ waitrsp_array'[t].sem \in 0 .. waitrsp_array[t].sem
               /\ waitrsp_array'[t].enable = waitrsp_array[t].enable
               /\ waitrsp_array'[t].id = waitrsp_array[t].id
               /\ waitrsp_array'[t].prcvbuffer = waitrsp_array[t].prcvbuffer
    BY <1>a, <1>c, <2>1 DEF RecvSlots
  <2>3. QED
    BY <1>a, <1>8, <2>1, <2>2, SoleKept
<1>11. ASSUME NEW c \in Callers, ResponseTimeout(c)
       PROVE  SoleInv'
  <2>1. UNCHANGED waitrsp_array /\ call' = [call EXCEPT ![c] = Idle]
    BY <1>11 DEF ResponseTimeout, Returns, arrays
  <2>2. QED
    BY <1>1, <1>b, <2>1
<1>12. ASSUME UNCHANGED <<call, waitrsp_array>>
       PROVE  SoleInv'
  BY <1>12 DEF SoleInv, OwnSlot
<1>13. ASSUME NEW id \in Ids, udp_rcv_data_process_task_thread(id)
       PROVE  SoleInv'
  <2> DEFINE m == FirstMatch(waitrsp_array, id)
             b == waitrsp_array[m].prcvbuffer
  <2>1. CASE Expected(id) = NULL
    BY <1>12, <1>13, <2>1
    DEF udp_rcv_data_process_task_thread, trig_one_business_recv_array
  <2>2. CASE Expected(id) # NULL
    <3>1. /\ m \in Slots /\ Expected(id) = m
          /\ waitrsp_array[m].enable /\ waitrsp_array[m].id = id
      BY <2>2, MatchFound DEF Expected
    <3>2. /\ waitrsp_array' = [waitrsp_array EXCEPT ![m] = FreeRecv(waitrsp_array[m].sem + 1)]
          /\ Copied(b, id)
      BY <1>13, <2>2, <3>1
      DEF udp_rcv_data_process_task_thread, trig_one_business_recv_array
    <3> HIDE DEF m
    <3>3. /\ \A t \in Slots : t # m => waitrsp_array'[t] = waitrsp_array[t]
          /\ ~waitrsp_array'[m].enable
      BY <1>a, <3>1, <3>2 DEF FreeRecv
    <3>4. SUFFICES ASSUME NEW c \in Callers, call'[c].sole PROVE OwnSlot(c, call[c].rsp)'
      BY DEF SoleInv
    <3>5. \/ call' = call
          \/ \E got \in {"own", "other"} : call' = [call EXCEPT ![b].got = got]
      BY <3>2 DEF Copied
    <3>6. /\ call'[c].sole = call[c].sole /\ call'[c].rsp = call[c].rsp
          /\ call'[c].req = call[c].req /\ call'[c].id = call[c].id
          /\ call'[c].at = call[c].at
          /\ b # c => call'[c].got = call[c].got
      <4> HIDE DEF b
      <4>1. QED
        BY <1>a, <3>5 DEF Calls
    <3>7. OwnSlot(c, call[c].rsp)
      BY <3>4, <3>6 DEF SoleInv
    <3> DEFINE s == call[c].rsp
    <3>a. /\ s \in Slots /\ call'[c].rsp = s /\ call'[c].req
          /\ call'[c].at \in {"send", "ack", "rsp"}
          /\ \A t \in Slots : waitrsp_array'[t].enable /\ waitrsp_array'[t].prcvbuffer = c => t = s
      BY <3>3, <3>6, <3>7 DEF OwnSlot
    <3>b. /\ waitrsp_array[s].enable => /\ waitrsp_array[s].id = call[c].id
                                        /\ waitrsp_array[s].prcvbuffer = c
                                        /\ waitrsp_array[s].sem = 0
          /\ waitrsp_array[s].sem > 0 => call[c].got = "own"
          /\ \A t \in Slots : waitrsp_array[t].enable /\ waitrsp_array[t].prcvbuffer = c => t = s
      BY <3>7 DEF OwnSlot
    <3>8. CASE m = s
      <4>1. b = c /\ Listening(c, id)
        BY <3>1, <3>7, <3>8 DEF OwnSlot, Listening
      <4>2. call' = [call EXCEPT ![c].got = "own"]
        BY <3>2, <4>1 DEF Copied
      <4>3. call'[c].got = "own"
        BY <1>a, <4>2 DEF Calls
      <4>4. QED
        <5> HIDE DEF s
        <5>1. QED
          BY <3>3, <3>8, <3>a, <4>3 DEF OwnSlot
    <3>9. CASE m # s
      <4>1. b # c
        BY <3>1, <3>b, <3>9
      <4>2. /\ waitrsp_array'[s] = waitrsp_array[s] /\ call'[c].got = call[c].got
            /\ call'[c].id = call[c].id
        BY <3>3, <3>6, <3>9, <3>a, <4>1
      <4>3. QED
        <5> HIDE DEF s
        <5>1. QED
          BY <3>a, <3>b, <4>2 DEF OwnSlot
    <3>10. QED
      BY <3>8, <3>9
  <2>3. QED
    BY <2>1, <2>2
<1>14. ASSUME poll_all_business_recv_array
       PROVE  SoleInv'
  <2>1. /\ waitrsp_array' = [s \in Slots |-> Waited(waitrsp_array[s])]
        /\ UNCHANGED call
    BY <1>14 DEF poll_all_business_recv_array
  <2>2. ASSUME NEW t \in Slots
        PROVE  /\ waitrsp_array'[t].sem = waitrsp_array[t].sem
               /\ waitrsp_array'[t].enable =>
                    /\ waitrsp_array[t].enable
                    /\ waitrsp_array'[t].id = waitrsp_array[t].id
                    /\ waitrsp_array'[t].prcvbuffer = waitrsp_array[t].prcvbuffer
    <3>1. waitrsp_array'[t] = Waited(waitrsp_array[t]) /\ waitrsp_array[t] \in RecvSlots
      BY <1>a, <2>1
    <3>2. QED
      BY <3>1 DEF Waited, FreeRecv, RecvSlots
  <2>3. QED
    BY <1>a, <1>d, <1>e, <2>1, <2>2, SoleKept
<1>15. ASSUME udp_rcv_data_task_thread
       PROVE  SoleInv'
  BY <1>12, <1>15 DEF udp_rcv_data_task_thread
<1>16. QED
  BY <1>2, <1>3, <1>4, <1>5, <1>6, <1>7, <1>9, <1>10, <1>11, <1>12, <1>13, <1>14, <1>15
  DEF Next, CallStep, vars

(* A request that succeeds has the response to it in its buffer, unless    *)
(* its slot or its buffer was in other hands as well while it waited.      *)
THEOREM ResponsesAreOwn == Spec => OwnResponse
<1>1. ASSUME SoleInv, NEW c \in Callers, Responded(c), call[c].sole
      PROVE  call[c].got = "own"
  BY <1>1 DEF SoleInv, OwnSlot, Responded
<1>2. SoleInv /\ [Next]_vars =>
        [\A c \in Callers : Responded(c) /\ call[c].sole => call[c].got = "own"]_vars
  BY <1>1
<1>3. QED
  BY <1>2, InitSole, StepSole, Invariance, PTL DEF Spec, OwnResponse
-----------------------------------------------------------------------------
(* The words of a message.                                                 *)
LEMMA Sizes ==
  /\ \A n \in Nat : DataWords(n) \in Nat /\ (n # 0 => DataWords(n) >= 1)
  /\ \A n \in Nat : StorageSize(n) \in Nat /\ StorageSize(n) >= 1 /\ (n # 0 => StorageSize(n) >= 2)
<1>1. \A n \in Nat : DataWords(n) \in Nat /\ (n # 0 => DataWords(n) >= 1)
  BY DEF DataWords
<1>2. QED
  BY <1>1 DEF StorageSize

(* The words of the message at off, its link included.                     *)
Span(off) == off .. EndOf(off) - 1

(* The messages in the buffer: where they are (f), and how many of them    *)
(* lie behind offFirst, the others being at the start of the buffer (k).   *)
Layout(f, k) ==
  /\ f \in [1 .. MsgCnt -> 0 .. Words - 1]
  /\ k \in 1 .. MsgCnt
  /\ f[1] = offFirst /\ f[MsgCnt] = offLast
  /\ \A i \in 1 .. MsgCnt : mem[f[i]] \in Nat \ {0} /\ EndOf(f[i]) <= Words
  /\ \A i \in 1 .. MsgCnt - 1 : i # k => f[i + 1] = EndOf(f[i])
  /\ \A i, j \in 1 .. MsgCnt : i < j /\ (j <= k \/ k < i) => EndOf(f[i]) <= f[j]
  /\ k < MsgCnt => /\ f[k + 1] = 0
                   /\ EndOf(offLast) <= offFirst
                   /\ Words - EndOf(f[k]) < StorageSize(mem[0])
                   /\ Words - EndOf(f[k]) > 1 => mem[EndOf(f[k])] = 0
  /\ \A w \in offFirst .. EndOf(f[k]) - 1 : \E i \in 1 .. k : w \in Span(f[i])
  /\ k < MsgCnt => \A w \in 0 .. EndOf(offLast) - 1 :
                     \E i \in k + 1 .. MsgCnt : w \in Span(f[i])

(* The consumer holds the first message, with the length in its link.      *)
Held == /\ pLink # None => MsgCnt > 0 /\ pLink = offFirst
        /\ size # None => pLink # None /\ size = mem[pLink]

OsqInv == OsqTypeOK /\ Held /\ (MsgCnt > 0 => \E f, k : Layout(f, k))

(* f follows the links from offFirst.                                      *)
Walk(f) == f = [i \in 1 .. MsgCnt |-> IF i = 1 THEN offFirst ELSE Following(f[i - 1], TRUE)]

(* There is one way to walk the links.                                     *)
LEMMA OneWalk ==
  ASSUME MsgCnt \in Nat, NEW f, Walk(f)
  PROVE  Offset = f
<1>1. Offset = CHOOSE g : Walk(g)
  BY DEF Offset, Walk
<1>2. Walk(Offset)
  BY <1>1
<1> DEFINE g == Offset
           T == {i \in 1 .. MsgCnt : f[i] # g[i]}
<1>3. ASSUME NEW i \in 1 .. MsgCnt
      PROVE  /\ f[i] = IF i = 1 THEN offFirst ELSE Following(f[i - 1], TRUE)
             /\ g[i] = IF i = 1 THEN offFirst ELSE Following(g[i - 1], TRUE)
  BY <1>2 DEF Walk
<1>4. T = {}
  <2>1. SUFFICES ASSUME T # {} PROVE FALSE
    OBVIOUS
  <2>2. PICK s \in T : \A t \in T : ~(t < s)
    <3>1. T \in SUBSET (1 .. MsgCnt)
      OBVIOUS
    <3> HIDE DEF T
    <3>2. QED
      BY <2>1, <3>1, Least
  <2>3. s # 1 /\ s - 1 \in 1 .. MsgCnt /\ s - 1 < s
    <3>1. s \in 1 .. MsgCnt /\ f[s] # g[s]
      OBVIOUS
    <3> HIDE DEF g, T
    <3>2. s # 1
      BY <1>3, <3>1
    <3>3. QED
      BY <3>1, <3>2
  <2>4. f[s - 1] = g[s - 1]
    BY <2>2, <2>3
  <2>5. s \in 1 .. MsgCnt /\ f[s] # g[s]
    OBVIOUS
  <2> HIDE DEF g, T
  <2>6. f[s] = Following(f[s - 1], TRUE) /\ g[s] = Following(g[s - 1], TRUE)
    BY <1>3, <2>3, <2>5
  <2>7. QED
    BY <2>4, <2>5, <2>6
<1>5. /\ DOMAIN f = 1 .. MsgCnt /\ DOMAIN g = 1 .. MsgCnt
      /\ f = [i \in DOMAIN f |-> f[i]] /\ g = [i \in DOMAIN g |-> g[i]]
  BY <1>2 DEF Walk
<1>6. QED
  BY <1>4, <1>5

(* The walk of OS_Q_Purge finds the messages where the layout has them.     *)
LEMMA Follows ==
  ASSUME Words \in Nat, MsgCnt \in Nat, NEW f, NEW k, Layout(f, k), NEW i \in 1 .. MsgCnt - 1
  PROVE  f[i + 1] = Following(f[i], TRUE)
<1>1. /\ i \in 1 .. MsgCnt /\ i + 1 \in 1 .. MsgCnt /\ k \in 1 .. MsgCnt
      /\ f[i] \in 0 .. Words - 1 /\ f[i + 1] \in 0 .. Words - 1
      /\ mem[f[i]] \in Nat \ {0} /\ EndOf(f[i]) <= Words
      /\ mem[f[i + 1]] \in Nat \ {0} /\ EndOf(f[i + 1]) <= Words
  BY DEF Layout
<1>2. EndOf(f[i]) \in Nat /\ EndOf(f[i + 1]) >= f[i + 1] + 2
  BY <1>1, Sizes DEF EndOf
<1>3. CASE i # k
  <2>1. f[i + 1] = EndOf(f[i])
    BY <1>1, <1>3 DEF Layout
  <2>2. mem[EndOf(f[i])] # 0
    BY <1>1, <2>1
  <2>3. EndOf(f[i]) + 2 <= EndOf(f[i + 1]) /\ EndOf(f[i + 1]) \in Int
    BY <1>1, <1>2, <2>1, Sizes DEF EndOf
  <2>4. ~(Words - EndOf(f[i]) <= 1)
    BY <1>1, <1>2, <2>3
  <2>5. QED
    BY <2>1, <2>2, <2>4 DEF Following
<1>4. CASE i = k
  <2>1. f[i + 1] = 0 /\ (Words - EndOf(f[i]) > 1 => mem[EndOf(f[i])] = 0)
    BY <1>1, <1>4 DEF Layout
  <2>2. Words - EndOf(f[i]) <= 1 \/ mem[EndOf(f[i])] = 0
    BY <1>1, <1>2, <2>1
  <2>3. QED
    BY <2>1, <2>2 DEF Following
<1>5. QED
  BY <1>3, <1>4

(* Every layout of a buffer is what the walk finds.                        *)
Reads == \A f, k : MsgCnt > 0 /\ Layout(f, k) => Offset = f

(* So walking the links reads the layout, whichever it is.                 *)
LEMMA LayoutReads == Words \in Nat /\ MsgCnt \in Nat /\ offFirst \in Nat => Reads
<1>1. SUFFICES ASSUME Words \in Nat, MsgCnt \in Nat, offFirst \in Nat, MsgCnt > 0,
                      NEW f, NEW k, Layout(f, k)
               PROVE  Walk(f)
  BY OneWalk DEF Reads
<1>2. ASSUME NEW i \in 1 .. MsgCnt - 1
      PROVE  f[i + 1] = Following(f[i], TRUE)
  BY <1>1, Follows
<1>3. f \in [1 .. MsgCnt -> 0 .. Words - 1] /\ f[1] = offFirst
  BY <1>1 DEF Layout
<1>4. ASSUME NEW i \in 1 .. MsgCnt, i # 1
      PROVE  f[i] = Following(f[i - 1], TRUE)
  <2>1. i - 1 \in 1 .. MsgCnt - 1 /\ (i - 1) + 1 = i
    BY <1>1, <1>4
  <2>2. f[(i - 1) + 1] = Following(f[i - 1], TRUE)
    BY <1>2, <2>1
  <2>3. QED
    BY <2>1, <2>2
<1>5. QED
  BY <1>3, <1>4 DEF Walk

(* A message of the layout lies inside the buffer.                         *)
LEMMA AMessage ==
  ASSUME Words \in Nat, MsgCnt \in Nat, NEW f, NEW k, Layout(f, k), NEW j \in 1 .. MsgCnt
  PROVE  /\ f[j] \in 0 .. Words - 1 /\ mem[f[j]] \in Nat \ {0}
         /\ EndOf(f[j]) = f[j] + StorageSize(mem[f[j]])
         /\ EndOf(f[j]) \in Nat /\ EndOf(f[j]) <= Words /\ f[j] + 2 <= EndOf(f[j])
<1>1. f[j] \in 0 .. Words - 1 /\ mem[f[j]] \in Nat \ {0} /\ EndOf(f[j]) <= Words
  BY DEF Layout
<1>2. StorageSize(mem[f[j]]) \in Nat /\ StorageSize(mem[f[j]]) >= 2
  BY <1>1, Sizes
<1>3. EndOf(f[j]) = f[j] + StorageSize(mem[f[j]])
  BY DEF EndOf
<1>4. QED
  BY <1>1, <1>2, <1>3

(* No two messages share a link word, so there are no more than words.     *)
LEMMA LayoutCounts ==
  ASSUME Words \in Nat, MsgCnt \in Nat, NEW f, NEW k, Layout(f, k)
  PROVE  MsgCnt <= Words
<1>1. \A i \in 1 .. MsgCnt : /\ mem[f[i]] \in Nat \ {0} /\ f[i] \in 0 .. Words - 1
                             /\ f[i] < EndOf(f[i])
  BY AMessage
<1>2. k \in 1 .. MsgCnt /\ f[1] = offFirst /\ f[MsgCnt] = offLast
      /\ f \in [1 .. MsgCnt -> 0 .. Words - 1]
  BY DEF Layout
<1>3. \A i \in 1 .. MsgCnt : EndOf(f[i]) \in Nat
  BY AMessage
<1>4. ASSUME NEW i \in 1 .. MsgCnt, NEW j \in 1 .. MsgCnt, i < j
      PROVE  f[i] # f[j]
  <2>1. CASE j <= k \/ k < i
    <3>1. EndOf(f[i]) <= f[j]
      BY <1>4, <2>1 DEF Layout
    <3>2. QED
      BY <1>1, <1>3, <3>1
  <2>2. CASE i <= k /\ k < j
    <3>1. EndOf(f[MsgCnt]) <= f[1]
      BY <1>2, <2>2 DEF Layout
    <3>2. f[1] <= f[i]
      <4>1. i = 1 \/ EndOf(f[1]) <= f[i]
        BY <2>2 DEF Layout
      <4>2. QED
        BY <1>1, <1>3, <4>1
    <3>3. f[j] < EndOf(f[MsgCnt])
      <4>1. j = MsgCnt \/ EndOf(f[j]) <= f[MsgCnt]
        BY <2>2 DEF Layout
      <4>2. QED
        BY <1>1, <1>3, <4>1
    <3>4. QED
      BY <1>1, <1>3, <3>1, <3>2, <3>3
  <2>3. QED
    BY <1>2, <2>1, <2>2
<1>5. SUFFICES ASSUME Words < MsgCnt PROVE FALSE
  OBVIOUS
<1>6. /\ IsFiniteSet(1 .. MsgCnt) /\ Cardinality(1 .. MsgCnt) = MsgCnt
      /\ IsFiniteSet(0 .. Words - 1) /\ Cardinality(0 .. Words - 1) = Words
  <2>1. Cardinality(1 .. MsgCnt) = IF 1 > MsgCnt THEN 0 ELSE MsgCnt - 1 + 1
    BY FS_Interval
  <2>2. Cardinality(0 .. Words - 1) = IF 0 > Words - 1 THEN 0 ELSE Words - 1 - 0 + 1
    BY FS_Interval
  <2>3. IsFiniteSet(1 .. MsgCnt) /\ IsFiniteSet(0 .. Words - 1)
    BY FS_Interval
  <2>4. QED
    BY <2>1, <2>2, <2>3
<1> DEFINE S == 1 .. MsgCnt
           T == 0 .. Words - 1
<1>7. f \in [S -> T] /\ IsFiniteSet(S) /\ IsFiniteSet(T) /\ Cardinality(T) < Cardinality(S)
  BY <1>2, <1>5, <1>6
<1>8. \E x, y \in S : x # y /\ f[x] = f[y]
  <2> HIDE DEF S, T
  <2>1. QED
    BY <1>7, FS_PigeonHole
<1>9. PICK x \in S, y \in S : x # y /\ f[x] = f[y]
  BY <1>8
<1>10. x < y \/ y < x
  BY <1>9
<1>11. QED
  BY <1>4, <1>9, <1>10

(* Where the messages lie: behind offFirst, or at the start.               *)
LEMMA Places ==
  ASSUME OsqTypeOK, MsgCnt > 0, NEW f, NEW k, Layout(f, k), NEW i \in 1 .. MsgCnt
  PROVE  /\ f[i] \in 0 .. Words - 1 /\ mem[f[i]] \in Nat \ {0}
         /\ EndOf(f[i]) = f[i] + StorageSize(mem[f[i]])
         /\ EndOf(f[i]) \in Nat /\ EndOf(f[i]) <= Words /\ f[i] + 2 <= EndOf(f[i])
         /\ i <= k => offFirst <= f[i] /\ EndOf(f[i]) <= EndOf(f[k])
         /\ i > k  => EndOf(f[i]) <= EndOf(offLast)
<1>1. MsgCnt \in Nat /\ Words \in Nat /\ k \in 1 .. MsgCnt /\ 1 \in 1 .. MsgCnt
      /\ MsgCnt \in 1 .. MsgCnt /\ f[1] = offFirst /\ f[MsgCnt] = offLast
  BY WordsAssumption DEF Layout, OsqTypeOK
<1>2. ASSUME NEW j \in 1 .. MsgCnt
      PROVE  /\ f[j] \in 0 .. Words - 1 /\ mem[f[j]] \in Nat \ {0}
             /\ EndOf(f[j]) = f[j] + StorageSize(mem[f[j]])
             /\ EndOf(f[j]) \in Nat /\ EndOf(f[j]) <= Words /\ f[j] + 2 <= EndOf(f[j])
  BY <1>1, AMessage
<1>3. ASSUME i <= k PROVE offFirst <= f[i] /\ EndOf(f[i]) <= EndOf(f[k])
  <2>1. i = 1 \/ EndOf(f[1]) <= f[i]
    BY <1>1, <1>3 DEF Layout
  <2>2. i = k \/ EndOf(f[i]) <= f[k]
    BY <1>1, <1>3 DEF Layout
  <2>3. QED
    BY <1>1, <1>2, <2>1, <2>2
<1>4. ASSUME i > k PROVE EndOf(f[i]) <= EndOf(offLast)
  <2>1. i = MsgCnt \/ EndOf(f[i]) <= f[MsgCnt]
    BY <1>1, <1>4 DEF Layout
  <2>2. QED
    BY <1>1, <1>2, <2>1
<1>5. QED
  BY <1>2, <1>3, <1>4

(* The layout with one more message, at off.                               *)
Added(f, off) == [i \in 1 .. MsgCnt + 1 |-> IF i <= MsgCnt THEN f[i] ELSE off]

(* Storing outside of the messages leaves them as they are.                *)
Storing(f, k, m, n, tag, off) ==
  /\ OsqTypeOK /\ MsgCnt > 0 /\ Layout(f, k)
  /\ n \in Nat \ {0} /\ tag \in Tags /\ off \in 0 .. Words - 1
  /\ off + StorageSize(n) <= Words
  /\ m \in [0 .. Words - 1 -> Nat \cup Tags]
  /\ Store(m, off, n, tag)
  /\ \A i \in 1 .. MsgCnt : /\ \A w \in Span(f[i]) : m[w] = mem[w]
                            /\ EndOf(f[i]) <= off \/ off + StorageSize(n) <= f[i]

LEMMA StoredOutside ==
  ASSUME NEW f, NEW k, NEW m, NEW n, NEW tag, NEW off, Storing(f, k, m, n, tag, off)
  PROVE  /\ mem' \in [0 .. Words - 1 -> Nat \cup Tags]
         /\ \A w \in 0 .. Words - 1 : w \notin off .. off + StorageSize(n) - 1 => mem'[w] = m[w]
         /\ mem'[off] = n /\ EndOf(off)' = off + StorageSize(n)
         /\ MessageAt(off)' = Message(n, tag)
         /\ \A i \in 1 .. MsgCnt : /\ mem'[f[i]] = mem[f[i]]
                                   /\ EndOf(f[i])' = EndOf(f[i])
                                   /\ Span(f[i])' = Span(f[i])
                                   /\ MessageAt(f[i])' = MessageAt(f[i])
<1>1. /\ OsqTypeOK /\ MsgCnt > 0 /\ Layout(f, k)
      /\ n \in Nat \ {0} /\ tag \in Tags /\ off \in 0 .. Words - 1
      /\ off + StorageSize(n) <= Words
      /\ m \in [0 .. Words - 1 -> Nat \cup Tags]
      /\ Store(m, off, n, tag)
      /\ \A i \in 1 .. MsgCnt : /\ \A w \in Span(f[i]) : m[w] = mem[w]
                                /\ EndOf(f[i]) <= off \/ off + StorageSize(n) <= f[i]
  BY DEF Storing
<1>2. Words \in Nat \ {0} /\ MsgCnt \in Nat
  BY <1>1, WordsAssumption DEF OsqTypeOK
<1>3. /\ DataWords(n) \in Nat /\ StorageSize(n) = 1 + DataWords(n)
      /\ DOMAIN m = 0 .. Words - 1
  BY <1>1, Sizes DEF StorageSize
<1>4. mem' = [w \in 0 .. Words - 1 |->
                IF w = off THEN n
                ELSE IF w \in off + 1 .. off + DataWords(n) THEN tag ELSE m[w]]
  BY <1>1, <1>3 DEF Store
<1>5. mem' \in [0 .. Words - 1 -> Nat \cup Tags]
  BY <1>1, <1>4
<1>6. ASSUME NEW w \in 0 .. Words - 1, w \notin off .. off + StorageSize(n) - 1
      PROVE  mem'[w] = m[w]
  <2>1. w # off /\ w \notin off + 1 .. off + DataWords(n)
    BY <1>1, <1>2, <1>3, <1>6
  <2>2. QED
    BY <1>1, <1>4, <2>1
<1>7. mem'[off] = n
  BY <1>1, <1>4
<1>8. EndOf(off)' = off + StorageSize(n)
  BY <1>1, <1>7 DEF EndOf
<1>9. MessageAt(off)' = Message(n, tag)
  <2>1. ASSUME NEW j \in 1 .. DataWords(n)
        PROVE  mem'[off + j] = tag
    <3>1. off + j \in 0 .. Words - 1 /\ off + j # off /\ off + j \in off + 1 .. off + DataWords(n)
      BY <1>1, <1>2, <1>3
    <3>2. QED
      BY <1>1, <1>4, <3>1
  <2>2. MessageAt(off)' = [len |-> mem'[off],
                           body |-> [j \in 1 .. DataWords(mem'[off]) |-> mem'[off + j]]]
    BY <1>1 DEF MessageAt
  <2>3. QED
    BY <1>1, <1>7, <2>1, <2>2 DEF Message
<1>10. ASSUME NEW i \in 1 .. MsgCnt
      PROVE  /\ mem'[f[i]] = mem[f[i]] /\ EndOf(f[i])' = EndOf(f[i])
             /\ Span(f[i])' = Span(f[i]) /\ MessageAt(f[i])' = MessageAt(f[i])
  <2>1. /\ f[i] \in 0 .. Words - 1 /\ mem[f[i]] \in Nat \ {0}
        /\ EndOf(f[i]) = f[i] + StorageSize(mem[f[i]])
        /\ EndOf(f[i]) \in Nat /\ EndOf(f[i]) <= Words /\ f[i] + 2 <= EndOf(f[i])
    BY <1>1, <1>2, AMessage
  <2>2. ASSUME NEW w \in Span(f[i])
        PROVE  mem'[w] = mem[w]
    <3>1. w \in f[i] .. EndOf(f[i]) - 1
      BY <1>1 DEF Span
    <3>2. w \in 0 .. Words - 1
      BY <1>1, <1>2, <2>1, <3>1
    <3>3. EndOf(f[i]) <= off \/ off + StorageSize(n) <= f[i]
      BY <1>1
    <3>4. w \notin off .. off + StorageSize(n) - 1
      BY <1>1, <1>2, <1>3, <2>1, <3>1, <3>3
    <3>5. QED
      BY <1>1, <1>6, <3>2, <3>4
  <2>3. mem'[f[i]] = mem[f[i]]
    BY <1>1, <2>1, <2>2 DEF Span
  <2>4. EndOf(f[i])' = EndOf(f[i])
    BY <1>1, <2>3 DEF EndOf
  <2>5. Span(f[i])' = Span(f[i])
    BY <1>1, <2>4 DEF Span
  <2>6. ASSUME NEW j \in 1 .. DataWords(mem[f[i]])
        PROVE  mem'[f[i] + j] = mem[f[i] + j]
    <3>1. DataWords(mem[f[i]]) \in Nat /\ StorageSize(mem[f[i]]) = 1 + DataWords(mem[f[i]])
      BY <1>1, <2>1, Sizes DEF StorageSize
    <3>2. f[i] + j \in f[i] .. EndOf(f[i]) - 1
      BY <2>1, <3>1
    <3>3. QED
      BY <2>2, <3>2 DEF Span
  <2>7. MessageAt(f[i])' = [len |-> mem'[f[i]],
                            body |-> [j \in 1 .. DataWords(mem'[f[i]]) |-> mem'[f[i] + j]]]
    BY <1>1 DEF MessageAt
  <2>8. MessageAt(f[i]) = [len |-> mem[f[i]],
                           body |-> [j \in 1 .. DataWords(mem[f[i]]) |-> mem[f[i] + j]]]
    BY <1>1 DEF MessageAt
  <2>9. QED
    BY <1>1, <2>3, <2>4, <2>5, <2>6, <2>7, <2>8
<1>11. QED
  BY <1>1, <1>5, <1>6, <1>7, <1>8, <1>9, <1>10

(* Where a new message may go: behind the last; at the start, when the     *)
(* room behind the last is too small; or in the gap in front of the first. *)
Fits(k, j, off, n, m) ==
  \/ k = MsgCnt /\ j = MsgCnt + 1 /\ off = EndOf(offLast) /\ m = mem
  \/ /\ k = MsgCnt /\ j = MsgCnt /\ off = 0
     /\ StorageSize(n) <= offFirst /\ Words - EndOf(offLast) < StorageSize(n)
     /\ Words - EndOf(offLast) > 1 => m[EndOf(offLast)] = 0
  \/ /\ k < MsgCnt /\ j = k /\ off = EndOf(offLast) /\ m = mem
     /\ off + StorageSize(n) <= offFirst

(* Where a new message may go, no other message lies.                      *)
LEMMA Outside ==
  ASSUME OsqTypeOK, MsgCnt > 0, NEW f, NEW k, Layout(f, k), NEW m, NEW n \in Nat \ {0},
         NEW j, NEW off \in 0 .. Words - 1, Fits(k, j, off, n, m), NEW i \in 1 .. MsgCnt
  PROVE  EndOf(f[i]) <= off \/ off + StorageSize(n) <= f[i]
<1>1. /\ f[i] \in 0 .. Words - 1 /\ mem[f[i]] \in Nat \ {0}
      /\ EndOf(f[i]) \in Nat /\ EndOf(f[i]) <= Words /\ f[i] + 2 <= EndOf(f[i])
      /\ i <= k => offFirst <= f[i] /\ EndOf(f[i]) <= EndOf(f[k])
      /\ i > k  => EndOf(f[i]) <= EndOf(offLast)
  BY Places
<1>2. Words \in Nat /\ MsgCnt \in Nat /\ offFirst \in Nat /\ k \in 1 .. MsgCnt
      /\ f[MsgCnt] = offLast /\ StorageSize(n) \in Nat
  BY WordsAssumption, Sizes DEF OsqTypeOK, Layout
<1>3. QED
  BY <1>1, <1>2 DEF Fits

(* With the new message behind the others the buffer is laid out again.    *)
LEMMA AddedLayout ==
  ASSUME OsqTypeOK, MsgCnt > 0, NEW f, NEW k, Layout(f, k), NEW m, NEW n \in Nat \ {0},
         NEW tag \in Tags, NEW off \in 0 .. Words - 1, off + StorageSize(n) <= Words,
         m \in [0 .. Words - 1 -> Nat \cup Tags],
         Store(m, off, n, tag), offFirst' = offFirst,
         \A i \in 1 .. MsgCnt : \A w \in Span(f[i]) : m[w] = mem[w],
         NEW j, Fits(k, j, off, n, m), NEW g, g = Added(f, off)
  PROVE  Layout(g, j)'
<1>1. /\ Words \in Nat /\ MsgCnt \in Nat /\ offFirst \in 0 .. Words - 1 /\ k \in 1 .. MsgCnt
      /\ f \in [1 .. MsgCnt -> 0 .. Words - 1]
      /\ f[1] = offFirst /\ f[MsgCnt] = offLast /\ StorageSize(n) \in Nat
      /\ StorageSize(n) >= 2
  <2>1. Words \in Nat /\ MsgCnt \in Nat /\ offFirst \in 0 .. Words - 1
    BY WordsAssumption DEF OsqTypeOK
  <2>2. /\ k \in 1 .. MsgCnt /\ f \in [1 .. MsgCnt -> 0 .. Words - 1]
        /\ f[1] = offFirst /\ f[MsgCnt] = offLast
    BY DEF Layout
  <2>3. StorageSize(n) \in Nat /\ StorageSize(n) >= 2
    BY Sizes
  <2>4. QED
    BY <2>1, <2>2, <2>3
<1>2. MsgCnt' = MsgCnt + 1 /\ offLast' = off
  BY DEF Store
<1>3. /\ \A w \in 0 .. Words - 1 : w \notin off .. off + StorageSize(n) - 1 => mem'[w] = m[w]
      /\ mem'[off] = n /\ EndOf(off)' = off + StorageSize(n)
      /\ \A i \in 1 .. MsgCnt : /\ mem'[f[i]] = mem[f[i]]
                                /\ EndOf(f[i])' = EndOf(f[i])
                                /\ Span(f[i])' = Span(f[i])
  <2>1. \A i \in 1 .. MsgCnt : /\ \A w \in Span(f[i]) : m[w] = mem[w]
                               /\ EndOf(f[i]) <= off \/ off + StorageSize(n) <= f[i]
    BY Outside
  <2>2. Storing(f, k, m, n, tag, off)
    BY <2>1 DEF Storing
  <2>3. ASSUME NEW w \in 0 .. Words - 1, w \notin off .. off + StorageSize(n) - 1
        PROVE  mem'[w] = m[w]
    BY <1>1, <2>2, <2>3, StoredOutside
  <2>4. mem'[off] = n /\ EndOf(off)' = off + StorageSize(n)
    BY <2>2, StoredOutside
  <2>5. \A i \in 1 .. MsgCnt : mem'[f[i]] = mem[f[i]] /\ EndOf(f[i])' = EndOf(f[i])
    BY <2>2, StoredOutside
  <2>6. \A i \in 1 .. MsgCnt : Span(f[i])' = Span(f[i])
    BY <2>2, StoredOutside
  <2>7. QED
    BY <2>3, <2>4, <2>5, <2>6
<1>4. /\ \A i \in 1 .. MsgCnt : g[i] = f[i]
      /\ g[MsgCnt + 1] = off
      /\ g \in [1 .. MsgCnt + 1 -> 0 .. Words - 1]
  BY <1>1 DEF Added
<1>5. \A i \in 1 .. MsgCnt :
        /\ f[i] \in 0 .. Words - 1 /\ mem[f[i]] \in Nat \ {0}
        /\ EndOf(f[i]) \in Nat /\ EndOf(f[i]) <= Words /\ f[i] + 2 <= EndOf(f[i])
        /\ i <= k => offFirst <= f[i] /\ EndOf(f[i]) <= EndOf(f[k])
        /\ i > k  => EndOf(f[i]) <= EndOf(offLast)
  BY Places
<1>6. /\ j \in 1 .. MsgCnt + 1
      /\ (k = MsgCnt /\ j \in {MsgCnt, MsgCnt + 1}) \/ (k < MsgCnt /\ j = k)
      /\ (k < MsgCnt \/ j = MsgCnt + 1) => off = EndOf(offLast)
  BY <1>1 DEF Fits
<1>7. /\ g \in [1 .. MsgCnt' -> 0 .. Words - 1] /\ j \in 1 .. MsgCnt'
      /\ g[1] = offFirst' /\ g[MsgCnt'] = offLast'
  <2>1. g \in [1 .. MsgCnt' -> 0 .. Words - 1] /\ g[MsgCnt'] = offLast'
    BY <1>2, <1>4
  <2>2. 1 \in 1 .. MsgCnt
    BY <1>1
  <2>3. g[1] = offFirst'
    BY <1>1, <1>4, <2>2
  <2>4. QED
    BY <1>2, <1>6, <2>1, <2>3
<1>8. ASSUME NEW i \in 1 .. MsgCnt'
      PROVE  mem'[g[i]] \in Nat \ {0} /\ EndOf(g[i])' <= Words
  <2>1. CASE i \in 1 .. MsgCnt
    <3>1. g[i] = f[i] /\ EndOf(f[i])' <= Words /\ mem'[f[i]] \in Nat \ {0}
      BY <1>3, <1>4, <1>5, <2>1
    <3>2. QED
      BY <3>1
  <2>2. CASE i = MsgCnt + 1
    BY <1>3, <1>4, <2>2
  <2>3. QED
    BY <1>1, <1>2, <2>1, <2>2
<1>9. ASSUME NEW i \in 1 .. MsgCnt' - 1, i # j
      PROVE  g[i + 1] = EndOf(g[i])'
  <2>1. i \in 1 .. MsgCnt /\ g[i] = f[i] /\ EndOf(f[i])' = EndOf(f[i])
    <3>1. i \in 1 .. MsgCnt
      BY <1>1, <1>2
    <3>2. QED
      BY <1>3, <1>4, <3>1
  <2>2. EndOf(g[i])' = EndOf(f[i])
    BY <2>1
  <2>3. CASE i = MsgCnt
    <3>1. g[i + 1] = off /\ f[i] = offLast
      BY <1>1, <1>4, <2>3
    <3>2. off = EndOf(offLast)
      BY <1>1, <1>9, <2>3 DEF Fits
    <3>3. QED
      BY <2>2, <3>1, <3>2
  <2>4. CASE i # MsgCnt
    <3>1. i \in 1 .. MsgCnt - 1 /\ i + 1 \in 1 .. MsgCnt /\ i # k
      BY <1>1, <1>9, <2>1, <2>4 DEF Fits
    <3>2. f[i + 1] = EndOf(f[i])
      BY <3>1 DEF Layout
    <3>3. QED
      BY <1>4, <2>2, <3>1, <3>2
  <2>5. QED
    BY <2>3, <2>4
<1>10. ASSUME NEW i \in 1 .. MsgCnt', NEW p \in 1 .. MsgCnt', i < p, p <= j \/ j < i
       PROVE  EndOf(g[i])' <= g[p]
  <2>1. i \in 1 .. MsgCnt /\ g[i] = f[i] /\ EndOf(f[i])' = EndOf(f[i])
    <3>1. i \in 1 .. MsgCnt
      BY <1>1, <1>2, <1>10
    <3>2. QED
      BY <1>3, <1>4, <3>1
  <2>2. EndOf(g[i])' = EndOf(f[i])
    BY <2>1
  <2>3. CASE p = MsgCnt + 1
    <3>1. g[p] = off
      BY <1>4, <2>3
    <3>2. EndOf(f[i]) <= off
      <4>1. off = EndOf(offLast) /\ EndOf(f[MsgCnt]) = EndOf(offLast)
        <5>1. k < MsgCnt \/ j = MsgCnt + 1
          BY <1>1, <1>6, <1>10, <2>1, <2>3
        <5>2. off = EndOf(offLast)
          BY <1>6, <5>1
        <5>3. EndOf(f[MsgCnt]) = EndOf(offLast)
          BY <1>1
        <5>4. QED
          BY <5>2, <5>3
      <4>2. EndOf(f[i]) <= EndOf(offLast)
        <5>1. CASE i <= k
          <6>1. k = MsgCnt
            BY <1>1, <1>6, <1>10, <2>1, <2>3, <5>1
          <6>2. EndOf(f[i]) <= EndOf(f[MsgCnt])
            BY <1>5, <2>1, <5>1, <6>1
          <6>3. QED
            BY <4>1, <6>2
        <5>2. CASE i > k
          BY <1>5, <2>1, <5>2
        <5>3. QED
          BY <1>1, <2>1, <5>1, <5>2
      <4>3. QED
        BY <4>1, <4>2
    <3>3. QED
      BY <2>2, <3>1, <3>2
  <2>4. CASE p # MsgCnt + 1
    <3>1. p \in 1 .. MsgCnt /\ (p <= k \/ k < i) /\ g[p] = f[p]
      <4>1. p \in 1 .. MsgCnt
        BY <1>1, <1>2, <2>4
      <4>2. p <= k \/ k < i
        BY <1>1, <1>6, <1>10, <2>1, <4>1
      <4>3. QED
        BY <1>4, <4>1, <4>2
    <3>2. EndOf(f[i]) <= f[p]
      BY <1>10, <2>1, <3>1 DEF Layout
    <3>3. QED
      BY <2>2, <3>1, <3>2
  <2>5. QED
    BY <2>3, <2>4
<1>11. ASSUME j < MsgCnt'
       PROVE  /\ g[j + 1] = 0
              /\ EndOf(offLast)' <= offFirst'
              /\ Words - EndOf(g[j])' < StorageSize(mem'[0])
              /\ Words - EndOf(g[j])' > 1 => mem'[EndOf(g[j])'] = 0
  <2>1. j = k /\ k \in 1 .. MsgCnt /\ g[j] = f[k] /\ EndOf(f[k])' = EndOf(f[k])
    <3>1. j = k /\ k \in 1 .. MsgCnt
      BY <1>1, <1>2, <1>6, <1>11
    <3>2. QED
      BY <1>3, <1>4, <3>1
  <2>2. EndOf(g[j])' = EndOf(f[k])
    BY <2>1
  <2>3. EndOf(offLast)' = off + StorageSize(n)
    BY <1>2, <1>3 DEF EndOf
  <2>4. off + StorageSize(n) <= offFirst
    BY <1>1, <1>2, <1>11, <2>1 DEF Fits
  <2>5. offFirst + 2 <= EndOf(f[k]) /\ EndOf(f[k]) \in Nat /\ EndOf(f[k]) <= Words
    BY <1>1, <1>5
  <2>6. Words - EndOf(f[k]) > 1 => mem'[EndOf(f[k])] = m[EndOf(f[k])]
    <3>1. ASSUME Words - EndOf(f[k]) > 1
          PROVE  /\ EndOf(f[k]) \in 0 .. Words - 1
                 /\ EndOf(f[k]) \notin off .. off + StorageSize(n) - 1
      <4>1. EndOf(f[k]) \in 0 .. Words - 1
        BY <1>1, <2>5, <3>1
      <4>2. off + StorageSize(n) <= EndOf(f[k])
        BY <1>1, <2>4, <2>5
      <4>3. QED
        BY <1>1, <4>1, <4>2
    <3>2. QED
      BY <1>3, <3>1
  <2>7. CASE k = MsgCnt
    <3>1. off = 0 /\ Words - EndOf(offLast) < StorageSize(n)
          /\ (Words - EndOf(offLast) > 1 => m[EndOf(offLast)] = 0)
      BY <1>1, <2>1, <2>7 DEF Fits
    <3>2. f[k] = offLast /\ g[j + 1] = off
      BY <1>1, <1>4, <2>1, <2>7
    <3>3. QED
      BY <1>2, <1>3, <2>2, <2>3, <2>4, <2>6, <3>1, <3>2
  <2>8. CASE k < MsgCnt
    <3>1. m = mem /\ off = EndOf(offLast)
      BY <1>1, <2>8 DEF Fits
    <3>2. f[k + 1] = 0 /\ Words - EndOf(f[k]) < StorageSize(mem[0])
          /\ (Words - EndOf(f[k]) > 1 => mem[EndOf(f[k])] = 0)
      BY <2>8 DEF Layout
    <3>3. k + 1 \in 1 .. MsgCnt /\ g[j + 1] = f[k + 1]
      BY <1>1, <1>4, <2>1, <2>8
    <3>4. mem'[0] = mem[0]
      BY <1>3, <3>2, <3>3
    <3>5. QED
      BY <2>2, <2>3, <2>4, <2>6, <3>1, <3>2, <3>3, <3>4, <1>2
  <2>9. QED
    BY <1>1, <2>7, <2>8
<1>12. ASSUME NEW w \in offFirst' .. EndOf(g[j])' - 1
       PROVE  \E i \in 1 .. j : w \in Span(g[i])'
  <2>1. CASE j = MsgCnt + 1 /\ w >= EndOf(offLast)
    <3>1. off = EndOf(offLast) /\ g[j] = off
      BY <1>1, <1>4, <2>1 DEF Fits
    <3>2. EndOf(g[j])' = off + StorageSize(n)
      BY <1>3, <3>1
    <3>3. w \in off .. EndOf(g[j])' - 1
      BY <1>1, <2>1, <3>1, <3>2
    <3>4. w \in Span(g[j])'
      BY <3>1, <3>3 DEF Span
    <3>5. QED
      BY <1>6, <3>4
  <2>2. CASE ~(j = MsgCnt + 1 /\ w >= EndOf(offLast))
    <3>1. k <= j /\ w \in offFirst .. EndOf(f[k]) - 1
      <4>1. CASE j = MsgCnt + 1
        BY <1>1, <1>5, <2>2, <4>1 DEF Fits
      <4>2. CASE j # MsgCnt + 1
        <5>1. j = k
          BY <1>1, <4>2 DEF Fits
        <5>2. g[j] = f[k] /\ EndOf(f[k])' = EndOf(f[k])
          BY <1>1, <1>3, <1>4, <5>1
        <5>3. EndOf(g[j])' = EndOf(f[k])
          BY <5>2
        <5>4. QED
          BY <1>1, <5>1, <5>3
      <4>3. QED
        BY <4>1, <4>2
    <3>2. PICK i \in 1 .. k : w \in Span(f[i])
      BY <3>1 DEF Layout
    <3>3. i \in 1 .. j /\ i \in 1 .. MsgCnt
      BY <1>1, <1>6, <3>1, <3>2
    <3>4. g[i] = f[i] /\ Span(f[i])' = Span(f[i])
      BY <1>3, <1>4, <3>3
    <3>5. w \in Span(g[i])'
      BY <3>2, <3>4
    <3>6. QED
      BY <3>3, <3>5
  <2>3. QED
    BY <2>1, <2>2
<1>13. ASSUME j < MsgCnt', NEW w \in 0 .. EndOf(offLast)' - 1
       PROVE  \E i \in j + 1 .. MsgCnt' : w \in Span(g[i])'
  <2>1. EndOf(offLast)' = off + StorageSize(n) /\ j = k
    BY <1>1, <1>2, <1>3, <1>13 DEF EndOf, Fits
  <2>2. CASE w >= off
    <3>1. w \in off .. EndOf(off)' - 1
      BY <1>1, <1>3, <2>1, <2>2
    <3>2. PICK last \in j + 1 .. MsgCnt' : g[last] = off
      <4>1. MsgCnt' \in j + 1 .. MsgCnt' /\ g[MsgCnt'] = off
        BY <1>1, <1>2, <1>4, <1>6, <1>13
      <4>2. QED
        BY <4>1
    <3>3. w \in Span(g[last])'
      BY <3>1, <3>2 DEF Span
    <3>4. QED
      BY <3>3
  <2>3. CASE w < off
    <3>1. k < MsgCnt /\ w \in 0 .. EndOf(offLast) - 1
      BY <1>1, <1>2, <1>13, <2>1, <2>3 DEF Fits
    <3>2. PICK i \in k + 1 .. MsgCnt : w \in Span(f[i])
      BY <3>1 DEF Layout
    <3>3. i \in 1 .. MsgCnt /\ i \in j + 1 .. MsgCnt' /\ g[i] = f[i] /\ Span(f[i])' = Span(f[i])
      BY <1>1, <1>2, <1>3, <1>4, <2>1, <3>2
    <3>4. w \in Span(g[i])'
      BY <3>2, <3>3
    <3>5. QED
      BY <3>3, <3>4
  <2>4. QED
    BY <1>1, <2>1, <2>2, <2>3
<1>14. QED
  BY <1>7, <1>8, <1>9, <1>10, <1>11, <1>12, <1>13 DEF Layout

(* The consumer takes the first message out of the layout.                 *)
LEMMA PurgedLayout ==
  ASSUME OsqTypeOK, NEW f, NEW k, Layout(f, k), MsgCnt > 1, OS_Q_Purge,
         NEW g, g = [i \in 1 .. MsgCnt - 1 |-> f[i + 1]],
         NEW j, j = IF k > 1 THEN k - 1 ELSE MsgCnt - 1
  PROVE  Layout(g, j)'
<1>1. /\ Words \in Nat /\ MsgCnt \in Nat /\ offFirst \in 0 .. Words - 1 /\ k \in 1 .. MsgCnt
      /\ f \in [1 .. MsgCnt -> 0 .. Words - 1]
      /\ f[1] = offFirst /\ f[MsgCnt] = offLast
  BY WordsAssumption DEF OsqTypeOK, Layout
<1>2. /\ MsgCnt' = MsgCnt - 1 /\ offLast' = offLast /\ mem' = mem
      /\ offFirst' = Following(offFirst, MsgCnt' # 0)
  BY DEF OS_Q_Purge
<1>3. offFirst' = f[2]
  <2>1. 1 \in 1 .. MsgCnt - 1 /\ (MsgCnt' # 0) = TRUE /\ 1 + 1 = 2
    BY <1>1, <1>2
  <2>2. f[1 + 1] = Following(f[1], TRUE)
    BY <1>1, <2>1, Follows
  <2>3. QED
    BY <1>1, <1>2, <2>1, <2>2
<1>4. \A i \in 1 .. MsgCnt - 1 : g[i] = f[i + 1] /\ i + 1 \in 1 .. MsgCnt
  BY <1>1
<1>5. \A i \in 1 .. MsgCnt :
        /\ f[i] \in 0 .. Words - 1 /\ mem[f[i]] \in Nat \ {0}
        /\ EndOf(f[i]) \in Nat /\ EndOf(f[i]) <= Words /\ f[i] + 2 <= EndOf(f[i])
        /\ i <= k => offFirst <= f[i] /\ EndOf(f[i]) <= EndOf(f[k])
        /\ i > k  => EndOf(f[i]) <= EndOf(offLast)
  <2>1. MsgCnt > 0
    BY <1>1
  <2>2. QED
    BY <2>1, Places
<1>6. \A w : EndOf(w)' = EndOf(w) /\ Span(w)' = Span(w)
  BY <1>2 DEF EndOf, Span
<1>7. j \in 1 .. MsgCnt - 1
      /\ ((k > 1 /\ j = k - 1 /\ j + 1 = k) \/ (k = 1 /\ j = MsgCnt - 1 /\ j + 1 = MsgCnt))
  BY <1>1
<1>8. /\ g \in [1 .. MsgCnt' -> 0 .. Words - 1] /\ j \in 1 .. MsgCnt'
      /\ g[1] = offFirst' /\ g[MsgCnt'] = offLast'
  <2>1. g \in [1 .. MsgCnt - 1 -> 0 .. Words - 1]
    BY <1>4, <1>5
  <2>2. 1 + 1 = 2 /\ 1 \in 1 .. MsgCnt - 1
    BY <1>1
  <2>3. g[1] = f[2]
    BY <1>4, <2>2
  <2>4. MsgCnt - 1 \in 1 .. MsgCnt - 1 /\ MsgCnt - 1 + 1 = MsgCnt
    BY <1>1
  <2>5. g[MsgCnt - 1] = f[MsgCnt]
    BY <1>4, <2>4
  <2>6. QED
    BY <1>1, <1>2, <1>3, <1>7, <2>1, <2>3, <2>5
<1>9. ASSUME NEW i \in 1 .. MsgCnt'
      PROVE  mem'[g[i]] \in Nat \ {0} /\ EndOf(g[i])' <= Words
  <2>1. g[i] = f[i + 1] /\ i + 1 \in 1 .. MsgCnt
    BY <1>2, <1>4
  <2>2. EndOf(g[i])' = EndOf(f[i + 1])
    BY <1>6, <2>1
  <2>3. QED
    BY <1>2, <1>5, <2>1, <2>2
<1>10. ASSUME NEW i \in 1 .. MsgCnt' - 1, i # j
       PROVE  g[i + 1] = EndOf(g[i])'
  <2>1. i \in 1 .. MsgCnt - 1 /\ i + 1 \in 1 .. MsgCnt - 1
    BY <1>1, <1>2
  <2>2. g[i] = f[i + 1] /\ g[i + 1] = f[(i + 1) + 1]
    BY <1>4, <2>1
  <2>3. i + 1 # k
    BY <1>1, <1>2, <1>7, <1>10, <2>1
  <2>4. f[(i + 1) + 1] = EndOf(f[i + 1])
    BY <2>1, <2>3 DEF Layout
  <2>5. EndOf(g[i])' = EndOf(f[i + 1])
    BY <1>6, <2>2
  <2>6. QED
    BY <2>2, <2>4, <2>5
<1>11. ASSUME NEW i \in 1 .. MsgCnt', NEW p \in 1 .. MsgCnt', i < p, p <= j \/ j < i
       PROVE  EndOf(g[i])' <= g[p]
  <2>1. /\ g[i] = f[i + 1] /\ i + 1 \in 1 .. MsgCnt
        /\ g[p] = f[p + 1] /\ p + 1 \in 1 .. MsgCnt /\ i + 1 < p + 1
    BY <1>2, <1>4, <1>11
  <2>2. p + 1 <= k \/ k < i + 1
    BY <1>1, <1>2, <1>7, <1>11
  <2>3. EndOf(f[i + 1]) <= f[p + 1]
    BY <2>1, <2>2 DEF Layout
  <2>4. EndOf(g[i])' = EndOf(f[i + 1])
    BY <1>6, <2>1
  <2>5. QED
    BY <2>1, <2>3, <2>4
<1>12. ASSUME j < MsgCnt'
       PROVE  /\ g[j + 1] = 0
              /\ EndOf(offLast)' <= offFirst'
              /\ Words - EndOf(g[j])' < StorageSize(mem'[0])
              /\ Words - EndOf(g[j])' > 1 => mem'[EndOf(g[j])'] = 0
  <2>1. k > 1 /\ j = k - 1 /\ j + 1 = k /\ k < MsgCnt /\ k \in 1 .. MsgCnt - 1
    BY <1>1, <1>2, <1>7, <1>12
  <2>2. /\ f[k + 1] = 0 /\ EndOf(offLast) <= offFirst
        /\ Words - EndOf(f[k]) < StorageSize(mem[0])
        /\ Words - EndOf(f[k]) > 1 => mem[EndOf(f[k])] = 0
    BY <2>1 DEF Layout
  <2>3. g[j] = f[k] /\ g[j + 1] = f[k + 1]
    BY <1>1, <1>4, <1>7, <2>1
  <2>4. EndOf(g[j])' = EndOf(f[k]) /\ EndOf(offLast)' = EndOf(offLast)
    BY <1>2, <1>6, <2>3 DEF EndOf
  <2>5. offFirst <= offFirst'
    BY <1>1, <1>3, <1>5, <2>1
  <2>6. offFirst' \in Nat /\ EndOf(offLast) \in Nat
    BY <1>1, <1>3, <1>5
  <2>7. EndOf(offLast)' <= offFirst'
    BY <1>1, <2>2, <2>4, <2>5, <2>6
  <2>8. QED
    BY <1>2, <2>2, <2>3, <2>4, <2>7
<1>13. ASSUME NEW w \in offFirst' .. EndOf(g[j])' - 1
       PROVE  \E i \in 1 .. j : w \in Span(g[i])'
  <2>1. g[j] = f[j + 1] /\ EndOf(g[j])' = EndOf(f[j + 1])
    BY <1>4, <1>6, <1>7
  <2>2. CASE k > 1
    <3>1. EndOf(f[1]) = f[2]
      <4>1. 1 \in 1 .. MsgCnt - 1 /\ 1 # k /\ 1 + 1 = 2
        BY <1>1, <2>2
      <4>2. f[1 + 1] = EndOf(f[1])
        BY <4>1 DEF Layout
      <4>3. QED
        BY <4>1, <4>2
    <3>2. w \in offFirst .. EndOf(f[k]) - 1 /\ w >= EndOf(f[1])
      <4>1. j + 1 = k
        BY <1>7, <2>2
      <4>2. offFirst' = EndOf(f[1]) /\ EndOf(g[j])' = EndOf(f[k])
        <5>1. offFirst' = EndOf(f[1])
          BY <1>3, <3>1
        <5>2. EndOf(g[j])' = EndOf(f[k])
          BY <2>1, <4>1
        <5>3. QED
          BY <5>1, <5>2
      <4>3. offFirst <= EndOf(f[1]) /\ EndOf(f[1]) \in Nat
        BY <1>1, <1>5
      <4>4. QED
        BY <1>1, <4>2, <4>3
    <3>3. PICK i \in 1 .. k : w \in Span(f[i])
      BY <3>2 DEF Layout
    <3>4. i # 1
      <4>1. EndOf(f[1]) \in Nat /\ w \in f[i] .. EndOf(f[i]) - 1
        BY <1>1, <1>5, <3>3 DEF Span
      <4>2. QED
        BY <1>1, <1>5, <3>2, <4>1
    <3>5. i - 1 \in 1 .. j /\ i - 1 \in 1 .. MsgCnt - 1 /\ (i - 1) + 1 = i
      BY <1>1, <1>7, <2>2, <3>3, <3>4
    <3>6. g[i - 1] = f[i]
      BY <1>4, <3>5
    <3>7. Span(g[i - 1])' = Span(f[i])
      BY <1>6, <3>6
    <3>8. QED
      BY <3>3, <3>5, <3>7
  <2>3. CASE k = 1
    <3>1. f[2] = 0 /\ k < MsgCnt
      BY <1>1, <2>3 DEF Layout
    <3>2. w \in 0 .. EndOf(offLast) - 1
      BY <1>1, <1>3, <1>7, <2>1, <2>3, <3>1
    <3>3. PICK i \in k + 1 .. MsgCnt : w \in Span(f[i])
      BY <3>1, <3>2 DEF Layout
    <3>4. i - 1 \in 1 .. j /\ i - 1 \in 1 .. MsgCnt - 1 /\ (i - 1) + 1 = i
      BY <1>1, <1>7, <2>3, <3>3
    <3>5. g[i - 1] = f[i]
      BY <1>4, <3>4
    <3>6. Span(g[i - 1])' = Span(f[i])
      BY <1>6, <3>5
    <3>7. QED
      BY <3>3, <3>4, <3>6
  <2>4. QED
    BY <1>7, <2>2, <2>3
<1>14. ASSUME j < MsgCnt', NEW w \in 0 .. EndOf(offLast)' - 1
       PROVE  \E i \in j + 1 .. MsgCnt' : w \in Span(g[i])'
  <2>1. k > 1 /\ j = k - 1 /\ k < MsgCnt
    BY <1>1, <1>2, <1>7, <1>14
  <2>2. w \in 0 .. EndOf(offLast) - 1
    BY <1>2 DEF EndOf
  <2>3. PICK i \in k + 1 .. MsgCnt : w \in Span(f[i])
    BY <2>1, <2>2 DEF Layout
  <2>4. i - 1 \in j + 1 .. MsgCnt' /\ i - 1 \in 1 .. MsgCnt - 1 /\ (i - 1) + 1 = i
    BY <1>1, <1>2, <1>7, <2>1, <2>3
  <2>5. g[i - 1] = f[i]
    BY <1>4, <2>4
  <2>6. Span(g[i - 1])' = Span(f[i])
    BY <1>6, <2>5
  <2>7. QED
    BY <2>3, <2>4, <2>6
<1>15. QED
  BY <1>8, <1>9, <1>10, <1>11, <1>12, <1>13, <1>14 DEF Layout

(* Every message a buffer can hold.                                        *)
Bodies == [len : Nat, body : Seq(Nat \cup Tags)]

(* What lies at an offset of the layout is a message.                      *)
LEMMA MessageType ==
  ASSUME OsqTypeOK, MsgCnt > 0, NEW f, NEW k, Layout(f, k), NEW i \in 1 .. MsgCnt
  PROVE  MessageAt(f[i]) \in Bodies
<1>1. /\ Words \in Nat /\ f[i] \in 0 .. Words - 1 /\ mem[f[i]] \in Nat \ {0}
      /\ EndOf(f[i]) = f[i] + StorageSize(mem[f[i]]) /\ EndOf(f[i]) <= Words
      /\ mem \in [0 .. Words - 1 -> Nat \cup Tags]
  BY WordsAssumption, Places DEF OsqTypeOK
<1> DEFINE d == DataWords(mem[f[i]])
           b == [j \in 1 .. d |-> mem[f[i] + j]]
<1>2. d \in Nat /\ StorageSize(mem[f[i]]) = 1 + d
  BY <1>1, Sizes DEF StorageSize
<1>3. \A j \in 1 .. d : mem[f[i] + j] \in Nat \cup Tags
  <2> HIDE DEF d
  <2>1. \A j \in 1 .. d : f[i] + j \in 0 .. Words - 1
    BY <1>1, <1>2
  <2>2. QED
    BY <1>1, <2>1
<1>4. b \in [1 .. d -> Nat \cup Tags]
  BY <1>3
<1>5. b \in Seq(Nat \cup Tags)
  <2> HIDE DEF b, d
  <2>1. QED
    BY <1>2, <1>4, SeqDef
<1>6. MessageAt(f[i]) = [len |-> mem[f[i]], body |-> b]
  BY DEF MessageAt
<1> HIDE DEF b
<1>7. QED
  BY <1>1, <1>5, <1>6 DEF Bodies

(* What the queue holds, in every state.                                   *)
Queued ==
  OsqTypeOK =>
    /\ MsgCnt = 0 => Contents = <<>>
    /\ \A f, k : MsgCnt > 0 /\ Layout(f, k) =>
         /\ Contents \in Seq(Bodies) /\ Len(Contents) = MsgCnt
         /\ \A i \in 1 .. MsgCnt : Contents[i] = MessageAt(f[i])

(* The queue is the messages of the layout, in its order.                  *)
LEMMA WhatIsQueued == Queued
<1>1. SUFFICES ASSUME OsqTypeOK
               PROVE  /\ MsgCnt = 0 => Contents = <<>>
                      /\ \A f, k : MsgCnt > 0 /\ Layout(f, k) =>
                           /\ Contents \in Seq(Bodies) /\ Len(Contents) = MsgCnt
                           /\ \A i \in 1 .. MsgCnt : Contents[i] = MessageAt(f[i])
  BY DEF Queued
<1>2. MsgCnt \in Nat /\ Words \in Nat /\ offFirst \in Nat
  BY <1>1, WordsAssumption DEF OsqTypeOK
<1>3. ASSUME MsgCnt = 0 PROVE Contents = <<>>
  BY <1>3 DEF Contents
<1>4. ASSUME NEW f, NEW k, MsgCnt > 0, Layout(f, k)
      PROVE  /\ Contents \in Seq(Bodies) /\ Len(Contents) = MsgCnt
             /\ \A i \in 1 .. MsgCnt : Contents[i] = MessageAt(f[i])
  <2>1. Offset = f
    BY <1>2, <1>4, LayoutReads DEF Reads
  <2>2. Contents = [i \in 1 .. MsgCnt |-> MessageAt(f[i])]
    BY <2>1 DEF Contents
  <2>3. \A i \in 1 .. MsgCnt : MessageAt(f[i]) \in Bodies
    BY <1>1, <1>4, MessageType
  <2>4. Contents \in [1 .. MsgCnt -> Bodies]
    BY <2>2, <2>3
  <2>5. Contents \in Seq(Bodies)
    BY <1>2, <2>4, SeqDef
  <2>6. Len(Contents) = MsgCnt
    BY <1>2, <2>4, <2>5, LenProperties
  <2>7. QED
    BY <2>2, <2>5, <2>6
<1>5. QED
  BY <1>3, <1>4

(* The types follow from the layout.                                       *)
LaidOut ==
  \A f, k : /\ mem \in [0 .. Words - 1 -> Nat \cup Tags] /\ MsgCnt \in Nat \ {0} /\ Layout(f, k)
            /\ InUse \in BOOLEAN /\ pLink \in 0 .. Words - 1 \cup {None}
            /\ size \in Nat \cup {None} /\ ret \in [len : Nat, ok : BOOLEAN]
            => OsqTypeOK

LEMMA LayoutTypes == LaidOut
<1>1. SUFFICES ASSUME NEW f, NEW k,
                      mem \in [0 .. Words - 1 -> Nat \cup Tags], MsgCnt \in Nat \ {0}, Layout(f, k),
                      InUse \in BOOLEAN, pLink \in 0 .. Words - 1 \cup {None},
                      size \in Nat \cup {None}, ret \in [len : Nat, ok : BOOLEAN]
               PROVE  OsqTypeOK
  BY DEF LaidOut
<1>2. Words \in Nat /\ MsgCnt \in Nat /\ 1 \in 1 .. MsgCnt /\ MsgCnt \in 1 .. MsgCnt
  BY <1>1, WordsAssumption
<1>3. MsgCnt <= Words
  BY <1>1, <1>2, LayoutCounts
<1>4. f[1] = offFirst /\ f[MsgCnt] = offLast
  BY <1>1 DEF Layout
<1>5. offFirst \in 0 .. Words - 1 /\ mem[offFirst] \in Nat
  BY <1>1, <1>2, <1>4, AMessage
<1>6. offLast \in 0 .. Words - 1 /\ EndOf(offLast) <= Words
  BY <1>1, <1>2, <1>4, AMessage
<1>7. QED
  BY <1>1, <1>2, <1>3, <1>5, <1>6 DEF OsqTypeOK

(* The message in the hands of the consumer.                               *)
held == IF size = None THEN None ELSE MessageAt(pLink)

(* A message is stored behind the others.                                  *)
LEMMA StoreKeeps ==
  ASSUME OsqInv, MsgCnt > 0, NEW f, NEW k, Layout(f, k), NEW m, NEW n, NEW tag, NEW off,
         n \in Nat \ {0}, tag \in Tags, off \in 0 .. Words - 1,
         off + StorageSize(n) <= Words, m \in [0 .. Words - 1 -> Nat \cup Tags],
         Store(m, off, n, tag),
         \A i \in 1 .. MsgCnt : \A w \in Span(f[i]) : m[w] = mem[w],
         NEW j, Fits(k, j, off, n, m), UNCHANGED <<offFirst, InUse, pLink, size>>
  PROVE  OsqInv' /\ Contents' = Append(Contents, Message(n, tag)) /\ UNCHANGED held
<1>1. OsqTypeOK /\ Held
  BY DEF OsqInv
<1>2. Words \in Nat /\ MsgCnt \in Nat /\ 1 \in 1 .. MsgCnt /\ f[1] = offFirst
  BY <1>1, WordsAssumption DEF OsqTypeOK, Layout
<1>3. PICK g : g = Added(f, off)
  OBVIOUS
<1>4. Layout(g, j)'
  BY <1>1, <1>3, AddedLayout
<1>5. MsgCnt' = MsgCnt + 1 /\ ret' = [len |-> n, ok |-> TRUE]
  BY DEF Store
<1>6. Storing(f, k, m, n, tag, off)
  <2>1. \A i \in 1 .. MsgCnt : /\ \A w \in Span(f[i]) : m[w] = mem[w]
                               /\ EndOf(f[i]) <= off \/ off + StorageSize(n) <= f[i]
    BY <1>1, Outside
  <2>2. QED
    BY <1>1, <2>1 DEF Storing
<1>7. /\ mem' \in [0 .. Words - 1 -> Nat \cup Tags]
      /\ MessageAt(off)' = Message(n, tag)
  BY <1>6, StoredOutside
<1>8. \A i \in 1 .. MsgCnt : mem'[f[i]] = mem[f[i]] /\ MessageAt(f[i])' = MessageAt(f[i])
  BY <1>6, StoredOutside
<1>9. OsqTypeOK'
  <2>1. LaidOut'
    BY LayoutTypes, PTL
  <2>2. MsgCnt' \in Nat \ {0} /\ ret' \in [len : Nat, ok : BOOLEAN]
    BY <1>2, <1>5
  <2>3. InUse' \in BOOLEAN /\ pLink' \in 0 .. Words - 1 \cup {None} /\ size' \in Nat \cup {None}
    BY <1>1 DEF OsqTypeOK
  <2>4. QED
    BY <1>4, <1>7, <2>1, <2>2, <2>3 DEF LaidOut
<1>10. Held'
  <2>1. pLink # None => pLink = f[1] /\ mem'[pLink] = mem[pLink]
    BY <1>1, <1>2, <1>8 DEF Held
  <2>2. QED
    BY <1>1, <1>2, <1>5, <2>1 DEF Held
<1>11. OsqInv'
  BY <1>4, <1>9, <1>10 DEF OsqInv
<1>12. UNCHANGED held
  <2>1. size # None => pLink = f[1]
    BY <1>1, <1>2 DEF Held
  <2>2. MessageAt(f[1])' = MessageAt(f[1])
    BY <1>2, <1>8
  <2>3. size # None => MessageAt(pLink)' = MessageAt(pLink)
    BY <2>1, <2>2 DEF MessageAt
  <2>4. QED
    BY <2>3 DEF held
<1>13. Contents' = Append(Contents, Message(n, tag))
  <2>1. Queued /\ Queued'
    BY WhatIsQueued, PTL
  <2>2. /\ Contents \in Seq(Bodies) /\ Len(Contents) = MsgCnt
        /\ \A i \in 1 .. MsgCnt : Contents[i] = MessageAt(f[i])
    BY <1>1, <2>1 DEF Queued
  <2>3. /\ Contents' \in Seq(Bodies) /\ Len(Contents') = MsgCnt'
        /\ \A i \in 1 .. MsgCnt' : Contents'[i] = MessageAt(g[i])'
    BY <1>2, <1>4, <1>5, <1>9, <2>1 DEF Queued
  <2>4. ASSUME NEW i \in 1 .. MsgCnt
        PROVE  Contents'[i] = Contents[i]
    <3>1. i \in 1 .. MsgCnt' /\ g[i] = f[i]
      BY <1>2, <1>3, <1>5 DEF Added
    <3>2. MessageAt(g[i])' = MessageAt(f[i])'
      BY <3>1 DEF MessageAt
    <3>3. QED
      BY <1>8, <2>2, <2>3, <3>1, <3>2
  <2>5. Contents'[MsgCnt + 1] = Message(n, tag)
    <3>1. PICK last : last = MsgCnt + 1
      OBVIOUS
    <3>2. last \in 1 .. MsgCnt' /\ g[last] = off
      BY <1>2, <1>3, <1>5, <3>1 DEF Added
    <3>3. MessageAt(g[last])' = MessageAt(off)'
      BY <3>2 DEF MessageAt
    <3>4. QED
      BY <1>7, <2>3, <3>1, <3>2, <3>3
  <2> HIDE DEF Bodies
  <2>6. Message(n, tag) \in Bodies
    <3>1. MsgCnt + 1 \in 1 .. Len(Contents')
      BY <1>2, <1>5, <2>3
    <3>2. Contents'[MsgCnt + 1] \in Bodies
      BY <2>3, <3>1, ElementOfSeq
    <3>3. QED
      BY <2>5, <3>2
  <2>7. /\ Append(Contents, Message(n, tag)) \in Seq(Bodies)
        /\ Len(Append(Contents, Message(n, tag))) = MsgCnt + 1
        /\ \A i \in 1 .. MsgCnt : Append(Contents, Message(n, tag))[i] = Contents[i]
        /\ Append(Contents, Message(n, tag))[MsgCnt + 1] = Message(n, tag)
    BY <2>2, <2>6, AppendProperties
  <2>8. \A i \in 1 .. Len(Contents') : Contents'[i] = Append(Contents, Message(n, tag))[i]
    BY <1>2, <1>5, <2>3, <2>4, <2>5, <2>7
  <2>9. QED
    BY <1>5, <2>3, <2>7, <2>8, SeqEqual
<1>14. QED
  BY <1>11, <1>12, <1>13

(* What is queued stays when the buffer does.                              *)
LEMMA SameQueue ==
  ASSUME OsqInv, UNCHANGED <<mem, MsgCnt, offLast>>, OsqTypeOK', MsgCnt > 0 => offFirst' = offFirst
  PROVE  /\ Contents' = Contents
         /\ MsgCnt' > 0 => \E f, k : Layout(f, k)'
<1>1. OsqTypeOK
  BY DEF OsqInv
<1>2. \A f, k : MsgCnt > 0 /\ Layout(f, k) => Layout(f, k)'
  BY DEF Layout, EndOf, Span
<1>3. Contents' = Contents
  <2>1. Queued /\ Queued'
    BY WhatIsQueued, PTL
  <2>2. CASE MsgCnt = 0
    BY <1>1, <2>1, <2>2 DEF Queued
  <2>3. CASE MsgCnt > 0
    <3>1. PICK f, k : Layout(f, k)
      BY <2>3 DEF OsqInv
    <3>2. /\ Contents \in Seq(Bodies) /\ Len(Contents) = MsgCnt
          /\ \A i \in 1 .. MsgCnt : Contents[i] = MessageAt(f[i])
      BY <1>1, <2>1, <2>3, <3>1 DEF Queued
    <3>3. /\ Contents' \in Seq(Bodies) /\ Len(Contents') = MsgCnt'
          /\ \A i \in 1 .. MsgCnt' : Contents'[i] = MessageAt(f[i])'
      BY <1>2, <2>1, <2>3, <3>1 DEF Queued
    <3>4. \A i \in 1 .. MsgCnt : MessageAt(f[i])' = MessageAt(f[i])
      BY DEF MessageAt
    <3>5. \A i \in 1 .. Len(Contents) : Contents[i] = Contents'[i]
      BY <3>2, <3>3, <3>4
    <3> HIDE DEF Bodies
    <3>6. QED
      BY <3>2, <3>3, <3>5, SeqEqual
  <2>4. QED
    BY <1>1, <2>2, <2>3 DEF OsqTypeOK
<1>4. QED
  BY <1>2, <1>3 DEF OsqInv

(* Nothing is stored.                                                      *)
LEMMA RefusalKeeps ==
  ASSUME OsqInv, NEW n \in Nat, NoSpace(n), offFirst' = offFirst \/ (MsgCnt = 0 /\ offFirst' = 0),
         UNCHANGED <<InUse, pLink, size>>
  PROVE  OsqInv' /\ Contents' = Contents /\ UNCHANGED held
<1>1. OsqTypeOK /\ Held /\ Words \in Nat \ {0}
  BY WordsAssumption DEF OsqInv
<1>2. UNCHANGED <<mem, MsgCnt, offLast>> /\ ret' = [len |-> n, ok |-> FALSE]
  BY DEF NoSpace
<1>3. MsgCnt > 0 => offFirst' = offFirst
  BY <1>1 DEF OsqTypeOK
<1>4. OsqTypeOK' /\ Held'
  BY <1>1, <1>2, <1>3 DEF OsqTypeOK, Held, EndOf
<1>5. Contents' = Contents /\ (MsgCnt' > 0 => \E f, k : Layout(f, k)')
  BY <1>2, <1>3, <1>4, SameQueue
<1>6. OsqInv'
  BY <1>4, <1>5 DEF OsqInv
<1>7. UNCHANGED held
  BY <1>2 DEF held, MessageAt
<1>8. QED
  BY <1>5, <1>6, <1>7

(* The first message goes to the start of the buffer.                      *)
LEMMA FirstStoreKeeps ==
  ASSUME OsqInv, MsgCnt = 0, NEW n \in Nat \ {0}, NEW tag \in Tags, StorageSize(n) <= Words,
         Store(mem, 0, n, tag), offFirst' = 0, UNCHANGED <<InUse, pLink, size>>
  PROVE  OsqInv' /\ Contents' = Append(Contents, Message(n, tag)) /\ UNCHANGED held
<1>1. OsqTypeOK /\ Held /\ Words \in Nat \ {0} /\ mem \in [0 .. Words - 1 -> Nat \cup Tags]
  BY WordsAssumption DEF OsqInv, OsqTypeOK
<1>2. /\ DataWords(n) \in Nat /\ StorageSize(n) = 1 + DataWords(n)
      /\ StorageSize(n) \in Nat /\ StorageSize(n) >= 2
  BY Sizes DEF StorageSize
<1>3. /\ mem' = [w \in 0 .. Words - 1 |->
                   IF w = 0 THEN n
                   ELSE IF w \in 0 + 1 .. 0 + DataWords(n) THEN tag ELSE mem[w]]
      /\ offLast' = 0 /\ MsgCnt' = 1 /\ ret' = [len |-> n, ok |-> TRUE]
  <2>1. DOMAIN mem = 0 .. Words - 1
    BY <1>1
  <2>2. /\ mem' = [w \in DOMAIN mem |->
                     IF w = 0 THEN n
                     ELSE IF w \in 0 + 1 .. 0 + DataWords(n) THEN tag ELSE mem[w]]
        /\ offLast' = 0 /\ MsgCnt' = MsgCnt + 1 /\ ret' = [len |-> n, ok |-> TRUE]
    BY DEF Store
  <2>3. QED
    BY <1>1, <2>1, <2>2
<1>4. mem' \in [0 .. Words - 1 -> Nat \cup Tags] /\ mem'[0] = n
  BY <1>1, <1>3
<1>5. EndOf(0)' = StorageSize(n) /\ Span(0)' = 0 .. StorageSize(n) - 1
  <2>1. EndOf(0)' = 0 + StorageSize(mem'[0])
    BY DEF EndOf
  <2>2. EndOf(0)' = StorageSize(n)
    BY <1>2, <1>4, <2>1
  <2>3. QED
    BY <2>2 DEF Span
<1>6. MessageAt(0)' = Message(n, tag)
  <2>1. \A j \in 1 .. DataWords(n) : mem'[0 + j] = tag
    BY <1>1, <1>2, <1>3
  <2>2. MessageAt(0)' = [len |-> mem'[0],
                         body |-> [j \in 1 .. DataWords(mem'[0]) |-> mem'[0 + j]]]
    BY DEF MessageAt
  <2>3. QED
    BY <1>4, <2>1, <2>2 DEF Message
<1>7. PICK f : f = [i \in 1 .. 1 |-> 0]
  OBVIOUS
<1>8. Layout(f, 1)'
  <2>1. /\ f \in [1 .. MsgCnt' -> 0 .. Words - 1] /\ 1 \in 1 .. MsgCnt' /\ f[1] = 0
        /\ f[MsgCnt'] = 0
    BY <1>1, <1>3, <1>7
  <2>2. \A i \in 1 .. MsgCnt' : i = 1 /\ f[i] = 0
    BY <1>3, <1>7
  <2>3. EndOf(f[1])' = EndOf(0)' /\ Span(f[1])' = Span(0)'
    BY <2>1 DEF EndOf, Span
  <2>4. \A i \in 1 .. MsgCnt' : mem'[f[i]] \in Nat \ {0} /\ EndOf(f[i])' <= Words
    BY <1>4, <1>5, <2>2, <2>3
  <2>5. ASSUME NEW w \in offFirst' .. EndOf(f[1])' - 1
        PROVE  \E i \in 1 .. 1 : w \in Span(f[i])'
    <3>1. EndOf(f[1])' = StorageSize(n) /\ Span(f[1])' = 0 .. StorageSize(n) - 1
      BY <1>5, <2>3
    <3>2. w \in Span(f[1])'
      BY <3>1
    <3>3. QED
      BY <3>2
  <2>6. ~(1 < MsgCnt') /\ 1 .. MsgCnt' - 1 = {}
    BY <1>3
  <2>7. \A i, p \in 1 .. MsgCnt' : i < p => EndOf(f[i])' <= f[p]
    BY <2>2
  <2>8. QED
    BY <1>3, <2>1, <2>4, <2>5, <2>6, <2>7 DEF Layout
<1>9. OsqTypeOK'
  <2>1. LaidOut'
    BY LayoutTypes, PTL
  <2>2. MsgCnt' \in Nat \ {0} /\ ret' \in [len : Nat, ok : BOOLEAN]
    BY <1>3
  <2>3. InUse' \in BOOLEAN /\ pLink' \in 0 .. Words - 1 \cup {None} /\ size' \in Nat \cup {None}
    BY <1>1 DEF OsqTypeOK
  <2>4. QED
    BY <1>4, <1>8, <2>1, <2>2, <2>3 DEF LaidOut
<1>10. pLink = None /\ size = None
  BY <1>1 DEF Held
<1>11. OsqInv'
  BY <1>8, <1>9, <1>10 DEF OsqInv, Held
<1>12. UNCHANGED held
  BY <1>10 DEF held
<1>13. Contents' = Append(Contents, Message(n, tag))
  <2>1. Queued /\ Queued'
    BY WhatIsQueued, PTL
  <2>2. Contents = <<>>
    BY <1>1, <2>1 DEF Queued
  <2>3. /\ Contents' \in Seq(Bodies) /\ Len(Contents') = 1
        /\ Contents'[1] = MessageAt(f[1])'
    BY <1>3, <1>8, <1>9, <2>1 DEF Queued
  <2>4. MessageAt(f[1])' = MessageAt(0)'
    BY <1>7 DEF MessageAt
  <2> HIDE DEF Bodies
  <2>5. Contents'[1] = Message(n, tag)
    BY <1>6, <2>3, <2>4
  <2>6. Message(n, tag) \in Bodies /\ <<>> \in Seq(Bodies) /\ Len(<<>>) = 0
    <3>1. 1 \in 1 .. Len(Contents')
      BY <2>3
    <3>2. Contents'[1] \in Bodies
      BY <2>3, <3>1, ElementOfSeq
    <3>3. QED
      BY <2>5, <3>2, EmptySeq
  <2>7. /\ Append(<<>>, Message(n, tag)) \in Seq(Bodies)
        /\ Len(Append(<<>>, Message(n, tag))) = 1
        /\ Append(<<>>, Message(n, tag))[1] = Message(n, tag)
    BY <2>6, AppendProperties
  <2>8. \A i \in 1 .. Len(Contents') : Contents'[i] = Append(<<>>, Message(n, tag))[i]
    BY <2>3, <2>5, <2>7
  <2>9. QED
    BY <2>2, <2>3, <2>7, <2>8, SeqEqual
<1>14. QED
  BY <1>11, <1>12, <1>13

(* The messages lie behind each other, or wrapped, as OS_Q_Put takes them  *)
(* to from the offsets of the first and the last.                          *)
LEMMA Wrapped ==
  ASSUME OsqTypeOK, MsgCnt > 0, NEW f, NEW k, Layout(f, k)
  PROVE  /\ k = MsgCnt \/ k < MsgCnt
         /\ k = MsgCnt <=> offFirst < EndOf(offLast)
         /\ k = MsgCnt => \A i \in 1 .. MsgCnt : EndOf(f[i]) <= EndOf(offLast)
         /\ EndOf(offLast) \in 1 .. Words
<1>1. /\ MsgCnt \in Nat /\ Words \in Nat /\ k \in 1 .. MsgCnt /\ 1 \in 1 .. MsgCnt
      /\ MsgCnt \in 1 .. MsgCnt /\ f[1] = offFirst /\ f[MsgCnt] = offLast
  BY WordsAssumption DEF OsqTypeOK, Layout
<1>2. /\ EndOf(offLast) \in Nat /\ offLast + 2 <= EndOf(offLast) /\ EndOf(offLast) <= Words
      /\ offLast \in 0 .. Words - 1 /\ offFirst \in 0 .. Words - 1
  BY <1>1, Places
<1>3. ASSUME k = MsgCnt
      PROVE  /\ offFirst < EndOf(offLast)
             /\ \A i \in 1 .. MsgCnt : EndOf(f[i]) <= EndOf(offLast)
  <2>1. offFirst <= f[MsgCnt]
    BY <1>1, <1>3, Places
  <2>2. \A i \in 1 .. MsgCnt : i <= k /\ EndOf(f[i]) <= EndOf(f[k])
    BY <1>1, <1>3, Places
  <2>3. EndOf(f[k]) = EndOf(offLast)
    BY <1>1, <1>3
  <2>4. QED
    BY <1>1, <1>2, <2>1, <2>2, <2>3
<1>4. k < MsgCnt => EndOf(offLast) <= offFirst
  BY DEF Layout
<1>5. QED
  BY <1>1, <1>2, <1>3, <1>4

(* Putting keeps the layout, and stores the message last or not at all.    *)
LEMMA PutKeeps ==
  ASSUME OsqInv, NEW n \in Nat \ {0}, NEW tag \in Tags, OS_Q_Put(n, tag)
  PROVE  /\ OsqInv' /\ UNCHANGED held
         /\ Contents' = Contents \/ Contents' = Append(Contents, Message(n, tag))
<1>1. OsqTypeOK /\ Words \in Nat \ {0} /\ MsgCnt \in Nat /\ UNCHANGED <<InUse, pLink, size>>
      /\ mem \in [0 .. Words - 1 -> Nat \cup Tags]
  BY WordsAssumption DEF OsqInv, OsqTypeOK, OS_Q_Put
<1>2. StorageSize(n) \in Nat /\ StorageSize(n) >= 2
  BY Sizes
<1>3. CASE PutEmpty(n, tag)
  <2>1. MsgCnt = 0 /\ offFirst' = 0
    BY <1>3 DEF PutEmpty
  <2>2. CASE StorageSize(n) <= Words
    <3>1. Store(mem, 0, n, tag)
      BY <1>3, <2>2 DEF PutEmpty
    <3>2. QED
      BY <1>1, <2>1, <2>2, <3>1, FirstStoreKeeps
  <2>3. CASE ~(StorageSize(n) <= Words)
    <3>1. NoSpace(n)
      BY <1>3, <2>3 DEF PutEmpty
    <3>2. QED
      BY <1>1, <2>1, <3>1, RefusalKeeps
  <2>4. QED
    BY <2>2, <2>3
<1>4. CASE PutBehind(n, tag)
  <2>1. /\ MsgCnt > 0 /\ offFirst < EndOf(offLast) /\ offFirst' = offFirst
        /\ Words - EndOf(offLast) >= StorageSize(n)
        /\ Store(mem, EndOf(offLast), n, tag)
    BY <1>4 DEF PutBehind
  <2>2. PICK f, k : Layout(f, k)
    BY <2>1 DEF OsqInv
  <2>3. k = MsgCnt /\ EndOf(offLast) \in 1 .. Words
    BY <1>1, <2>1, <2>2, Wrapped
  <2>4. PICK m, off, j : m = mem /\ off = EndOf(offLast) /\ j = MsgCnt + 1
    OBVIOUS
  <2>5. Fits(k, j, off, n, m)
    BY <2>3, <2>4 DEF Fits
  <2>6. /\ off \in 0 .. Words - 1 /\ off + StorageSize(n) <= Words
        /\ Store(m, off, n, tag) /\ m \in [0 .. Words - 1 -> Nat \cup Tags]
    BY <1>1, <1>2, <2>1, <2>3, <2>4
  <2>7. \A i \in 1 .. MsgCnt : \A w \in Span(f[i]) : m[w] = mem[w]
    BY <2>4
  <2>8. QED
    BY <1>1, <2>1, <2>2, <2>5, <2>6, <2>7, StoreKeeps
<1>5. CASE PutWrap(n, tag)
  <2>1. MsgCnt > 0 /\ offFirst < EndOf(offLast) /\ offFirst' = offFirst
        /\ Words - EndOf(offLast) < StorageSize(n)
    BY <1>5 DEF PutWrap
  <2>2. PICK f, k : Layout(f, k)
    BY <2>1 DEF OsqInv
  <2>3. k = MsgCnt /\ EndOf(offLast) \in 1 .. Words
        /\ \A i \in 1 .. MsgCnt : EndOf(f[i]) <= EndOf(offLast)
    BY <1>1, <2>1, <2>2, Wrapped
  <2>4. CASE offFirst < StorageSize(n)
    <3>1. NoSpace(n)
      BY <1>5, <2>4 DEF PutWrap
    <3>2. QED
      BY <1>1, <2>1, <3>1, RefusalKeeps
  <2>5. CASE ~(offFirst < StorageSize(n))
    <3>1. PICK m, off, j : /\ m = IF Words - EndOf(offLast) > 1
                                  THEN [mem EXCEPT ![EndOf(offLast)] = 0] ELSE mem
                           /\ off = 0 /\ j = MsgCnt
      OBVIOUS
    <3>2. Store(m, off, n, tag)
      BY <1>5, <2>5, <3>1 DEF PutWrap
    <3>3. /\ m \in [0 .. Words - 1 -> Nat \cup Tags]
          /\ Words - EndOf(offLast) > 1 => m[EndOf(offLast)] = 0
          /\ \A w \in 0 .. Words - 1 : w # EndOf(offLast) => m[w] = mem[w]
      BY <1>1, <2>3, <3>1
    <3>4. offFirst \in 0 .. Words - 1 /\ StorageSize(n) <= offFirst
      BY <1>1, <1>2, <2>5 DEF OsqTypeOK
    <3>5. Fits(k, j, off, n, m)
      BY <2>1, <2>3, <3>1, <3>3, <3>4 DEF Fits
    <3>6. off \in 0 .. Words - 1 /\ off + StorageSize(n) <= Words
      BY <1>1, <1>2, <3>1, <3>4
    <3>7. ASSUME NEW i \in 1 .. MsgCnt, NEW w \in Span(f[i])
          PROVE  m[w] = mem[w]
      <4>1. f[i] \in 0 .. Words - 1 /\ EndOf(f[i]) \in Nat /\ EndOf(f[i]) <= EndOf(offLast)
        BY <1>1, <2>1, <2>2, <2>3, Places
      <4>2. w \in 0 .. Words - 1 /\ w # EndOf(offLast)
        BY <1>1, <2>3, <3>7, <4>1 DEF Span
      <4>3. QED
        BY <3>3, <4>2
    <3>8. QED
      BY <1>1, <2>1, <2>2, <3>2, <3>3, <3>5, <3>6, <3>7, StoreKeeps
  <2>6. QED
    BY <2>4, <2>5
<1>6. CASE PutGap(n, tag)
  <2>1. MsgCnt > 0 /\ offFirst >= EndOf(offLast) /\ offFirst' = offFirst
    BY <1>6 DEF PutGap
  <2>2. PICK f, k : Layout(f, k)
    BY <2>1 DEF OsqInv
  <2>3. k < MsgCnt /\ EndOf(offLast) \in 1 .. Words /\ offFirst \in 0 .. Words - 1
    <3>1. /\ k = MsgCnt \/ k < MsgCnt
          /\ k = MsgCnt => offFirst < EndOf(offLast)
          /\ EndOf(offLast) \in 1 .. Words
      BY <1>1, <2>1, <2>2, Wrapped
    <3>2. offFirst \in 0 .. Words - 1
      BY <1>1 DEF OsqTypeOK
    <3>3. QED
      BY <1>1, <2>1, <3>1, <3>2
  <2>4. CASE offFirst - EndOf(offLast) < StorageSize(n)
    <3>1. NoSpace(n)
      BY <1>6, <2>4 DEF PutGap
    <3>2. QED
      BY <1>1, <2>1, <3>1, RefusalKeeps
  <2>5. CASE ~(offFirst - EndOf(offLast) < StorageSize(n))
    <3>1. PICK m, off, j : m = mem /\ off = EndOf(offLast) /\ j = k
      OBVIOUS
    <3>2. Store(m, off, n, tag)
      BY <1>6, <2>5, <3>1 DEF PutGap
    <3>3. /\ off \in 0 .. Words - 1 /\ off + StorageSize(n) <= offFirst
          /\ off + StorageSize(n) <= Words /\ m \in [0 .. Words - 1 -> Nat \cup Tags]
      BY <1>1, <1>2, <2>3, <2>5, <3>1
    <3>4. Fits(k, j, off, n, m)
      BY <2>3, <3>1, <3>3 DEF Fits
    <3>5. \A i \in 1 .. MsgCnt : \A w \in Span(f[i]) : m[w] = mem[w]
      BY <3>1
    <3>6. QED
      BY <1>1, <2>1, <2>2, <3>2, <3>3, <3>4, <3>5, StoreKeeps
  <2>6. QED
    BY <2>4, <2>5
<1>7. QED
  BY <1>3, <1>4, <1>5, <1>6 DEF OS_Q_Put

(* Discarding takes the first message, the one that was handed out.        *)
LEMMA PurgeKeeps ==
  ASSUME OsqInv, OS_Q_Purge
  PROVE  OsqInv' /\ held # None /\ held' = None /\ Contents' = Tail(Contents)
<1>1. /\ OsqTypeOK /\ Held /\ Words \in Nat \ {0} /\ MsgCnt \in Nat
      /\ mem \in [0 .. Words - 1 -> Nat \cup Tags]
  BY WordsAssumption DEF OsqInv, OsqTypeOK
<1>2. /\ size # None /\ MsgCnt' = MsgCnt - 1 /\ offFirst' = Following(offFirst, MsgCnt' # 0)
      /\ InUse' = FALSE /\ pLink' = None /\ size' = None
      /\ mem' = mem /\ offLast' = offLast /\ ret' = ret
  BY DEF OS_Q_Purge
<1>3. MsgCnt > 0 /\ pLink = offFirst
  BY <1>1, <1>2 DEF Held
<1>4. PICK f, k : Layout(f, k)
  BY <1>3 DEF OsqInv
<1>5. f[1] = offFirst /\ f[MsgCnt] = offLast /\ 1 \in 1 .. MsgCnt /\ k \in 1 .. MsgCnt
  BY <1>1, <1>3, <1>4 DEF Layout
<1>6. EndOf(offFirst) \in Nat /\ EndOf(offFirst) <= Words
  BY <1>1, <1>3, <1>4, <1>5, Places
<1>7. held # None /\ held' = None
  <2>1. held = MessageAt(f[1])
    BY <1>2, <1>3, <1>5 DEF held
  <2>2. MessageAt(f[1]) \in Bodies
    BY <1>1, <1>3, <1>4, <1>5, MessageType
  <2>3. held # None
    BY <2>1, <2>2, NoneAssumption DEF Bodies
  <2>4. QED
    BY <1>2, <2>3 DEF held
<1>8. Queued /\ Queued'
  BY WhatIsQueued, PTL
<1>9. /\ Contents \in Seq(Bodies) /\ Len(Contents) = MsgCnt
      /\ \A i \in 1 .. MsgCnt : Contents[i] = MessageAt(f[i])
  BY <1>1, <1>3, <1>4, <1>8 DEF Queued
<1>10. /\ Tail(Contents) \in Seq(Bodies) /\ Len(Tail(Contents)) = MsgCnt - 1
       /\ \A i \in 1 .. MsgCnt - 1 : Tail(Contents)[i] = Contents[i + 1]
  <2> HIDE DEF Bodies
  <2>1. Contents # <<>>
    BY <1>3, <1>9, EmptySeq
  <2>2. QED
    BY <1>9, <2>1, HeadTailProperties
<1>11. CASE MsgCnt = 1
  <2>1. MsgCnt' = 0 /\ (MsgCnt' # 0) = FALSE
    BY <1>2, <1>11
  <2>2. offFirst' = Following(offFirst, FALSE)
    BY <1>2, <2>1
  <2>3. offFirst' \in 0 .. Words - 1
    BY <1>1, <1>6, <2>2 DEF Following
  <2>4. OsqTypeOK'
    <3>1. /\ mem' \in [0 .. Words - 1 -> Nat \cup Tags] /\ ret' \in [len : Nat, ok : BOOLEAN]
          /\ offLast' \in 0 .. Words - 1
      BY <1>1, <1>2 DEF OsqTypeOK
    <3>2. MsgCnt' \in 0 .. Words /\ ~(MsgCnt' > 0)
      BY <1>1, <2>1
    <3>3. QED
      BY <1>2, <2>3, <3>1, <3>2 DEF OsqTypeOK
  <2>5. OsqInv'
    BY <1>2, <2>1, <2>4 DEF OsqInv, Held
  <2>6. Contents' = <<>>
    BY <1>8, <2>1, <2>4 DEF Queued
  <2>7. Tail(Contents) = <<>>
    <3> HIDE DEF Bodies
    <3>1. Len(Tail(Contents)) = 0 /\ Len(<<>>) = 0
      BY <1>10, <1>11, EmptySeq
    <3>2. QED
      BY <1>10, <3>1, EmptySeq
  <2>8. QED
    BY <1>7, <2>5, <2>6, <2>7
<1>12. CASE MsgCnt > 1
  <2>1. PICK g : g = [i \in 1 .. MsgCnt - 1 |-> f[i + 1]]
    OBVIOUS
  <2>2. PICK j : j = IF k > 1 THEN k - 1 ELSE MsgCnt - 1
    OBVIOUS
  <2>3. Layout(g, j)'
    BY <1>1, <1>4, <1>12, <2>1, <2>2, PurgedLayout
  <2>4. OsqTypeOK'
    <3>1. LaidOut'
      BY LayoutTypes, PTL
    <3>2. /\ mem' \in [0 .. Words - 1 -> Nat \cup Tags] /\ MsgCnt' \in Nat \ {0}
          /\ InUse' \in BOOLEAN /\ pLink' \in 0 .. Words - 1 \cup {None}
          /\ size' \in Nat \cup {None} /\ ret' \in [len : Nat, ok : BOOLEAN]
      <4>1. mem' \in [0 .. Words - 1 -> Nat \cup Tags] /\ ret' \in [len : Nat, ok : BOOLEAN]
        BY <1>1, <1>2 DEF OsqTypeOK
      <4>2. MsgCnt' \in Nat \ {0}
        BY <1>1, <1>2, <1>12
      <4>3. QED
        BY <1>2, <4>1, <4>2
    <3>3. QED
      BY <2>3, <3>1, <3>2 DEF LaidOut
  <2>5. OsqInv'
    BY <1>2, <2>3, <2>4 DEF OsqInv, Held
  <2>6. /\ Contents' \in Seq(Bodies) /\ Len(Contents') = MsgCnt'
        /\ \A i \in 1 .. MsgCnt' : Contents'[i] = MessageAt(g[i])'
    BY <1>1, <1>2, <1>8, <1>12, <2>3, <2>4 DEF Queued
  <2>7. ASSUME NEW i \in 1 .. Len(Contents')
        PROVE  Contents'[i] = Tail(Contents)[i]
    <3>1. i \in 1 .. MsgCnt' /\ i \in 1 .. MsgCnt - 1 /\ i + 1 \in 1 .. MsgCnt /\ g[i] = f[i + 1]
      BY <1>1, <1>2, <2>1, <2>6
    <3>2. MessageAt(g[i])' = MessageAt(f[i + 1])
      BY <1>2, <3>1 DEF MessageAt
    <3>3. QED
      BY <1>9, <1>10, <2>6, <3>1, <3>2
  <2> HIDE DEF Bodies
  <2>8. Contents' = Tail(Contents)
    BY <1>2, <1>10, <2>6, <2>7, SeqEqual
  <2>9. QED
    BY <1>7, <2>5, <2>8
<1>13. QED
  BY <1>1, <1>3, <1>11, <1>12

(* The consumer is given the first message, whole, and told its length.    *)
LEMMA HandingOut ==
  ASSUME OsqInv, MsgCnt > 0, size = None, pLink' = offFirst, size' = mem[offFirst],
         UNCHANGED <<mem, MsgCnt, offFirst, offLast, ret>>, InUse' \in BOOLEAN
  PROVE  OsqInv' /\ held = None /\ Contents # <<>> /\ held' = Head(Contents) /\ UNCHANGED Contents
<1>1. /\ OsqTypeOK /\ Words \in Nat \ {0} /\ MsgCnt \in Nat
  BY WordsAssumption DEF OsqInv, OsqTypeOK
<1>2. PICK f, k : Layout(f, k)
  BY DEF OsqInv
<1>3. f[1] = offFirst /\ 1 \in 1 .. MsgCnt
  BY <1>1, <1>2 DEF Layout
<1>4. mem[offFirst] \in Nat \ {0} /\ offFirst \in 0 .. Words - 1
  BY <1>1, <1>2, <1>3, Places
<1>5. mem[offFirst] # None /\ offFirst # None
  BY <1>4, NoneAssumption
<1>6. OsqTypeOK'
  BY <1>1, <1>4 DEF OsqTypeOK, EndOf
<1>7. Contents' = Contents /\ (MsgCnt' > 0 => \E g, j : Layout(g, j)')
  BY <1>1, <1>6, SameQueue
<1>8. OsqInv'
  BY <1>1, <1>5, <1>6, <1>7 DEF OsqInv, Held
<1>9. /\ Contents \in Seq(Bodies) /\ Len(Contents) = MsgCnt
      /\ Contents[1] = MessageAt(f[1])
  BY <1>1, <1>2, <1>3, WhatIsQueued DEF Queued
<1>10. held' = MessageAt(f[1])
  <2>1. MessageAt(f[1])' = MessageAt(f[1])
    BY DEF MessageAt
  <2>2. held' = MessageAt(f[1])'
    BY <1>3, <1>5 DEF held, MessageAt
  <2>3. QED
    BY <2>1, <2>2
<1>11. Contents # <<>> /\ Head(Contents) = Contents[1]
  <2> HIDE DEF Bodies
  <2>1. Contents # <<>>
    BY <1>9, EmptySeq
  <2>2. QED
    BY <1>9, <2>1
<1>12. QED
  BY <1>7, <1>8, <1>9, <1>10, <1>11 DEF held

(* A length that fits in a char is passed on as it is.                     *)
LEMMA FitsInAChar ==
  ASSUME NEW range \in Nat, NEW n \in 1 .. range - 1
  PROVE  n % range = n
OBVIOUS

(* The buffer starts as an empty queue.                                    *)
LEMMA QueueStarts == OsqInit => OsqInv /\ Fifo!FifoInit
<1>1. SUFFICES ASSUME OsqInit PROVE OsqInv /\ Fifo!FifoInit
  OBVIOUS
<1>2. OsqTypeOK
  <2>1. MsgCnt = 0 /\ ~(MsgCnt > 0) /\ Words \in Nat \ {0}
    BY <1>1, WordsAssumption DEF OsqInit
  <2>2. /\ mem \in [0 .. Words - 1 -> Nat \cup Tags] /\ 0 \in 0 .. Words /\ 0 \in 0 .. Words - 1
        /\ ret \in [len : Nat, ok : BOOLEAN]
    BY <1>1, <2>1 DEF OsqInit
  <2>3. QED
    BY <1>1, <2>1, <2>2 DEF OsqInit, OsqTypeOK
<1>3. OsqInv
  BY <1>1, <1>2 DEF OsqInit, OsqInv, Held
<1>4. Contents = <<>>
  BY <1>1, <1>2, WhatIsQueued DEF OsqInit, Queued
<1>5. QED
  BY <1>1, <1>3, <1>4 DEF OsqInit, Fifo!FifoInit

(* Every step of the ring buffer is one of the queue, or none.             *)
LEMMA QueueSteps ==
  ASSUME Lens \subseteq 1 .. CharRange - 1, OsqInv, [OsqNext]_osqVars
  PROVE  OsqInv' /\ [Fifo!FifoNext]_Fifo!fifoVars
<1>1. OsqTypeOK /\ Held
  BY DEF OsqInv
<1>2. ASSUME UNCHANGED <<Contents, held>>
      PROVE  [Fifo!FifoNext]_Fifo!fifoVars
  BY <1>2 DEF held, Fifo!fifoVars
<1>3. CASE \E n \in Lens, tag \in Tags : push_vdp_common_queue(n, tag)
  <2>1. PICK n \in Lens, tag \in Tags : push_vdp_common_queue(n, tag)
    BY <1>3
  <2>2. n % CharRange = n /\ n \in Nat \ {0}
    BY CharAssumption, FitsInAChar
  <2>3. OS_Q_Put(n, tag)
    BY <2>1, <2>2 DEF push_vdp_common_queue
  <2>4. /\ OsqInv' /\ UNCHANGED held
        /\ Contents' = Contents \/ Contents' = Append(Contents, Message(n, tag))
    BY <2>2, <2>3, PutKeeps
  <2>5. CASE Contents' = Append(Contents, Message(n, tag))
    <3>1. Fifo!Accept(Message(n, tag))
      BY <2>4, <2>5 DEF Fifo!Accept, held
    <3>2. Fifo!FifoNext
      BY <3>1 DEF Fifo!FifoNext
    <3>3. QED
      BY <2>4, <3>2
  <2>6. QED
    BY <1>2, <2>4, <2>5
<1>4. ASSUME MsgCnt > 0, size = None, pLink' = offFirst, size' = mem[offFirst],
             UNCHANGED <<mem, MsgCnt, offFirst, offLast, ret>>, InUse' \in BOOLEAN
      PROVE  OsqInv' /\ [Fifo!FifoNext]_Fifo!fifoVars
  <2>1. OsqInv' /\ held = None /\ Contents # <<>> /\ held' = Head(Contents) /\ UNCHANGED Contents
    BY <1>4, HandingOut
  <2>2. Fifo!Deliver
    BY <2>1 DEF Fifo!Deliver, held
  <2>3. QED
    BY <2>1, <2>2 DEF Fifo!FifoNext
<1>5. ASSUME MsgCnt > 0
      PROVE  mem[offFirst] \in Nat \ {0} /\ offFirst # None
  <2>1. PICK f, k : Layout(f, k)
    BY <1>5 DEF OsqInv
  <2>2. f[1] = offFirst /\ 1 \in 1 .. MsgCnt
    BY <1>1, <1>5, <2>1 DEF OsqTypeOK, Layout
  <2>3. mem[offFirst] \in Nat \ {0} /\ offFirst \in 0 .. Words - 1
    BY <1>1, <1>5, <2>1, <2>2, Places
  <2>4. QED
    BY <2>3, NoneAssumption
<1>6. CASE OS_Q_GetPtr
  <2>1. MsgCnt > 0 /\ pLink = None /\ Use(offFirst, mem[offFirst])
        /\ UNCHANGED <<mem, MsgCnt, offFirst, offLast, ret>> /\ InUse' \in BOOLEAN
    BY <1>6 DEF OS_Q_GetPtr
  <2>2. size = None
    BY <1>1, <2>1 DEF Held
  <2>3. mem[offFirst] > 0
    BY <1>5, <2>1
  <2>4. pLink' = offFirst /\ size' = mem[offFirst]
    BY <2>1, <2>3 DEF Use
  <2>5. QED
    BY <1>4, <2>1, <2>2, <2>4
<1>7. CASE GetPtrTimedReturn
  <2>1. pLink # None /\ size = None /\ Use(pLink, mem[pLink])
        /\ UNCHANGED <<mem, MsgCnt, offFirst, offLast, InUse, ret>>
    BY <1>7 DEF GetPtrTimedReturn
  <2>2. MsgCnt > 0 /\ pLink = offFirst /\ InUse \in BOOLEAN
    BY <1>1, <2>1 DEF Held, OsqTypeOK
  <2>3. mem[offFirst] > 0
    BY <1>5, <2>2
  <2>4. pLink' = offFirst /\ size' = mem[offFirst]
    BY <2>1, <2>2, <2>3 DEF Use
  <2>5. QED
    BY <1>4, <2>1, <2>2, <2>4
<1>8. ASSUME UNCHANGED <<mem, MsgCnt, offFirst, offLast, ret>>, OsqTypeOK', Held', UNCHANGED held
      PROVE  OsqInv' /\ [Fifo!FifoNext]_Fifo!fifoVars
  <2>1. Contents' = Contents /\ (MsgCnt' > 0 => \E f, k : Layout(f, k)')
    BY <1>8, SameQueue
  <2>2. QED
    BY <1>2, <1>8, <2>1 DEF OsqInv
<1>9. CASE OS_Q_GetPtrTimed
  <2>1. MsgCnt > 0 /\ pLink = None /\ InUse' = TRUE /\ pLink' = offFirst
        /\ UNCHANGED <<mem, MsgCnt, offFirst, offLast, size, ret>>
    BY <1>9 DEF OS_Q_GetPtrTimed
  <2>2. size = None
    BY <1>1, <2>1 DEF Held
  <2>3. OsqTypeOK' /\ Held' /\ UNCHANGED held
    BY <1>1, <2>1, <2>2 DEF OsqTypeOK, EndOf, Held, held
  <2>4. QED
    BY <1>8, <2>1, <2>3
<1>10. CASE UNCHANGED osqVars
  <2>1. UNCHANGED <<mem, MsgCnt, offFirst, offLast, InUse, pLink, size, ret>>
    BY <1>10 DEF osqVars
  <2>2. OsqTypeOK' /\ Held' /\ UNCHANGED held
    BY <1>1, <2>1 DEF OsqTypeOK, EndOf, Held, held, MessageAt
  <2>3. QED
    BY <1>8, <2>1, <2>2
<1>11. CASE OS_Q_Purge
  <2>1. OsqInv' /\ held # None /\ held' = None /\ Contents' = Tail(Contents)
    BY <1>11, PurgeKeeps
  <2>2. Fifo!Discard
    BY <2>1 DEF Fifo!Discard, held
  <2>3. QED
    BY <2>1, <2>2 DEF Fifo!FifoNext
<1>12. QED
  BY <1>3, <1>6, <1>7, <1>9, <1>10, <1>11 DEF OsqNext

(* The ring buffer is a FIFO queue for messages of 1 to 255 bytes, the     *)
(* lengths an unsigned char holds: nothing is lost, torn or overtaken.     *)
THEOREM RingBufferIsAFifo ==
  ASSUME Lens \subseteq 1 .. CharRange - 1
  PROVE  OsqSpec => FifoRefinement
<1>1. OsqInit => OsqInv /\ Fifo!FifoInit
  BY QueueStarts
<1>2. OsqInv /\ [OsqNext]_osqVars => OsqInv' /\ [Fifo!FifoNext]_Fifo!fifoVars
  BY QueueSteps
<1>3. OsqInv => OsqTypeOK
  BY DEF OsqInv
<1>4. QED
  BY <1>1, <1>2, <1>3, PTL DEF OsqSpec, FifoRefinement, Fifo!SafeSpec

(* A set of words that lies in two pieces is no larger than both.          *)
LEMMA TwoPieces ==
  ASSUME NEW a \in Nat, NEW b \in Nat, NEW c \in Nat, NEW d \in Nat, a <= b, c <= d,
         NEW S \in SUBSET ((a .. b - 1) \cup (c .. d - 1))
  PROVE  Cardinality(S) \in Nat /\ Cardinality(S) <= (b - a) + (d - c)
<1> DEFINE A == a .. b - 1
           C == c .. d - 1
<1>1. IsFiniteSet(A) /\ Cardinality(A) = b - a
  <2>1. IsFiniteSet(A) /\ Cardinality(A) = IF a > b - 1 THEN 0 ELSE b - 1 - a + 1
    BY FS_Interval
  <2>2. QED
    BY <2>1
<1>2. IsFiniteSet(C) /\ Cardinality(C) = d - c
  <2>1. IsFiniteSet(C) /\ Cardinality(C) = IF c > d - 1 THEN 0 ELSE d - 1 - c + 1
    BY FS_Interval
  <2>2. QED
    BY <2>1
<1> HIDE DEF A, C
<1>3. IsFiniteSet(A \cup C) /\ Cardinality(A \cup C) = Cardinality(A) + Cardinality(C) - Cardinality(A \cap C)
  BY <1>1, <1>2, FS_Union
<1>4. IsFiniteSet(A \cap C) /\ Cardinality(A \cap C) \in Nat
  <2>1. A \cap C \in SUBSET A
    OBVIOUS
  <2>2. IsFiniteSet(A \cap C)
    BY <1>1, <2>1, FS_Subset
  <2>3. QED
    BY <2>2, FS_CardinalityType
<1>5. S \in SUBSET (A \cup C)
  BY DEF A, C
<1>6. IsFiniteSet(S) /\ Cardinality(S) <= Cardinality(A \cup C)
  BY <1>3, <1>5, FS_Subset
<1>7. Cardinality(S) \in Nat
  BY <1>6, FS_CardinalityType
<1>8. QED
  BY <1>1, <1>2, <1>3, <1>4, <1>6, <1>7

(* Free are the words in front of the first message and those behind the   *)
(* last, in a buffer that wrapped those between and the unused tail.       *)
LEMMA FreeWords ==
  ASSUME OsqTypeOK, MsgCnt > 0, NEW f, NEW k, Layout(f, k)
  PROVE  /\ Offset = f
         /\ k = MsgCnt => Free \subseteq (0 .. offFirst - 1) \cup (EndOf(offLast) .. Words - 1)
         /\ k < MsgCnt => Free \subseteq (EndOf(offLast) .. offFirst - 1) \cup (EndOf(f[k]) .. Words - 1)
<1>1. /\ Words \in Nat /\ MsgCnt \in Nat /\ offFirst \in 0 .. Words - 1 /\ k \in 1 .. MsgCnt
      /\ f[MsgCnt] = offLast /\ MsgCnt \in 1 .. MsgCnt
  BY WordsAssumption DEF OsqTypeOK, Layout
<1>2. Offset = f
  BY <1>1, LayoutReads DEF Reads
<1>3. EndOf(f[k]) \in Nat /\ EndOf(f[k]) <= Words /\ EndOf(offLast) \in Nat /\ EndOf(offLast) <= Words
  BY <1>1, Places
<1>4. ASSUME NEW w \in Free
      PROVE  /\ w \in 0 .. Words - 1 /\ w \notin offFirst .. EndOf(f[k]) - 1
             /\ k < MsgCnt => w \notin 0 .. EndOf(offLast) - 1
  <2>1. w \in 0 .. Words - 1 /\ \A i \in 1 .. MsgCnt : w \notin Span(f[i])
    BY <1>2 DEF Free, Span
  <2>2. w \notin offFirst .. EndOf(f[k]) - 1
    <3>1. \A i \in 1 .. k : w \notin Span(f[i])
      BY <1>1, <2>1
    <3>2. QED
      BY <3>1 DEF Layout
  <2>3. ASSUME k < MsgCnt PROVE w \notin 0 .. EndOf(offLast) - 1
    <3>1. \A i \in k + 1 .. MsgCnt : w \notin Span(f[i])
      BY <1>1, <2>1
    <3>2. QED
      BY <2>3, <3>1 DEF Layout
  <2>4. QED
    BY <2>1, <2>2, <2>3
<1>5. ASSUME k = MsgCnt, NEW w \in Free
      PROVE  w \in (0 .. offFirst - 1) \cup (EndOf(offLast) .. Words - 1)
  <2>1. w \in 0 .. Words - 1 /\ w \notin offFirst .. EndOf(f[k]) - 1
    BY <1>4, <1>5
  <2>2. EndOf(f[k]) = EndOf(offLast)
    BY <1>1, <1>5
  <2>3. QED
    BY <1>1, <1>3, <2>1, <2>2
<1>6. ASSUME k < MsgCnt, NEW w \in Free
      PROVE  w \in (EndOf(offLast) .. offFirst - 1) \cup (EndOf(f[k]) .. Words - 1)
  <2>1. /\ w \in 0 .. Words - 1 /\ w \notin offFirst .. EndOf(f[k]) - 1
        /\ w \notin 0 .. EndOf(offLast) - 1
    BY <1>4, <1>6
  <2>2. QED
    BY <1>1, <1>3, <2>1
<1>7. QED
  BY <1>2, <1>5, <1>6

(* A message that was turned away would not have fitted in one piece, and  *)
(* the other piece of free words is smaller than a message.                *)
Tight(n) ==
  IF MsgCnt = 0 THEN StorageSize(n) > Words
  ELSE \E other \in {StorageSize(n)} \cup {StorageSize(mem[Offset[i]]) : i \in 1 .. MsgCnt} :
         Cardinality(Free) < StorageSize(n) + other

(* Whichever branch of OS_Q_Put turns the message away.                    *)
LEMMA RefusalIsTight ==
  ASSUME OsqInv, NEW n \in Nat \ {0}, NEW tag \in Tags, OS_Q_Put(n, tag), ~ret'.ok
  PROVE  ret'.len = n /\ Tight(n)
<1>1. OsqTypeOK /\ Words \in Nat \ {0} /\ MsgCnt \in Nat /\ offFirst \in 0 .. Words - 1
  BY WordsAssumption DEF OsqInv, OsqTypeOK
<1>2. StorageSize(n) \in Nat
  BY Sizes
<1>3. \A m, off : ~Store(m, off, n, tag)
  BY DEF Store
<1>4. CASE PutEmpty(n, tag)
  <2>1. MsgCnt = 0 /\ NoSpace(n) /\ ~(StorageSize(n) <= Words)
    BY <1>3, <1>4 DEF PutEmpty
  <2>2. QED
    BY <1>1, <1>2, <2>1 DEF NoSpace, Tight
<1>5. CASE PutBehind(n, tag)
  BY <1>3, <1>5 DEF PutBehind
<1>6. CASE PutWrap(n, tag)
  <2>1. /\ MsgCnt > 0 /\ offFirst < EndOf(offLast) /\ offFirst < StorageSize(n) /\ NoSpace(n)
        /\ Words - EndOf(offLast) < StorageSize(n)
    BY <1>3, <1>6 DEF PutWrap
  <2>2. PICK f, k : Layout(f, k)
    BY <2>1 DEF OsqInv
  <2>3. k = MsgCnt /\ EndOf(offLast) \in 1 .. Words
    BY <1>1, <2>1, <2>2, Wrapped
  <2>4. Free \in SUBSET ((0 .. offFirst - 1) \cup (EndOf(offLast) .. Words - 1))
    BY <1>1, <2>1, <2>2, <2>3, FreeWords
  <2>5. Cardinality(Free) \in Nat /\ Cardinality(Free) <= (offFirst - 0) + (Words - EndOf(offLast))
    <3>1. 0 \in Nat /\ offFirst \in Nat /\ EndOf(offLast) \in Nat /\ Words \in Nat
          /\ 0 <= offFirst /\ EndOf(offLast) <= Words
      BY <1>1, <2>3
    <3>2. QED
      BY <2>4, <3>1, TwoPieces
  <2>6. Cardinality(Free) < StorageSize(n) + StorageSize(n)
    BY <1>1, <1>2, <2>1, <2>3, <2>5
  <2>7. QED
    BY <2>1, <2>6 DEF NoSpace, Tight
<1>7. CASE PutGap(n, tag)
  <2>1. /\ MsgCnt > 0 /\ offFirst >= EndOf(offLast) /\ NoSpace(n)
        /\ offFirst - EndOf(offLast) < StorageSize(n)
    BY <1>3, <1>7 DEF PutGap
  <2>2. PICK f, k : Layout(f, k)
    BY <2>1 DEF OsqInv
  <2>3. k \in 1 .. MsgCnt /\ k < MsgCnt /\ EndOf(offLast) \in 1 .. Words
    <3>1. /\ k = MsgCnt \/ k < MsgCnt
          /\ k = MsgCnt => offFirst < EndOf(offLast)
          /\ EndOf(offLast) \in 1 .. Words
      BY <1>1, <2>1, <2>2, Wrapped
    <3>2. k \in 1 .. MsgCnt
      BY <2>2 DEF Layout
    <3>3. QED
      BY <1>1, <2>1, <3>1, <3>2
  <2>4. /\ Offset = f
        /\ Free \in SUBSET ((EndOf(offLast) .. offFirst - 1) \cup (EndOf(f[k]) .. Words - 1))
    BY <1>1, <2>1, <2>2, <2>3, FreeWords
  <2>5. EndOf(f[k]) \in Nat /\ EndOf(f[k]) <= Words
    BY <1>1, <2>1, <2>2, <2>3, Places
  <2>6. Cardinality(Free) \in Nat
        /\ Cardinality(Free) <= (offFirst - EndOf(offLast)) + (Words - EndOf(f[k]))
    <3>1. /\ offFirst \in Nat /\ EndOf(offLast) \in Nat /\ EndOf(f[k]) \in Nat /\ Words \in Nat
          /\ EndOf(offLast) <= offFirst
      BY <1>1, <2>1, <2>3, <2>5
    <3>2. QED
      BY <2>4, <2>5, <3>1, TwoPieces
  <2>7. f[k + 1] = 0 /\ Words - EndOf(f[k]) < StorageSize(mem[0])
    BY <2>2, <2>3 DEF Layout
  <2>8. k + 1 \in 1 .. MsgCnt /\ StorageSize(mem[0]) \in Nat
    <3>1. k + 1 \in 1 .. MsgCnt
      BY <1>1, <2>3
    <3>2. mem[f[k + 1]] \in Nat \ {0}
      BY <1>1, <2>1, <2>2, <3>1, Places
    <3>3. QED
      BY <2>7, <3>1, <3>2, Sizes
  <2>9. PICK other : other = StorageSize(mem[Offset[k + 1]])
    OBVIOUS
  <2>10. other = StorageSize(mem[0])
    BY <2>4, <2>7, <2>9
  <2>11. Cardinality(Free) < StorageSize(n) + other
    BY <1>1, <1>2, <2>1, <2>3, <2>5, <2>6, <2>7, <2>8, <2>10
  <2>12. other \in {StorageSize(mem[Offset[i]]) : i \in 1 .. MsgCnt}
    BY <2>8, <2>9
  <2>13. QED
    BY <2>1, <2>11, <2>12 DEF NoSpace, Tight
<1>8. QED
  BY <1>4, <1>5, <1>6, <1>7 DEF OS_Q_Put

(* Only a nearly full ring buffer turns a message away.                    *)
THEOREM OnlyATightBufferRefuses ==
  ASSUME Lens \subseteq 1 .. CharRange - 1
  PROVE  OsqSpec => RefusesOnlyWhenTight
<1>1. OsqInit => OsqInv
  BY QueueStarts
<1>2. OsqInv /\ [OsqNext]_osqVars => OsqInv'
  BY QueueSteps
<1>3. ASSUME OsqInv, [OsqNext]_osqVars, ret' # ret, ~ret'.ok
      PROVE  Tight(ret'.len)
  <2>1. PICK n \in Lens, tag \in Tags : push_vdp_common_queue(n, tag)
    BY <1>3 DEF OsqNext, osqVars, OS_Q_GetPtr, OS_Q_GetPtrTimed, GetPtrTimedReturn, OS_Q_Purge
  <2>2. n % CharRange = n /\ n \in Nat \ {0}
    BY CharAssumption, FitsInAChar
  <2>3. OS_Q_Put(n, tag)
    BY <2>1, <2>2 DEF push_vdp_common_queue
  <2>4. ret'.len = n /\ Tight(n)
    BY <1>3, <2>2, <2>3, RefusalIsTight
  <2>5. QED
    BY <2>4
<1>4. OsqInv /\ [OsqNext]_osqVars =>
        [ret' # ret /\ ~ret'.ok =>
           LET need == StorageSize(ret'.len)
           IN  IF MsgCnt = 0 THEN need > Words
               ELSE \E other \in {need} \cup {StorageSize(mem[Offset[i]]) : i \in 1 .. MsgCnt} :
                      Cardinality(Free) < need + other]_osqVars
  BY <1>3 DEF Tight
<1>5. QED
  BY <1>1, <1>2, <1>4, PTL DEF OsqSpec, RefusesOnlyWhenTight
=============================================================================
