----------------------------- MODULE SerialLine -----------------------------
(***************************************************************************)
(* The serial line to the controller, both ways (vdp_uart.c, uart.c,       *)
(* slipframe.c, without SLIP's escapes: PACKAGE_TYPE_STRING).              *)
(*                                                                         *)
(* Out: tasks put frames in the sending queue, from which a task moves     *)
(* them to the ring of the line; survey relays commands and receipts past  *)
(* the queue into the ring itself; the line's thread writes them to the    *)
(* device, in as many pieces as the device takes.  In: the same thread     *)
(* reads whatever bytes have come and gives them to a parser that looks    *)
(* for a start byte, a type and a length.  An error of the device, in      *)
(* either direction, has the thread close it, sleep and open it again.     *)
(*                                                                         *)
(* A frame to send is a number, its bytes are Pieces pieces.  A frame      *)
(* received is its bytes, since the parser tells them apart.  The thread's *)
(* own wait for a post, 20 ms at most, is left out: it only paces it.      *)
(***************************************************************************)
EXTENDS Naturals, Sequences, SequencesExt, FiniteSets

CONSTANTS QueueSize,  \* frames vdp_uart_sending_queue holds
          RingSize,   \* SERIAL_MAX_BUFF_NUM
          Pieces,     \* pieces a frame is written in, at most
          MaxFrames,  \* bound on the frames sent and received
          LineMishaps \* bound on device errors and damaged bytes

ASSUME LineAssumption == /\ {QueueSize, RingSize, MaxFrames, LineMishaps} \subseteq Nat
                         /\ Pieces \in Nat \ {0}

VARIABLES
  queue, ring,  \* frames to send: vdp_uart_sending_queue, sdev_lsb
  frame, done,  \* sdev_task_send_buff (0 if none is popped) and been_send_len
  line,         \* the pieces the device has taken
  pushed,       \* frames pushed so far
  direct,       \* ghost: those of them that went past the queue
  at, running,  \* the line's thread, sdev_task_run_flag
  joining,      \* stop_serial_task waits for the thread
  coming,       \* bytes on their way in
  rx_in,        \* slip_frame.rx_in_buf, up to rx_in_cnt
  initialised,  \* slip_frame_process_init has run
  arrived,      \* ghost: frames the other end sent
  handed,       \* frames given to api_uart_recv_callback
  errors, damage

out      == <<queue, ring, frame, done, line, pushed, direct>>
thread   == <<at, running, joining>>
in       == <<coming, rx_in, initialised, arrived, handed, damage>>
lineVars == <<out, thread, in, errors>>

Start == 161  \* 0xA1

(* What the controller sends: the start byte, a type, the length, the      *)
(* rest; the start byte is in no other place.  Other bytes damage makes.   *)
SentFrame(n) == IF n % 2 = 1 THEN <<Start, n, 4, 6>> ELSE <<Start, n, 5, 6, 0>>
Bytes        == {Start, 6}
Frames       == 1 .. MaxFrames

OutTypeOK ==
  /\ queue \in Seq(Frames) /\ Len(queue) <= QueueSize
  /\ ring \in Seq(Frames) /\ Len(ring) <= RingSize
  /\ {frame, pushed, arrived} \subseteq 0 .. MaxFrames /\ done \in 0 .. Pieces
  /\ line \in Seq(Frames \X (1 .. Pieces)) /\ direct \subseteq Frames
  /\ at \in {"open", "pop", "read", "write", "sleep", "stopped"}
  /\ {running, joining, initialised} \subseteq BOOLEAN
  /\ {errors, damage} \subseteq 0 .. LineMishaps
InTypeOK == {coming, rx_in} \subseteq Seq(Nat) /\ handed \in Seq(Seq(Nat))

LineInit ==
  /\ queue = <<>> /\ ring = <<>> /\ line = <<>> /\ coming = <<>>
  /\ rx_in = <<>> /\ handed = <<>>
  /\ frame = 0 /\ done = 0 /\ pushed = 0 /\ direct = {}
  /\ arrived = 0 /\ errors = 0 /\ damage = 0
  /\ at = "open" /\ running = TRUE /\ joining = FALSE /\ initialised = FALSE
-----------------------------------------------------------------------------
(* Sending.  A frame that finds no room is lost, in the queue and in the   *)
(* ring, and nobody is told.  Nobody sends before Init_vdp_uart.           *)
Sends == /\ pushed + arrived < MaxFrames /\ initialised
         /\ pushed' = pushed + 1

push_serial_data(f) == ring' = IF Len(ring) < RingSize THEN Append(ring, f) ELSE ring

vdp_uart_send_data ==
  /\ Sends
  /\ queue' = IF Len(queue) < QueueSize THEN Append(queue, pushed') ELSE queue
  /\ UNCHANGED <<ring, frame, done, line, direct, thread, in, errors>>

(* Survey's way, beside the queue's task.                                  *)
vdp_uart_send_data_once ==
  /\ Sends
  /\ push_serial_data(pushed')
  /\ direct' = direct \cup {pushed'}
  /\ UNCHANGED <<queue, frame, done, line, thread, in, errors>>

(* Seeded fault: the queue's task gives up what it popped for a full ring  *)
(* only after it has tried it behind what is still queued.                 *)
QueueTurned ==
  /\ queue # <<>>
  /\ IF Len(ring) < RingSize
     THEN queue' = Tail(queue) /\ push_serial_data(Head(queue))
     ELSE queue' = Append(Tail(queue), Head(queue)) /\ UNCHANGED ring
  /\ UNCHANGED <<frame, done, line, pushed, direct, thread, in, errors>>

vdp_uart_sending_queue_task ==
  /\ queue # <<>>
  /\ queue' = Tail(queue) /\ push_serial_data(Head(queue))
  /\ UNCHANGED <<frame, done, line, pushed, direct, thread, in, errors>>
-----------------------------------------------------------------------------
(* The line's thread.  An error is left through stop1: the device is       *)
(* closed, and a frame under way is gone with the thread's locals.         *)
Goes(from, to) == at = from /\ at' = to

LineOpens == Goes("open", "pop") /\ UNCHANGED <<out, running, joining, in, errors>>

DeviceError == errors + damage < LineMishaps /\ errors' = errors + 1

OpenFails == /\ Goes("open", IF running THEN "sleep" ELSE "stopped")
             /\ DeviceError
             /\ UNCHANGED <<out, running, joining, in>>

Reopens == Goes("sleep", "open") /\ UNCHANGED <<out, running, joining, in, errors>>

LineStops == /\ at \in {"pop", "read"} /\ ~ running
         /\ at' = "stopped"
         /\ UNCHANGED <<out, running, joining, in, errors>>

pop_serial_data ==
  /\ Goes("pop", "read") /\ running
  /\ done' = 0
  /\ IF ring = <<>> THEN frame' = 0 /\ UNCHANGED ring
                    ELSE frame' = Head(ring) /\ ring' = Tail(ring)
  /\ UNCHANGED <<queue, line, pushed, direct, running, joining, in, errors>>

(* One byte for the parser.  p.in is what it has of a frame.               *)
(* Seeded fault: what comes first is taken for the start of a frame.       *)
SlipRecFrameEager(p, ch) ==
  LET now == Append(p.in, ch) IN
  IF Len(now) >= 4 /\ Len(now) >= now[3]
  THEN [in |-> <<>>, frames |-> Append(p.frames, now)]
  ELSE [p EXCEPT !.in = now]

SlipRecFrameProcess(p, ch) ==
  LET now == Append(p.in, ch) IN
  CASE p.in = <<>> /\ ch # Start -> p
    [] Len(now) >= 4 /\ Len(now) >= now[3]
         -> [in |-> <<>>, frames |-> Append(p.frames, now)]
    [] OTHER -> [p EXCEPT !.in = now]

ttyS0_rcv_handle(bytes) ==
  LET after == FoldLeft(SlipRecFrameProcess, [in |-> rx_in, frames |-> handed], bytes)
  IN  rx_in' = after.in /\ handed' = after.frames

Read ==
  /\ Goes("read", IF frame = 0 THEN "pop" ELSE "write") /\ running
  /\ \E n \in 0 .. Len(coming) :
       /\ ttyS0_rcv_handle(SubSeq(coming, 1, n))
       /\ coming' = SubSeq(coming, n + 1, Len(coming))
  /\ UNCHANGED <<out, running, joining, initialised, arrived, damage, errors>>

Written(n) == [i \in 1 .. n |-> <<frame, done + i>>]

(* Seeded fault: what has been written is written again with the rest.     *)
WriteAgain ==
  \E n \in 0 .. Pieces - done :
    /\ line' = line \o Written(n)
    /\ done' = IF done + n = Pieces THEN Pieces ELSE done
    /\ Goes("write", IF done' = Pieces THEN "pop" ELSE "read")
    /\ UNCHANGED <<queue, ring, frame, pushed, direct, running, joining, in, errors>>

(* What the device takes of the frame; the rest is for the next round.     *)
Write ==
  \E n \in 0 .. Pieces - done :
    /\ line' = line \o Written(n)
    /\ done' = done + n
    /\ Goes("write", IF done' = Pieces THEN "pop" ELSE "read")
    /\ UNCHANGED <<queue, ring, frame, pushed, direct, running, joining, in, errors>>

(* select, read, write or tcdrain fails; in tcdrain the bytes are out.     *)
Fails ==
  /\ at \in {"read", "write"}
  /\ at' = IF running THEN "sleep" ELSE "stopped"
  /\ DeviceError
  /\ \E n \in 0 .. Pieces : /\ at = "read" => n = 0
                            /\ done + n <= Pieces
                            /\ line' = line \o Written(n)
  /\ frame' = 0 /\ done' = 0
  /\ UNCHANGED <<queue, ring, pushed, direct, running, joining, in>>

ThreadStep == \/ LineOpens \/ OpenFails \/ Reopens \/ LineStops \/ pop_serial_data
              \/ Read \/ Write \/ Fails
-----------------------------------------------------------------------------
(* Start and stop.  The thread runs before the parser is initialised: what *)
(* it has of a frame by then is forgotten.                                 *)
slip_frame_process_init == rx_in' = <<>>

Init_vdp_uart == /\ ~ initialised /\ initialised' = TRUE
                 /\ slip_frame_process_init
                 /\ UNCHANGED <<out, thread, coming, arrived, handed, damage, errors>>

(* Seeded fault: the thread is waited for, and not told to stop.           *)
StopUntold == /\ initialised /\ running /\ ~ joining
              /\ joining' = TRUE
              /\ UNCHANGED <<out, at, running, in, errors>>

stop_serial_task == /\ initialised /\ running
                    /\ running' = FALSE /\ joining' = TRUE
                    /\ UNCHANGED <<out, at, in, errors>>

Joined == /\ joining /\ at = "stopped"
          /\ joining' = FALSE
          /\ UNCHANGED <<out, at, running, in, errors>>

(* The other end, and a line that loses and damages bytes.                 *)
Arrives == /\ pushed + arrived < MaxFrames
           /\ arrived' = arrived + 1
           /\ coming' = coming \o SentFrame(arrived')
           /\ UNCHANGED <<out, thread, rx_in, initialised, handed, damage, errors>>

Damaged == /\ errors + damage < LineMishaps /\ damage' = damage + 1
           /\ \E i \in 1 .. Len(coming) :
                \/ coming' = RemoveAt(coming, i)
                \/ \E b \in Bytes \ {coming[i]} : coming' = [coming EXCEPT ![i] = b]
           /\ UNCHANGED <<out, thread, rx_in, initialised, arrived, handed, errors>>

LineNext == \/ vdp_uart_send_data \/ vdp_uart_send_data_once
            \/ vdp_uart_sending_queue_task
            \/ ThreadStep
            \/ Init_vdp_uart \/ stop_serial_task \/ Joined
            \/ Arrives \/ Damaged

(* The threads run; the device, asked again and again, takes a frame.      *)
LineFairness == /\ WF_lineVars(vdp_uart_sending_queue_task)
                /\ WF_lineVars(ThreadStep) /\ WF_lineVars(Joined)
                /\ SF_lineVars(Write /\ done' = Pieces)

LineSpec == LineInit /\ [][LineNext]_lineVars /\ LineFairness
-----------------------------------------------------------------------------
(* The controller reads each frame from its first byte to its last without *)
(* another's between them, each byte once, and whole but for one frame at  *)
(* most for every error of the device.  Of two frames that went the same   *)
(* way, through the queue or past it, it reads the one sent first before   *)
(* the other.  (One that went past the queue may be read before one that   *)
(* was queued earlier.)                                                    *)
Ahead(f, g)  == f # g /\ ((f \in direct <=> g \in direct) => f < g)
Earlier(a, b) == Ahead(a[1], b[1]) \/ (a[1] = b[1] /\ a[2] < b[2])
Follows(a, b) == b[2] = 1 \/ (b[1] = a[1] /\ b[2] = a[2] + 1)
Cut == {f \in Frames : /\ f # frame
                       /\ \E i \in DOMAIN line : line[i][1] = f
                       /\ \A i \in DOMAIN line : line[i] # <<f, Pieces>>}
WholeFramesInOrder ==
  /\ OutTypeOK
  /\ line # <<>> => line[1][2] = 1
  /\ \A i \in 1 .. Len(line) - 1 : Follows(line[i], line[i + 1])
  /\ \A i, j \in 1 .. Len(line) : i < j => Earlier(line[i], line[j])
  /\ Cardinality(Cut) <= errors

(* Every frame the gateway is given that the controller did not send is    *)
(* the work of a damaged byte of its own: the parser, once out of step,    *)
(* finds back to the next frame by itself.  (As long as no frame holds the *)
(* start byte elsewhere, which the parser cannot tell.)                    *)
Strangers == {i \in DOMAIN handed : \A n \in 1 .. arrived : handed[i] # SentFrame(n)}
OneFalseFramePerMishap == InTypeOK /\ Cardinality(Strangers) <= damage

(* Closing the line comes back, also in the middle of a frame or while the *)
(* device is opened again.                                                 *)
StopReturns == joining ~> ~ joining
=============================================================================
