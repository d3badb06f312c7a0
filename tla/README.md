# C5-IPG in TLA+

C5-IPG is the program of an IP gateway of a door-intercom system (embedded
Linux, C, pthreads; `src/src/app` and `src/src/os`). It joins a bus of
doorbell and indoor stations, reached through a microcontroller on a serial
line, to an IP network: it serves the bus camera to other gateways as multicast
video, shows theirs, carries unicast audio, and answers for the parameters of
its devices.

This directory holds specifications of the parts of the program where threads,
timers and an unreliable network meet, their model-checking configurations, and
proofs about them. Source paths below are relative to `src/src/`. Comments in
the source are in GBK.

Contents: [Inventory](#inventory), [Modules](#modules-and-how-they-correspond-to-the-code),
[Runs](#runs), [Fairness](#fairness), [Assumptions](#what-the-models-take-for-granted),
[Proofs](#proofs), [Findings](#findings), [Known weaknesses](#known-weaknesses),
[Plan](#plan), [Not modelled](#not-modelled).

## Inventory

`main.c:44-88` starts, in this order: the timers, the video service, two UDP
instances (port 25000 and a second one), the device-update and the remote
parameter instances, then the tasks of the parameter server, the debug unit and
survey, and the serial line. The tasks of the call business (`main.c:81-82`)
and of network management (`main.c:88`) are in the tree, but their calls are
commented out at this commit. SIGALRM is blocked in all threads but the
timers' (`main.c:57`).

| Component | State it keeps | Operations | Talks to | What is hard | Correct when |
|---|---|---|---|---|---|
| **Task queues** `os/OSQ.c`, `app/utility.c` | byte ring: `MsgCnt`, `offFirst`, `offLast`, `InUse`, links in the buffer | put, get (with or without timeout), purge | every task: push by any thread, pop/process/purge by the owner | messages contiguous, wrap and its end mark, consumer reads in place without the lock, length read after unlock | FIFO, nothing lost, torn or overwritten; refuses only when nearly full |
| **Acknowledged UDP** `vtk_udp_stack/vtk_udp_stack_class.c`, `..._c5_ipc_cmd.c` | two arrays of slots with semaphores (`resend_array`, `waitrsp_array`), `send_cmd_sn` | send data / request / response; receive, poll, expire | callers in any task; three threads of its own; peers | loss, repetition, delay; slots reused while their former owner still waits; unguarded counter | an answer goes to the request it answers, slots are never lost |
| **Multicast video server** `video_service/ip_camera_control/{video_multicast_server,subscriber_list}.c` | subscriber list with a lock, receive queue, array of expected CANCEL_RSP | SUBSCRIBE, DESUBSCRIBE, CANCEL_RSP; periodic ageing | clients over UDP, camera control, capture controller | the receiving and the monitoring thread share the list; the lock is held while a client is asked to cancel | one entry per client, every entry ends, the stream ends with the last one, one camera at a time |
| **Camera service control** `ip_video_cs_control.c`, `ip_camera_control.c` | `global_cs_state` (IDLE / SERVER / CLIENT), `video_source_id` | apply, close, notify, turn on/off | both halves of the video service, survey by notices | one state variable written by three threads without a lock | server and client role exclude each other, camera on exactly while served |
| **Capture controller** `encoder_vin/video_capture_controller.c`, `capture_procsee.c` | command queue, `CaputureState` | START, STOP | encoder thread it creates and cancels | a STOP while the encoder still starts is ignored | no stream without a subscriber |
| **Multicast video client** `ip_video_control/video_multicast_client.c` | client state and last result, group joined, expected answers | subscribe, desubscribe (survey task), answers and CANCEL_REQ (receiving thread) | the server of another gateway | time-outs race with late answers; some answers are matched by nothing | joined to a group exactly while subscribed |
| **Survey** `task_survey/*.c` | two queues (normal, synchronous), monitor and call-link status | dispatch of UART, UDP and task messages, `WaitForBusinessACK` | every other part | synchronous waits that take one message, late answers, status polled by peers | each waiting task gets its own answer |
| **Call business** `obj_Call_Business/**`, `task_survey/obj_*` | caller and called-party state machines, timers, link status | invite, ring, answer, bye, transfer, timeout, check of the link | peers over unicast commands, DS bus, audio, video | queued time-outs of a former call, lost BYE, two gateways out of step | both ends idle again after any loss |
| **Parameter server** `task_io_server/{task_IoServer,vdp_IoServer_State}.c` | table of parameters in memory and on disk, `mustSaveFlag`, save timer | read, write, default, save | tasks through their synchronous queue, file system | delayed save, rename then write, crash in between | a saved value survives a crash |
| **Tables and resources** `obj_TableProcess.c`, `obj_ResourceTable.c` | records in memory, counts of what is modified, the file | load, verify, add, delete, flush | parameter server, timer thread, survey | append or rewrite, a file removed before it is written, nothing synced before the end | what is not counted as modified is on disk; every record has its file |
| **Firmware update** `utility.c`, `task_survey/sys_msg_process.c` | package, note for after the reboot, list of files to come | download, verify, update, reset | the update tool over UDP, shell commands | any command may fail, power may go in between | the tool is told the truth |
| **Audio** `audio_service/IP_*.c`, `obj_PlayList.c` | talk and ring states, threads, the list of tunes | talk on/off, ring, stop | ALSA, UDP sockets, survey | started and stopped while the device opens; the list is read through a small buffer | the tune asked for rings; a talk is on as commanded |
| **Linphone video** `video_service/linphone_*.c`, `video_linphone_{server,client}.c`, `unix_socket.c` | link state, roles, one external process, its connection and queue | call, be called, close, commands to the process | the other gateway, a local socket | both ends act at a time; one socket and queue for all processes | a viewer has a picture exactly when the camera sends one; no command goes to the wrong process |
| **Timers and events** `os/mul_timer.c`, `OSTIME.c`, `OSEvenT.c` | list of timers, ticked by one thread | start, stop, set period, callback | parameter save, calls, survey | callback outside the lock, double unlock | what is written is saved |
| **Serial line** `vdp_uart.c`, `uart.c`, `slipframe.c` | frame parser, sending queue, ring, device | send, receive, reopen, stop | survey, microcontroller | partial writes, device errors, damaged lengths | frames whole, once and in order; damage does not spread |
| **Video packets** `encoder_vin/udp_fragment_opt.c` | list of frames being completed | fragment in, frame out | receiving thread, decoder thread | lost fragments, bounded pool of nodes, semaphore beside the list | frames whole and in order, no node lost |
| **Video display** `decoder/video_process.c` | `VideoDisplayState`, a decoder thread and a receiving task, the node lock | open (`EnableVideoDisplay`), close (`DisableVideoDisplay`) | multicast client and survey call it, video packets | threads cancelled while they hold or need the lock, devices that do not open, calls ignored in the wrong state | what is closed was open and is gone afterwards |

Also in the tree: ALSA and G.711/G.722, H.264 coding and V4L capture, the
decoder's codec and display devices, logging and call traces.

`PROJECT.json` lists, under "hazards", what in this code is hard to test, line
by line, and which property watches it.

### How the parts interact

Every task is a loop *pop, process, purge* on a task queue. Peers' packets come
in on the threads of a UDP instance, are acknowledged there, and are either
given to a waiting call or pushed to survey. The video service has UDP
instances of its own, with a receiving thread and (server side) the list
monitor; it tells survey with two notices, ON and OFF, when the bus camera has
to be powered. The parameter server is asked through its queue and answers into
the asker's synchronous queue; picture adjustment and the debug unit share one
such queue. A unit's command comes in by the serial line, is carried out here,
and is relayed to another gateway over two UDP ports. All calls that need an answer wait on a semaphore in a slot of
an array, with a timeout.

## Modules and how they correspond to the code

| Module | Models |
|---|---|
| `FifoQueue` | The abstract promise of a task queue: accepted messages come out whole, once and in order; the consumer holds one of them at a time. |
| `OSQ` | `os/OSQ.c` in 32-bit words, with the `unsigned char` length of `push_vdp_common_queue`. Refines `FifoQueue`. |
| `UdpStack` | The slot arrays, the calls of `vtk_udp_stack_c5_ipc_cmd.c` and the stack's threads. |
| `McastServer` | The multicast server's two threads, the subscriber list, the server half of the camera service control, and the capture controller with its encoder. |
| `VideoPackets` | Cutting a frame into packets, putting packets together in a list of nodes from a pool, taking complete frames. State and operations only. |
| `VideoDisplay` | The threads around it: the sending camera, the callers that open and close the display, the decoder thread that receives packets, the task that takes frames. Extends `VideoPackets`. |
| `MulTimer` | The timers of `os/mul_timer.c`: the thread that walks them, expiry, the double unlock, start and stop behind the lock. Extended by `IoServer`. |
| `IoServer` | The parameter server with its file and save timer, and the threads that adjust the picture through it. |
| `ResourceTable` | The resource table, its file, and the update that changes it. |
| `UpgradeIni`, `Upgrade` | `upgrade.ini` and its parser; installing a firmware package. |
| `VideoClient` | The multicast client's two threads, the client half of the service control, and the monitor. |
| `LinphoneLink` | Two gateways that agree on a linphone picture. |
| `Linphonec` | The external process that shows or sends it, its socket and command queue. |
| `Linphone` | The two side by side: an instance of each, and their properties. |
| `CallBusiness` | One party of a call: either role's state machine, its timer, its link, and the partner's commands. |
| `Gateway` | A unit's commands carried out by two gateways: talk, display and camera on both. |
| `SerialLine` | The line to the unit, both ways: out through the queue and past it. |
| `PlayList`, `AudioRing` | The list of tunes and its reader; ringing. |
| `UdpStack_proofs` (also of `OSQ`), `McastServer_proofs`, `VideoDisplay_proofs`, `CallBusiness_proofs`, `VideoClient_proofs` (also of `Linphonec` and `LinphoneLink`), `Gateway_proofs` (also of `SerialLine`), `IoServer_proofs`, `ResourceTable_proofs` | Theorems about the twelve. |
| `MC*` | Instances for TLC. |

`MCTransport`, `MCVideoClient`, `MCCallBusiness`, `MCGateway` and `MCResourceTable` check
two or three modules side by side. Their variable `part` says which of them moves; the
others stand in their initial states. The parts share no state, so such a run
says of each what a run of its own would say.

**OSQ.** `mem` is the buffer: a link word with a length, then data words holding
the message's tag. `PutEmpty`, `PutBehind`, `PutWrap` and `PutGap` are the four
branches of `OS_Q_Put`; each is one step because the function holds `Qmutex`.
`OS_Q_GetPtr` is one step, `OS_Q_GetPtrTimed` two: it reads the length after it
has unlocked. Between get and purge the consumer holds a pointer into the
buffer; `held`, in the refinement mapping, reads the message *through* that
pointer in every state, so that a producer overwriting it would show. The
in-progress marking (negative sizes) happens inside one critical section and is
left out. Blocking on a full queue and `OS_Q_Clear`, `OS_Q_Delete` are not used
by the running program.

**UdpStack.** `call[c]` says where the call of task `c` is: `sn` (has read the
counter, has not written it back), `expect` (joins `waitrsp_array`), `send`
(joins `resend_array`, queues the packet), `ack`, `rsp` (waits). `wire` is the
set of packets ever sent: a packet may be acknowledged or answered any number of
times, at any later moment, or never, which is loss, repetition, delay and
reordering in one. Joins return NULL, `(sem_t*)-1` or a slot, and the callers'
tests on these values are as compiled: pointers compare unsigned, so `-1`
passes `> 0`. A response is copied to where `prcvbuffer` points, in the stack frame
of the call that joined (`Copied`), whatever has become of that call: into the
buffer of the task's next request (`got = "other"`), into memory nobody uses, or
into something else. That last case, and waiting on `-1`, set `fault`, and
behaviours end there: the program runs on overwritten memory. Deadlock checking is
off for that reason and because the counter is bounded by `MaxSn`. `got` is what
was last copied into the buffer of a call that waits, the answer to its request
or another; `sole` is a ghost, *the slot this call joined, and the buffer it named
there, have been its own so far*.

**McastServer.** `proc` and `mon` are the threads' program counters. A step runs
to the next blocking call or access to state the other thread writes.
`LockFree` is the list's mutex: `mon` has it through a pass, `proc` inside a
list function. Requests reach `inbox` whenever the environment likes; answers
are acknowledged in time, or not. `DisableMulticast` is the sequence both
threads run to close the service: STOP to the capture controller, wait, state
to IDLE, notice OFF. `dev` in a list entry is a ghost: the code keeps only the
address, the model remembers which camera that client was promised.

**VideoPackets, VideoDisplay.** A node is a record; its buffer is a function from
packet positions to the number of the packet copied there, so that
`WholeFramesOnly` can tell a hole, a misplaced packet and one left from another
frame. `nodes` is the linked list of `Root` as a sequence, `free` the length of
`UnUsedRoot`, `sem` the semaphore posted for a completed frame. `dec` is
`vtk_TaskProcessEvent_H264_dec` (`ProcPack` under the node lock), `recv` is
`process_udp_recv_task`: woken, it locks, picks, copies and prints, returns the
node, decodes, unlocks, each a step, because it can be cancelled in the `printf`
of `video_process.c:493`. `closer` walks through `DisableVideoDisplay`: sleep,
cancel and join of `recv`, whose cleanup takes the node lock and frees the
pool, cancel and join of `dec`, close. `hand` is the last frame picked, `lost`,
`slept` and `joins` count for bounds and properties, `stray` is the states of the
display in which somebody reached behind the list's end or into a pool that is not
there. `DelayDecodes` is how many frames `recv` may decode while the closing thread
sleeps: 100 ms in the code.

**MulTimer, IoServer.** `tick` walks the timers: it takes a timer's lock and looks
(`Look`), counts and unlocks (`Count`), and unlocks a second time (`Unlocks`,
`mul_timer.c:156,160`); or stops an expired timer and runs the callback (`Expire`).
`start_a_timer` and `stop_a_timer` are two steps as well, taking the lock and
writing behind it. An unlock frees the lock whoever has it, so after the second one
two threads may be behind a lock, and the count `tick` has loaded (`seen`) may
overwrite a restart. `io` handles one message at a time: a write changes the table,
sets the flag and starts the timer, whose callback has the table saved, the
steps of the save being remove, rename, open, write, close and `sync`. `disk` is
the set of contents the file may turn out to have after a power failure now.
`WaitForBusinessACK` takes the first message of the synchronous queue, whoever
it is for; the picture's loader and adjuster both wait there.

**ResourceTable.** `add` and `pre` are the two counts of what is modified
(`modified_add_cnt`, `modified_pre_cnt`). A flush appends when only records were
added, else removes and rewrites, without a sync until its end. A snapshot is a
table and a set of files; `disk` is the set of snapshots a power failure may
leave, in the order the operations were done. `early` marks an update that ran
before `io` had loaded the table, `damaged` an append that failed or met a last line
without its line break: the properties say what holds without them. A table file
ends with a line break, with a record that has all its fields and no line break
("open": the loader counts commas), or with one that has not ("torn"); `Behind` is
what an append makes of each.

**UpgradeIni, Upgrade.** A line is what the parser can make of it. `OneLine` is
the filter of one pass; the three sections are looked for in passes of their
own. An install is a sequence of shell commands, each of which may fail: unpack,
copy file by file, write the note, reboot. `system("reboot")` returns
(`Reboots`): survey sends no answer and goes back to its queue, with the system
`going` down at any later moment, and the tool may ask again meanwhile. `dirty` is
what a power failure may still undo, as nothing is synced. Two ghosts say when the
note is no answer: `emptied`, the download directory was emptied, with the note,
while the tool waited; `doubtful`, the note may be of an earlier update, or a file
copied was lost and the note was not.

**VideoClient.** `user` is a call in progress, from the monitor down to the wait
for an answer; `recv` the message being handled. `toServer` and `toClient` are
sets of messages: late, reordered, and (`again`) twice. A step runs to the next
access to state the other thread writes. `ClosedByOne`, *the display is being
closed by one thread only*, is part of what is proved. `overtaken` is a ghost: the
user gave up a subscription whose answer `recv` was just carrying out ("now", until
that is over), or something of the kind has happened before (see
[Proofs](#proofs)).

**CallBusiness.** `role` is chosen at the start. The call server behind the
serial line is external: it sees every event and decides. `tick` is the timer
thread inside `Caller_Timer_Callback` or its twin: it reads the state, pushes a
message, then stops or retriggers the timer, with the task running in between.
`stray` is a ghost: the thread, late, stopped a timer that had been started for
a later call. `partner` is the other gateway's call, `link` what this one shows
when it is asked.

**Gateway.** `uart_message_process` and `udp_message_process` are tables from a
command to what each side does and relays. `net[p]` is a UDP port's queue in
order; the two ports are not ordered to each other. `want` remembers the last
command for each service on each side, `refused` what could not be opened,
`late` the relayed commands that were overtaken: all three are ghosts.

**SerialLine.** Two ways lead to the ring: `vdp_uart_send_data` puts frames in the
queue, whose task moves them on; `vdp_uart_send_data_once`, by which survey relays
`DATA_` commands and receipts, pushes into the ring itself (`direct` remembers which
frames did), and may overtake what is queued. A frame to send is `Pieces` pieces;
`line` is what the device took. A frame received is its bytes, because the parser
takes the length from one of them. Closing waits for the thread (`joining`).

**PlayList, AudioRing.** The reader keeps the buffer of `fread` with the old
characters behind the new ones, and puts back one character. The texts are
written by `Text` from a list of tunes, at every offset to the buffer; the
property compares with the list.

**Linphonec.** `procs` processes were started, `fd` is the one the program has,
`client_fd` the connection as the receiving thread knows it and `send_fd` as the
sending thread copied it. `got[p]` is what process `p` has read, each command
with the process it was `for`. `crashed` is set when a process ends by itself.

**LinphoneLink.** `todo[g][t]` is what thread `t` of gateway `g` still has to do,
a sequence of steps from the code of the handler; a start or stop of the
process takes more than a second, and the other thread may run meanwhile. Either
gateway may be asked for either role. `met` is a ghost, the gateways whose two
threads have both had something to do at a time.

Definitions called *seeded fault* in the modules' comments are not part of the
specification: each is a plausible bug, and replacing the definition after it by
the fault makes TLC report the property that `PROJECT.json` names beside it.

## Runs

| Run | Instance | Shows |
|---|---|---|
| `transport` | queue: 11 words; lengths 4, 7, 12; one tag. Slots: 2 tasks, 2 slots per array, 1 sequence number, peers' id 2, slots live two polls | `FifoRefinement`: the ring implements the steps of `FifoQueue`, and its links stay in the buffer. `FifoDelivers`: every message is delivered and discarded. `RefusesOnlyWhenTight`: a refusal means the free words are fewer than the message needs together with another like it or one of the queued. `SlotsExpire`: every slot is free again. 92,410 states. |
| `mcast_server` | 2 clients, 2 cameras, period 2, 2 entries, 1 request queued, 1 answer per CANCEL_REQ | `NoDuplicateSubscriber`, `ClosesOnlyWhenEmpty`, `EverySubscriptionEnds`, `StreamStops`. 402,006 states. |
| `udp_keys` | 2 tasks, 2 slots per array, 2 sequence numbers, peers' id 1, slots live one poll | `UniqueKeys`: an answer is never ambiguous. `OwnResponse`: a request that succeeds has its own answer in its buffer, as long as neither slot nor buffer was shared (`sole`). 1,535,584 states. |
| `video_display` | 3 frames of 1, 3 or 5 units in packets of 2; at most 2 packets to a frame accepted; 2 nodes; 2 packets in the socket; 2 starts; 1 frame decoded in the sleep of a close | `WholeFramesOnly`, `FramesInOrder`, `BuffersAccounted` (the semaphore counts the completed frames, no node is lost, and nobody reaches beyond the list or, but for the dec thread during a close, into a freed pool), `RunMeansReceiving`; `CloseReturns`: a close comes back, or it cancelled `recv` with the node lock held. 93,152 states. |
| `io_server` | 2 threads, 2 parameters of 2 values, 2 operations, 1 failure of the disk or the power, queue of 2, interval of 2 ticks | `OwnAnswer`, `ImageAgrees`: answers reach their requests, the picture is adjusted as the table says. `SavedMeansDurable`: with the flag clear a power failure loses nothing. `SavedUnlessLost`: what is written gets saved, although the timer's second unlock may undo its start. 916,844 states. |
| `video_client` | multicast: 2 servers, 3 sequence numbers, 1 loss or delay; link: 3 uses of any of 8 kinds, 1 loss; process: 3 processes, 2 calls, queue of 3, 1 ending by itself | `NeverStuckSubscribing`, `ActiveMeansReceiving`, `JoinedEnds`; `Agree`: the role the linker's state names is one that runs and is registered, and a camera's linphone that runs has a viewer that counts on it; `OwnProcess`: a process gets its own commands, and no send ends the program. 944,157 states. |
| `call` | queue of 2, 6 events; lists of up to 2 of 3 tunes, buffer of 3 | `ReleasedWhenOver`, `NoneWithoutTimer`, `CallsTimeOut`, `NobodyTalksAlone`; `RingsTheTune` (and that callers are told the right lengths and numbers). 221,614 states. |
| `lines` | 2 commands of 5 kinds and a stray one, 1 loss or failure; 3 frames of 2 pieces on either way, queue of 2, ring of 1, 1 error or damaged byte | `ServicesAgree`, `HeardInOrder`; `WholeFramesInOrder` (the order of each way), `OneFalseFramePerMishap`, `StopReturns`. 190,762 states. |
| `tables` | 3 offers for 2 resources, lists of 2, 4 messages, 1 failure; files of up to 4 of 7 lines, 4 requests, 1 failure | `TableOnDisk`, `RecordsHaveFiles`, `CrashLosesNothing`, `ModifiedIsSaved` (the file loads as the table in the end, also after a power failure, unless an append was lost or the gateway starts again); `ReadsWhatItSays`, `AnswersAreTrue`. 258,699 states. |
| `gateway_tra` | one command | **Violated**: `StartsOnly`. |
| `linphone_idle` | one use of any kind | **Violated**: `IdleGrants`. |
| `udp_answer` | 2 tasks, 1 slot per array, slots live one poll | **Violated**: `GetsItsData`. |

Every module's type invariant is part of a property checked here (`FifoRefinement`,
`SavedMeansDurable`, `TableOnDisk`, `HeardInOrder`, `WholeFramesInOrder`,
`OneFalseFramePerMishap`, `AnswersAreTrue`) or proved.

**Why the bounds are enough.**
*OSQ*: lengths of 1, 2 and 3 data words in 11 words leave a tail of none, one
(too small for the end mark) or more words (marked) at the end of the buffer,
with zero to five messages in it, before and after the wrap; the program's
queues differ only in size. There is room for a long and a short message on both
sides of the wrap, which is what a refusal depends on: with 7 words even "fewer
free words than twice the need" would hold. One tag is enough: the messages
differ in length, and one that overlapped another would have its link in the
other's data or the other's link in its own. The safety properties are proved for
any buffer.
*McastServer*: with two entries, an expired entry is replaced by the other or is
the last; one entry can expire while the other's owner is being answered;
`MaxSubs = 2` equals the number of clients, so the list fills. Period 2 lets an
entry be aged without expiring, which period 1 does not. A third client repeats
these positions, and the safety properties are proved for any number.
*UdpStack*: two callers and peers' id 1 give every collision of keys: the same
sequence number read twice, and a number equal to a peer's. Two slots allow the search to
find the wrong one, and with two callers make the arrays full: a slot outlives its
call. The number of polls in a slot's life only matters relative to a call's
progress, which is free anyway. The safety properties are proved for any numbers.
*VideoDisplay*: sizes 1, 3 and 5 give a frame of one packet, one of two with a
short last packet, and one refused by `CheckHead`. Three frames over two nodes
make the pool run out, and put an incomplete frame before a complete one. Two
starts allow one after a close, and one after a start that failed with the port
bound. At most one frame is decoded in the sleep of `DisableVideoDisplay`, with up to
two complete and one in hand, so that `recv` is cancelled at each of its places, in
its `printf` with the node lock held too; the code has 10 nodes and 100 ms. The
safety properties are proved for any pool and any sleep.
*IoServer*: two parameters tell a table that was partly read from a whole one,
two operations let an answer be late for the first and taken for the second;
an interval of two ticks has a timer that runs and does not expire.
*VideoClient*: three sequence numbers are a subscription, its end and the next
one, or the two servers of a proxy's answer; one mishap at any of them. The
safety properties are proved for any numbers; `JoinedEnds` was also checked with
one server and three mishaps, and with two servers and four.
*LinphoneLink*: three uses, of the eight that two gateways in two roles have: an
opening, a closing and another opening at either end and in either role, also at a
time. `StateIsTrue` is proved for any number.
*Linphonec*: three processes, so that a command of the first could reach the
second, and one that is pushed for the second the third. Proved for any number.
*CallBusiness*: 6 events of partner and call server are a call set up, answered,
ended, and the beginning of the next; a queue of 2 is full when a time-out and
an order wait in it. The safety properties are proved for any numbers.
*PlayList*: with a buffer of 3 and up to 2 blanks in front every token and the
end of the file meet the buffer's end in every way; two tunes are the one that
is looked for and one before or behind it.
*Gateway*: two commands are an old and a new one; a loss, a stray packet or a
device that does not open comes at any place. *SerialLine*: three frames of two
pieces are two in the queue and one that goes past it while the ring is empty or
full; one error cuts any of them, one damaged byte meets any. What goes out is
proved for any sizes and errors.
*ResourceTable*: a resource, its successor in another file, and the firmware;
four messages are two updates of one file, on either side of a power failure too,
or one of two files and its repetition. The safety properties are proved for any
number. *Upgrade*: four lines are the
least a file needs to name something to copy and to ask for the reboot, and
otherwise a section's key, an item and lines that end or spoil it; four
requests are a download, its checksum, the update and one more that comes while
the system is about to go down.
`Request`s of the environment and `MaxSn` are the only bounded supplies;
`send_id` is 16 bits wide in the code and is not wrapped here.

## Fairness

- `OSQ`: weak fairness of the consumer as a whole. A task never leaves its
  pop/process/purge loop. Nothing is asked of producers.
- `McastServer`: weak fairness of `mon`, the capture controller and the encoder
  start, which never wait for `proc` for ever. Strong fairness of `proc`: it may
  find the list lock taken, but `mon` releases it for 100 ms in every pass
  (`subscriber_list.c:27`), so a step of `proc` is enabled again and again.
  Clients need not do anything.
- `UdpStack`: weak fairness of the two threads that poll the arrays, each an
  endless loop with a timeout (`select`, `usleep`). Callers and network have none.
- `IoServer`: weak fairness of the timer thread, strong fairness of the server's
  task: it may find the lock of its timer taken, but the timer thread has it for a
  moment every 25 ms (`MulTimer`), so a step of the task is enabled again and again.
  `ResourceTable`: of the parameter server's task, the timer thread, survey while
  it is in an update, and of time (`Age`). `Upgrade`: safety only.
- `VideoClient`: weak fairness of both threads, of the server's cancelling of a
  client it has in its list (`McastServer` shows that its entries end), and of
  the arrival of what is under way. The user need not close anything.
- `CallBusiness`: weak fairness of the task and of the timer thread; none of the
  partner, the call server or the network.
- `Gateway`: weak fairness of delivery on both ports and of the threads that open
  their devices. It is used by no liveness property of its own.
- `SerialLine`: weak fairness of the queue's task and of the line's thread,
  strong fairness of the last piece of a frame: a device that fails now and then
  takes a whole frame in the end.
- `Linphonec`, `LinphoneLink`, `AudioRing`: safety only.
- `VideoDisplay`: weak fairness of the two threads and of the closing of the
  display. Nobody has to open or close it, and the camera may stop. The node
  lock is always taken by a thread that is not waiting for the other one, so
  weak fairness is enough.

## What the models take for granted

- The one second that `api_enable_video_server_multicast` and
  `api_disable_video_server_multicast` sleep is long enough for the capture
  controller to take the command and for the encoder to open its device or fail
  (`Settled`). Without it the bound of `TypeOK` on the queue does not hold.
- The gateway of `McastServer` only serves: `global_cs_state` is never
  VIDEO_CS_CLIENT and the linphone bridge is idle. `is_video_server_available`
  holds. `get_server_multicast_addr_port` succeeds.
- All requests of `UdpStack` have one command, so that ids alone are keys; in
  the program commands make collisions rarer, never different in kind.
- One packet received and the poll after it are one step of the receiving
  thread; the transmitting and processing queues, which drop on overflow, are
  part of the network.
- The network between camera and display loses packets, but keeps their order
  and repeats none: one Ethernet segment. With a repetition, `sem` would exceed
  the completed frames, and `PickPack` could run off the list.
- The decoder's devices take longer to open than `recv` takes to allocate the
  pool (`DecOpens`): nothing else orders `InitNode` before the first `ProcPack`.
- Testing and setting `VideoDisplayState` are two critical sections in the code
  and one step in `VideoDisplay`. The client's receiving thread and survey can
  both close the display; a second close that passes the test within those few
  instructions would join threads twice, and is not modelled.
- Every completed frame is decoded (the codec has had its key frame), and
  `pthread_create`, `socket` and `malloc` succeed. 16-bit frame numbers do not
  come round.
- `IoServer`: the only users of the server are the picture's loader and adjuster
  (`obj_adjust.c`), who name the debug unit as source. The file of default values
  is there, values in a file are in range, operations on one file reach the flash
  in order. The backup is written and never read, as in the code. Adjusting all
  values at a time (ADJ_ALL, ADJ_GET) is left out. Writes that keep coming
  postpone the save for ever: `MaxOps` bounds them.
- `ResourceTable`: an update is far shorter than the ten minutes after which
  changes are saved; no file belongs to two resources; the download directory
  survives a power failure. The firmware's own record is dropped at the next
  boot, because its file is always removed after unpacking.
- `VideoClient`: the display runs as soon as it is opened (`VideoDisplay` has what
  happens before); a server cancels only a client whose ENABLE was acknowledged;
  an ENABLE and a CANCEL_REQ are retried until they arrive. One thread uses the
  monitor. The local monitor and the client's request to adjust the picture are
  left out.
- `CallBusiness`: `main.c:81-82` does not start the two tasks at this commit, and
  the calls from survey to the command analyzer (`sys_msg_process.c:203,211`) are
  commented out: the parts are modelled as composed in the tree. The hop over
  serial line and survey is left out; a state notice is out as soon as it is sent.
- `Gateway`: one gateway's unit commands, the other's listens. Survey's queue,
  the online test and picture commands are left out. Every DATA_ command is
  carried out, and passed to the unit, twice.
- `LinphoneLink`: nothing calls `init_linphone_if_service` and
  `init_one_linphone_linker` at this commit. A handler ends before the request it
  answers times out; a user that is woken reads `msg` before the next request is
  dealt with; the video server is available; the missing third argument of
  `ip_camera_control.c:177` is any value.
- `SerialLine`: nothing calls `close_vdp_uart`; stopping is modelled as the code
  would do it. `AudioRing`: nothing in the tree calls the player; files of tunes
  end each line with a blank.
- `pthread` mutexes, condition variables and semaphores do what POSIX says.

## Proofs

`tlapm` checks the eight `_proofs` modules; the constants are arbitrary, under the
named assumptions of the modules (positive sizes, natural numbers as ids,
periods and bounds, `NoDev` not a camera, `Nobody` not a server, `Torn` not a
number, no file that belongs to two resources). Three theorems have an assumption
of their own, which their statements show: the two about `OSQ` (messages of 1 to 255
bytes) and `OnlyItsOwn` (a bound on the processes is a number).

**OSQ.** `RingBufferIsAFifo` is the refinement, `[]OsqTypeOK /\ Fifo!SafeSpec`, and
`OnlyATightBufferRefuses` the property of a refusal. The mapping walks the links
from `offFirst`; the invariant says that the walk makes sense without walking:
`Layout(f, k)` for some offsets `f` of the queued messages and a number `k`, those
from the first to the k-th lie one behind the other up to the wrap, those after
it from the start of the buffer, below the first and up to `offLast`; where the
wrap left a word or more, the mark is there. `LayoutReads`: there is only one such
`f`, and it is the walk (an induction over a bounded range, done through the
smallest place where the two would differ). So each branch of `OS_Q_Put` has to
show a layout of its own, and that it writes no word of a queued message, the one
in the consumer's hands included (`Held`). `LayoutCounts` bounds what the messages
take, from which follows what is free at a refusal. The hypothesis on the lengths
is the one `push_vdp_common_queue` breaks for 256 bytes: see
[Known weaknesses](#known-weaknesses).

The first form of `RefusesOnlyWhenTight`, *fewer free words than twice the need*,
could not be proved, and TLC then found it false, with 11 words: the unused tail
of an earlier wrap is not free before the message in front of it is gone, and it
may be as large as a message that is queued, not the one that is refused.

**UdpStack.** `IInv == TypeOK /\ CallsInOrder /\ UniqueKeys`.
`TypeCorrect`, `KeysAreUnique` and `ResponsesAreOwn`. Slots are found by
`CHOOSE` of the first free or first matching one, so the lemmas come first:
`FirstSlot` (every non-empty set of slots has a smallest, from the
well-foundedness of the strict subset ordering), `JoinReturns` and `MatchFound`
say what the searches return, `KeysKept` that a step that changes no key of an
enabled slot keeps keys unique. The interesting steps are the joins: uniqueness
does not depend on the sequence numbers being distinct, which they are not, but
on the refusal of an id that is already waiting. `CallsInOrder` is what types
alone do not give: where in its progress a call can have which semaphores.
`ResponsesAreOwn` needs in addition `SoleInv`: while a call's slot and buffer have been
its own, only that slot can have its buffer; in use, the slot waits for the call's id
and is not posted; posted, the answer in the buffer is the call's (`OwnSlot`). Without
`sole` the property is false, as the run `udp_answer` shows.

**McastServer.** `IInv` has seven named parts. `NoDuplicateSubscriber` is
inductive once the list is typed; `ClosesOnlyWhenEmpty` follows from
`EmptyWhenClosing`, *while either thread is between finding the list empty and
the close, the list is empty*. It is kept because only `proc` adds entries, only
when `mon` sleeps, and neither closes then: the lock that is held much longer
than anyone would like is what makes this true. `QueueInOrder` bounds the
controller's queue by the commands whose settling the threads still wait for.
`Removed` says what the swap-removal leaves.

**VideoDisplay.** `RunIsComplete` and `NoNodeIsLost`. `ThreadInv` is a table: for
each value of `VideoDisplayState`, and each place in the closing, where the two
threads are, what is cancelled, whether pool and port are there. The case that
makes it more than types is IDLE after a failed start: a `recv` task may be left,
waiting on a semaphore nobody posts, and the port bound, so that the next
start cannot reach START; without `~ bound => recv = "none"` the table is not
inductive. `NodesConserved` needs in addition `LockInv` (the lock is held exactly
while a node or a frame is in hand, or by a task cancelled there) and
`PoolInv`, its own statement with the types its arithmetic needs; the lemmas
`ProcPackConserves` and `PickPackConserves` say what the list operations do to
the count. It holds wherever `recv` is cancelled and however short the sleep.

`FramesAreWhole` and `FramesKeepOrder` follow one packet from the camera to the
decoder. `CameraInv` is what the camera has cut off so far, `OrderInv` that the
packets on their way keep the order they were cut in. `BuildInv` is about the
nodes: a node was fed packets of its own frame in order, all that is still to
come is of a later place, and the nodes stand in the order of their frames,
behind the one in hand. So a node that has counted all its packets has had each
once (`CompleteIsWhole`); that its buffer is right also takes that the first
packet it was given was the frame's first, which the count then implies.
`BuffersAreAccounted` is what the list, the pool and the semaphore come to. A packet
completes a frame at most once, because none comes for a completed one, so `sem` and
`full` follow the list wherever a close cuts `recv` off (`CountInv`), and nobody
follows the list beyond its end. Nor does anybody touch a pool that was freed, but
for the dec thread in state STOP: it may be waiting for the node lock with a packet
when the pool is freed and the lock destroyed. There is no assumption on the sleep.

**CallBusiness.** `Inv == TypeOK /\ ReleasedWhenOver /\ NoneWithoutTimer`, which
are inductive only together: what a step does depends on the message it takes,
which the types restrict to nine, and a call's end is looked for in the queue.
`Outcomes` splits what a message may come to into going on, hanging up, being
over and staying, and `ProcessKeeps` has a case for each; `TickKeeps` is the timer
thread between its reading, its push and its stop.

**VideoClient.** `NeverStuckSubscribing` is not inductive: the answer may be
handled while the user still sends. `Numbered` says that no message carries a
number of the future, so that an answer to the waiting request cannot have
come before it; `Settled`, that once its semaphore is posted, or the receiving
thread is past the test of the number, the state has left SUBSCRIBE. `Calling`
relates a call in progress to the server it is for, and `ClosedByOne` is needed
for the types of the display. The theorem holds for any set of servers and any
losses.

`ActiveClientReceives` has an invariant with a line for every place where the
user or `recv` stands with the display open and the state not yet, or no longer,
ACTIVE: `Together` (a subscription that returned OK has both, or `recv` is about to
give them), `ActiveIsOpen`, `OpenIsActive`, `LeavingIsIdle`, `GoneIsClosed`,
`AcceptedIsActive`, and `FailedIsNotOk` (a call that gave up does not say OK).
The attempt to prove it without a condition failed for a reason the code has:
`api_one_video_client_subscribe_req` sets IDLE after its time-out (lines 234,
243) while the receiving thread may be between accepting the answer and joining
the group (lines 122-137, 62-71). It then sets ACTIVE and opens the display for a
user who has given up. The ghost `overtaken` marks this: it is "now" while `recv`
carries out an answer the user has given up, until the user subscribes again,
and the property says nothing then. Afterwards it is "before"; the display so
opened, or one a server took from its list by an old DESUBSCRIBE_REQ, may
outlive its subscription: `JoinedEnds` leaves these out, `ActiveMeansReceiving`
does not.

**Linphonec.** While no process has ended by itself (`crashed`), `Sound`: one
process runs, and it is `fd`; what is in the queue is for it, with a quit only as
the last; the connection is its own, or the queue is empty. `OnlyItsOwn` states
both conjuncts of `OwnProcess`: own commands, and no send that ends the program.

**LinphoneLink.** `StateNamesWhatRuns`, for any uses of either gateway and any losses.
The invariant `LinkInv` is local to a gateway whose threads have not yet met
(`Gate`): one of the two at most has something to do, and for each place it can be at
- the user's from `AtEnd` to `AtCs` (`UserAt`), the answering thread's from `Leaves`
to `Replies` (`TaskAt`) - it says what `todo` still holds and how the state, the
process that runs and what is registered go together. They do not agree at each place
(`AtStart`: the state is to name a process that does not run yet), so `StateIsTrue`
itself is far from inductive. Nothing is needed of the other gateway. `CameraIsWatched`
relates the two and is model-checked only. What the proof uses of `todo` is what `\o`,
`Head` and `Tail` make of tuples of a few steps (`Concats`).

**Gateway.** Commands are numbered as they are given. `NetInv`: each port keeps the
numbers in order. `HeardInv`: the other unit has only been passed a command when
some port is past it, and the second copy of one on its way is on its way too, or
lost, or was heard; `CommandsAreHeardInOrder` follows. `ServicesFollow` needs for
each service `Done`: it is what it was told, or will be when its controller has
carried out its orders, or the request came to nothing. `HereInv` says so of the
last command the gateway's own unit gave for the service. `ThereInv` can say so
only once no copy of it is left on its way, and `WantInv` keeps the copies in
hand: a packet on its way is never newer than the last command, and each port
holds it, has lost it or is past it. The tables of commands are functions, and
`TheOtherHalf` and `UartIsClear` go through them once.

**IoServer.** `Inv == TypeOK /\ AtWork /\ Saved /\ Served`. `AtWork` is what thread
`io` works on at each of its places: the write it is about to answer is in the
table, and outside the start-up a save stands at the head of the queue, where no
push moves it. `Saved` is what the file and the disk hold at each place; between
the rename and the end of the write it says nothing of the file but that the
flag is set, which is why the flag may only be cleared after the write, and the
save of the start-up is excepted through `corrected`, as it is not synced.
`SavedIsDurable` is its line for "idle". `Served` holds while nothing has
disturbed the calls: one is going at a time, its request is the only one in the
queue among requests to save, or its answer the only one, and what it has read
or written so far (`Going`) is in the table. `AnswersAreOwn` and `PictureAgrees`
speak of the moment an answer is taken and of the moment after the last one.
Their hypothesis `~ disturbed` is not a convenience: `WaitForBusinessACK` compares
nothing but the type.

**ResourceTable.** `TableIsOnDisk`, `EveryRecordHasItsFile` and `ACrashLosesNothing`.
`Typed` says where the three threads can be, who owns the lock there, and what the
counts are at each place of a flush. `Saved` is what the counts promise: while no
record was changed, *every* snapshot a power failure may leave has all records but
the last `add`; at the end of a flush the file has them all, though not yet on the
disk. An append keeps this only if no resource has two records, neither in memory
nor in a file, and if those in the file are among the ones that were saved
(`Apart`): else what is read back after a crash could hold a record the memory
counts as new. `Filed` says which records may be without their file: the one
survey works on, those io has not verified yet, and those whose file could not be
moved in. Removing a file hurts no other record because it belongs to one resource
(`Genuine`), which needs the assumption on the offers. A crash is safe (`Safe`)
because survey moves files only while the table counts as modified and nobody can
save it in between (`Alone`), unless an update meets io at its start (`early`).

While this was proved, the effect of a cut in a table file was modelled anew: a
table is its whole records and how its last line ends, and what is appended behind a
torn line loses its first record or not, behind one that only lacks its line break
both that record and the first new one (`Behind`). `FrontIsStart` and `Joined` say that
what is then read has no record twice.

**SerialLine.** `FramesStayWhole`, whichever way the frames go. `LineOrder`: of the
frames of one way, queued or direct, what was pushed last is behind the queue, the
queue behind the ring, the ring behind the frame under way, and that one behind all
pieces on the line, whose last is what the thread counts as written (`Passed`); a
direct frame is never in the queue. `LineThread`: the thread leaves a frame for the
next one only when the last piece is out (`done = Pieces` at "pop"), so that the
only step that can cut a frame is `Fails`, which counts an error. The number of
frames that are cut is the size of a set; `Cuts` says what one more element does to it.

**Model-checked only.** What is liveness (`FifoDelivers`, `EverySubscriptionEnds`,
`StreamStops`, `SlotsExpire`, `CloseReturns`, `SavedUnlessLost`, `JoinedEnds`,
`CallsTimeOut`, `NobodyTalksAlone`, `StopReturns`, `ModifiedIsSaved`), and
`CameraIsWatched`. Induction over
data: `OneFalseFramePerMishap` (the parser is a fold over the bytes that came),
`RingsTheTune` and `ReadsWhatItSays` (recursive readers). `AnswersAreTrue` depends on
what the reader of `upgrade.ini` makes of the lines, selected by `SelectSeq`, and
stays with them.

## Findings

1. **A start that stops** (`gateway_tra`). `uart_udp_msg_process.c:287` says
   `case VIDEO_TRA_RUN: // 启动视频发送(编码)` (start sending video), and line 288
   calls `API_VIDEO_C_SERVICE_TURN_OFF_MULTICAST`: the relayed command switches
   the display of the gateway that gets it off. With data (`DATA_VIDEO_TRA_RUN`,
   lines 291-293) it is switched on.
2. **An idle camera refuses linphone** (`linphone_idle`). `linphone_linker.c:94`
   says that a gateway whose linphone is not started starts it as server and
   answers ok. `ip_camera_control.c:177` takes the 0 of
   `api_video_s_service_start_apply` (ok, by `ip_video_cs_control.c:111`) for a
   refusal: it answers DISABLE and is left in state SERVER without a linphone.
   It also passes two of three arguments.
3. **A request succeeds without its data** (`udp_answer`).
   `vtk_udp_stack_c5_ipc_cmd.c:126` says of `api_udp_c5_ipc_send_req` that it waits for
   the business answer and gets its data. Its slot lives 5000 ms from the join, in
   polls; it waits for the ACK first, up to 2000 ms, and then 5100 ms on the slot's
   semaphore (lines 135, 147). The slot may expire in between and be given to another
   request, whose answer posts that semaphore: the call returns 0, and its buffer
   holds what it held before.

## Known weaknesses

Modelled, and reachable with the bounds named; the properties are stated so that
they hold without them.

- **A message of 256 bytes becomes the wrap mark** (`OSQ` with a length of 256 in
  a buffer of 250 words). `push_vdp_common_queue` (`utility.c:69`) has an
  `unsigned char` length, and `vtk_udp_stack_c5_ipc_cmd.c:196-216` pushes up to
  20 + len bytes. A length of 256 is stored as 0, which `OS_Q_Purge` reads as the
  mark for the end of the buffer (`OSQ.c:173`).
- **Clients of two cameras in one list** (`McastServer`, bounds of the run).
  `ip_video_cs_control.c:130` matches the camera when a request comes; the client
  is registered after its answer was acknowledged. The monitor thread can empty
  the list and close the service in between; the next client then turns it on
  with another camera while the first is registered too.
- **A leave during the start is lost** (`VideoDisplay`). `video_process.c:410` says
  `DisableVideoDisplay` closes both threads; it does so only in state RUN.
- **The delay of a close guarantees nothing** (`VideoDisplay`, bounds of the run).
  `video_process.c:422` sleeps 100 ms so that the receiving thread sees the stop
  state, which that thread never reads. It is cancelled in the middle, at worst with
  the node lock held, which its own cleanup then waits for: the close never returns
  (the exception of `CloseReturns`). Otherwise the pool is freed and the lock
  destroyed while the dec thread may hold a packet (the exception of
  `BuffersAccounted`).
- **The timer thread stops the next call's timer** (`CallBusiness`, `stray`):
  `task_IpCaller.c:173` stops whatever timer runs after its push.
- **A single old copy undoes a command** (`Gateway`): nobody drops the second
  copy of a relayed command, so the condition of `ServicesAgree` that no copy was
  lost cannot be dropped.
- **A table cut by a power failure loses the next records** (`ResourceTable`,
  `damaged`): `obj_TableProcess.c:1012` appends behind whatever the file ends with. A
  record that lacks only its line break loads, and is lost with the first new one
  when something is appended.
- **An append that fails is taken for one that did not** (`ResourceTable`, `damaged`):
  `obj_ResourceTable.c:247` ignores the result and line 268 resets the counts. The
  added records are gone after the next start, unless a record is changed before.
- **A repeated update removes what it installed** (`ResourceTable`, `failed`):
  `utility.c:1857` removes the record's file, and the `mv` behind it then fails.
- **The answer after a reboot can go missing, or be false** (`Upgrade`, `emptied`,
  `doubtful`): a version request that comes while the system goes down removes the
  note it would be given from. A refused reboot leaves a note that is taken for the
  next update's. Nothing is synced between the copying of the files and the note: a
  power failure may keep the note and lose a file.
- **Direct frames overtake queued ones** (`SerialLine`, `direct`): of two commands, one
  queued and one that survey relays past the queue, the unit may see the second first.
- **A gateway that changes its linphone's role leaves things behind** (`LinphoneLink`,
  one use after the other). TLC refuted three stronger statements with the run's uses:
  that a gateway whose state is idle has no process (`api_linphone_client_beclosed`
  stops only the process of the state), that a viewer that counts on a camera has one
  running, and that the states of the two gateways pair. `Agree` is what is left.
- **Two threads of a gateway in its linphone at a time** (`LinphoneLink`, `met`), and
  commands of a process that ended by itself (`Linphonec`, `crashed`), which wait for
  the next.
- **The callback stops a timer that was just started** (`IoServer`, `orphan`): it sees no
  unsaved write, one is made and starts the timer, and the callback stops it. The
  write is saved with the next one only. `SavedUnlessLost` excepts exactly this.
- **A user gives up a subscription just as it is granted** (`VideoClient`, `overtaken`):
  the receiving thread then opens the display of a user who has gone.
  `ActiveMeansReceiving` is silent while that is being carried out.

Further, without a statement in the code that they contradict: the two kinds of
`fault` in `UdpStack` (waiting on `(sem_t*)-1`, copying a late response into the
stack frame of a call that timed out), a service left on by an unacknowledged
answer, a full list that is found only after the client was told ENABLE, a pool
of nodes that all hold incomplete frames, after which nothing is received any
more, and a late CANCEL_RSP that unregisters a client that has subscribed again.

## Plan

Done: `FifoQueue` and `OSQ`; `McastServer`; `UdpStack`; `VideoPackets` and
`VideoDisplay`; `VideoClient`; `IoServer` with `MulTimer`; `ResourceTable`;
`Upgrade`; `CallBusiness`; `Gateway`; `SerialLine`; `PlayList` and `AudioRing`;
`LinphoneLink` and `Linphonec`; the proofs about twelve of them.

Left, most important first:

1. A composition of `McastServer` and `VideoClient`: what a client believes against
   what is in the list, with both periods.
2. Two parties of `CallBusiness` in one instance, each the other's partner.
3. Survey's queue between the receiving threads and its handlers: it only delays
   what `Gateway` and `ResourceTable` do at once, but its notices carry no session
   (`sys_msg_process.c:522`).

## Not modelled

`PROJECT.json` lists every part with its reason.

- *Signal processing and devices*: ALSA, G.711/G.722, H.264, V4L, rate control, the
  display's devices. They keep no state of the protocols; where opening one may
  fail, the failure is a step of the module that opens it.
- *Network management*: `main.c:88` does not start it at this commit, and nothing
  else uses its lists. *Debugging and logging*: no state the rest depends on.
- *In the modelled parts*: start-up of threads and sockets, the second UDP
  instance (same code, no responses), the instances for update and remote
  parameters, the proxy answer of the multicast server (dead code behind
  `if( 1 )`), the display controller's queue (behind `#if 0`), call types without
  a body, redialling, transfer, unlocking, resetting parameters to factory values,
  the characters of csv files, `OSEvenT.c`.
