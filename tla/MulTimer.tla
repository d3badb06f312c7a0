----------------------------- MODULE MulTimer -----------------------------
(***************************************************************************)
(* The gateway's timers (os/mul_timer.c behind os/OSTIME.c): one thread    *)
(* wakes up every 25 ms and walks an array of timers.  A timer that has    *)
(* counted its interval is stopped, unlocked and only then calls back, so  *)
(* its owner may stop or restart it between the expiry and the callback.   *)
(* A timer that runs on is unlocked twice (:156, :160).  The second time   *)
(* takes the lock from a thread that got it in between, and from then on   *)
(* two may be behind it: whoever takes the lock reads, or decides what to  *)
(* write, and writes a step later.  The module that EXTENDS this one says  *)
(* what the callbacks do.                                                  *)
(***************************************************************************)
EXTENDS Integers

CONSTANT TimerCnt     \* timers in the array

ASSUME TimerCntAssumption == TimerCnt \in Nat \ {0}

VARIABLES
  timer,   \* timer_handle[i]: [state, counter, interval, locked]
  tick     \* the timer thread: [at, i, seen], i the timer it looks at,
           \* seen the counter it has loaded

timerVars == <<timer, tick>>

TimerTypeOK == /\ timer \in [1 .. TimerCnt -> [state : BOOLEAN, counter : Nat,
                                               interval : Nat \ {0}, locked : BOOLEAN]]
               /\ tick.i \in 1 .. TimerCnt /\ tick.seen \in Nat

(* The thread waits for SIGALRM before timer 1; as a step may take any     *)
(* time, the wait is no point of its own.                                  *)
At(at, i)       == [at |-> at, i |-> i, seen |-> 0]
TickWaits       == At("scan", 1)
init_mul_timer  == tick = TickWaits
TickGoes(at, i) == tick' = IF i > TimerCnt THEN TickWaits ELSE At(at, i)

add_a_timer(interval) ==
    [state |-> FALSE, counter |-> 0, interval |-> interval, locked |-> FALSE]

(* An unlock frees the lock, whoever has it.                               *)
Lock(i)   == ~ timer[i].locked /\ timer' = [timer EXCEPT ![i].locked = TRUE]
Unlock(i) == timer' = [timer EXCEPT ![i].locked = FALSE]

(* OS_RetriggerTimer and OS_StartTimer; OS_StopTimer: what a thread that   *)
(* took the lock does in its next step.                                    *)
start_a_timer(i) ==
    timer' = [timer EXCEPT ![i].counter = 0, ![i].state = TRUE, ![i].locked = FALSE]
stop_a_timer(i) ==
    timer' = [timer EXCEPT ![i].counter = 0, ![i].state = FALSE, ![i].locked = FALSE]

(* The thread looks at a timer, behind its lock or what it takes for it.   *)
Look(i) ==
    /\ tick.at = "scan"
    /\ Lock(i)
    /\ tick' = IF ~ timer[i].state THEN At("unlock", i)
               ELSE IF timer[i].counter + 1 < timer[i].interval
               THEN [at |-> "count", i |-> i, seen |-> timer[i].counter]
               ELSE At("expire", i)

Count(i) == /\ tick.at = "count"
            /\ timer' = [timer EXCEPT ![i].counter = tick.seen + 1, ![i].locked = FALSE]
            /\ TickGoes("unlock", i)

(* The timer stops itself before its callback runs.                        *)
Expire(i) == /\ tick.at = "expire"
             /\ stop_a_timer(i)
             /\ TickGoes("callback", i)

(* For a timer that counted the second unlock, for one at rest the first.  *)
Unlocks(i) == /\ tick.at = "unlock"
              /\ Unlock(i)
              /\ TickGoes("scan", i + 1)

signal_func == Look(tick.i) \/ Count(tick.i) \/ Expire(tick.i) \/ Unlocks(tick.i)

(* The callback of timer i is over.                                        *)
CallbackReturns == TickGoes("scan", tick.i + 1)
=============================================================================
