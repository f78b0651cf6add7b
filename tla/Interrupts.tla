----------------------------- MODULE Interrupts -----------------------------
(***************************************************************************)
(* Simulated time and the pending interrupts (interrupt.cpp), with the     *)
(* timer and the alarm (timer.cpp, alarm.cpp, alarmCallBack in main.cpp)   *)
(* that share them with other devices.  The module Scheduler takes the     *)
(* interrupts that are due as a free choice; here is what makes the        *)
(* choice.  Kernel code that starts a device, or that enables and disables *)
(* interrupts, may run at any time.                                        *)
(***************************************************************************)
EXTENDS Integers, Sequences, FiniteSets, SequencesExt

CONSTANTS Timer,
          Devices,         \* the other devices
          Delay,           \* Delay[d]: the ticks d asks for (stats.h)
          TimerDelays,     \* TimerTicks, or what the random timer may draw
          SystemTick, UserTick,
          MaxTicks         \* a bound on simulated time

ASSUME InterruptAssumption ==
  /\ Timer \notin Devices
  /\ Delay \in [Devices -> Nat \ {0}]
  /\ TimerDelays \subseteq Nat \ {0}
  /\ UserTick \in Nat \ {0} /\ SystemTick \in Nat \ {0} /\ UserTick <= SystemTick

VARIABLES
  totalTicks,
  pending,         \* Interrupt::pending, of [device, when]
  intCount,        \* of the interrupts pending, by device
  intLevel,        \* Interrupt::level
  status,          \* "System", "User", "Idle"
  inHandler, yieldOnReturn,
  checking,        \* "no", or who is in CheckIfDue: "OneTick", "Idle"
  fired            \* history: the time the last interrupt was for, and its delay

intVars == <<totalTicks, pending, intCount, intLevel, status, inHandler, yieldOnReturn,
             checking, fired>>

Kinds == Devices \cup {Timer}

IsPending(d) == \E i \in 1..Len(pending) : pending[i].device = d

Due(now, list) == list # <<>> /\ Head(list).when <= now

\* Mutation: an interrupt for the same time goes first.
InsertBeforeEqual(e, list) ==
  LET n == Cardinality({i \in 1..Len(list) : list[i].when < e.when})
  IN InsertAt(list, n + 1, e)

\* SortedList::Insert with PendingCompare: before the first that is later.
Insert(e, list) ==
  LET n == Cardinality({i \in 1..Len(list) : list[i].when <= e.when})
  IN InsertAt(list, n + 1, e)

InterruptInit ==
  /\ totalTicks = 0
  /\ \E delay \in TimerDelays : pending = <<[device |-> Timer, when |-> delay]>>
  /\ intCount = [d \in Kinds |-> IF d = Timer THEN 1 ELSE 0]
  /\ intLevel = "off" /\ status = "System"
  /\ inHandler = FALSE /\ yieldOnReturn = FALSE
  /\ checking = "no"
  /\ fired = [when |-> 0, late |-> 0]

-----------------------------------------------------------------------------

Kernel == checking = "no" /\ status = "System"

\* Schedule, called by a device that the kernel has started; each has one
\* interrupt pending at most.
Schedule(d) ==
  /\ Kernel
  /\ ~IsPending(d)
  /\ pending' = Insert([device |-> d, when |-> totalTicks + Delay[d]], pending)
  /\ intCount' = [intCount EXCEPT ![d] = @ + 1]
  /\ UNCHANGED <<totalTicks, intLevel, status, inHandler, yieldOnReturn, checking, fired>>

Disable ==
  /\ Kernel /\ intLevel = "on"
  /\ intLevel' = "off"
  /\ UNCHANGED <<totalTicks, pending, intCount, status, inHandler, yieldOnReturn, checking, fired>>

\* OneTick, up to the first handler.
OneTick(tick) ==
  /\ totalTicks + tick <= MaxTicks
  /\ totalTicks' = totalTicks + tick
  /\ intLevel' = "off"
  /\ checking' = "OneTick"
  /\ inHandler' = Due(totalTicks', pending)
  /\ UNCHANGED <<pending, intCount, status, yieldOnReturn, fired>>

\* SetLevel(IntOn) from IntOff.
Enable == Kernel /\ intLevel = "off" /\ OneTick(SystemTick)

\* A user instruction, in Machine::Run.
UserInstruction == checking = "no" /\ status = "User" /\ OneTick(UserTick)

\* Machine::Run begins, and RaiseException leaves user mode and comes back.
EnterUser ==
  /\ Kernel /\ intLevel = "on"
  /\ status' = "User"
  /\ UNCHANGED <<totalTicks, pending, intCount, intLevel, inHandler, yieldOnReturn, checking, fired>>

Trap ==
  /\ checking = "no" /\ status = "User"
  /\ status' = "System"
  /\ UNCHANGED <<totalTicks, pending, intCount, intLevel, inHandler, yieldOnReturn, checking, fired>>

\* Idle, called with interrupts off: the clock jumps to the next interrupt.
Idle ==
  /\ Kernel /\ intLevel = "off" /\ pending # <<>>
  /\ status' = "Idle"
  /\ LET next == Head(pending).when
     IN /\ next <= MaxTicks
        /\ totalTicks' = IF next > totalTicks THEN next ELSE totalTicks
  /\ checking' = "Idle" /\ inHandler' = TRUE
  /\ UNCHANGED <<pending, intCount, intLevel, yieldOnReturn, fired>>

\* What the handler of d leaves pending: the timer arms itself again and, unless
\* idle, asks for a yield; a device that polls does the former, if it likes.
CallBack(d, rest) ==
  IF d = Timer
  THEN /\ \E delay \in TimerDelays :
            pending' = Insert([device |-> Timer, when |-> totalTicks + delay], rest)
       /\ yieldOnReturn' = IF status = "Idle" THEN yieldOnReturn ELSE TRUE
       /\ UNCHANGED intCount
  ELSE /\ \/ /\ pending' = Insert([device |-> d, when |-> totalTicks + Delay[d]], rest)
             /\ UNCHANGED intCount
          \/ /\ pending' = rest
             /\ intCount' = [intCount EXCEPT ![d] = @ - 1]
       /\ UNCHANGED yieldOnReturn

\* Mutation: one interrupt per check.
FireFirst ==
  /\ inHandler
  /\ LET next == Head(pending)
     IN /\ fired' = [when |-> next.when, late |-> totalTicks - next.when]
        /\ CallBack(next.device, Tail(pending))
  /\ inHandler' = FALSE
  /\ UNCHANGED <<totalTicks, intLevel, status, checking>>

\* One turn of the loop in CheckIfDue.
Fire ==
  /\ inHandler
  /\ LET next == Head(pending)
     IN /\ fired' = [when |-> next.when, late |-> totalTicks - next.when]
        /\ CallBack(next.device, Tail(pending))
  /\ inHandler' = Due(totalTicks, pending')
  /\ UNCHANGED <<totalTicks, intLevel, status, checking>>

\* The end of OneTick; yield itself is in Scheduler.
EndTick ==
  /\ checking = "OneTick" /\ ~inHandler
  /\ intLevel' = "on" /\ checking' = "no" /\ yieldOnReturn' = FALSE
  /\ UNCHANGED <<totalTicks, pending, intCount, status, inHandler, fired>>

EndIdle ==
  /\ checking = "Idle" /\ ~inHandler
  /\ status' = "System" /\ checking' = "no"
  /\ UNCHANGED <<totalTicks, pending, intCount, intLevel, inHandler, yieldOnReturn, fired>>

InterruptNext ==
  \/ \E d \in Devices : Schedule(d)
  \/ Disable \/ Enable \/ UserInstruction \/ EnterUser \/ Trap \/ Idle
  \/ Fire \/ EndTick \/ EndIdle

InterruptSpec == InterruptInit /\ [][InterruptNext]_intVars

-----------------------------------------------------------------------------
(***************************************************************************)
(* Properties.                                                             *)
(***************************************************************************)

\* Although time moves only in OneTick and Idle and handlers start devices again,
\* no interrupt comes early, none comes a whole tick late, none that is due is
\* left when kernel or user code goes on, and the interrupts of one device never
\* pile up.  The timer is armed whenever no handler runs, so that the machine
\* never idles with nothing pending (the Halt in Idle is out of reach), and a time
\* slice is asked for only where OneTick will grant it at once, never from Idle
\* for a thread that happens to run later.
ClockExact ==
  /\ fired.late \in 0 .. SystemTick - 1
  /\ checking = "no" => \A i \in 1..Len(pending) : pending[i].when > totalTicks
  /\ \A d \in Kinds : Cardinality({i \in 1..Len(pending) : pending[i].device = d}) = intCount[d]
  /\ \A d \in Kinds : intCount[d] <= 1
  /\ IsPending(Timer)
  /\ yieldOnReturn => checking = "OneTick"

\* Interrupts come in the order of their times, and of two for the same time the
\* one that was scheduled first comes first: no step puts one before another that
\* is already pending for that time or an earlier one.
InScheduledOrder ==
  [][/\ fired'.when >= fired.when
     /\ \A i \in 1..Len(pending'), j \in 1..Len(pending') :
          i < j /\ (\E k \in 1..Len(pending) : pending[k] = pending'[j])
                /\ (\A k \in 1..Len(pending) : pending[k] # pending'[i])
            => pending'[i].when < pending'[j].when]_intVars
=============================================================================
