----------------------------- MODULE Scheduler -----------------------------
(***************************************************************************)
(* The thread package of the kernel: thread.cpp (Fork, yield, Ssleep,      *)
(* Begin, Finish), scheduler.cpp (the ready list, Run, the carcass that    *)
(* the next thread deletes) and the part of the simulated interrupt        *)
(* hardware that threads depend on, interrupt.cpp (SetLevel, OneTick,      *)
(* Idle).  There is one CPU: kernel code runs without interleaving while   *)
(* interrupts are off, and loses the CPU only where it calls Ssleep or     *)
(* where OneTick finds yieldOnReturn set.  An action is a stretch of code  *)
(* between two such points, and belongs to currentThread.                  *)
(*                                                                         *)
(* Time is left out: which interrupts are due when a tick looks, and       *)
(* whether the timer is one of them, is a free choice.                     *)
(***************************************************************************)
EXTENDS Integers, Sequences

CONSTANTS Threads,    \* every thread the kernel will ever create
          Main,       \* the thread that is running when the kernel boots
          NoThread    \* the NULL pointer

ASSUME ThreadAssumption == /\ Main \in Threads
                           /\ NoThread \notin Threads

VARIABLES
  currentThread,  \* kernel->currentThread
  readyList,      \* Scheduler::readyList, first to run at the head
  toBeDestroyed,  \* Scheduler::toBeDestroyed
  status,         \* Thread::status; "DELETED" once the object is freed
  at,             \* where each thread is, or will be when it next gets the CPU
  level,          \* Interrupt::level
  oldLevel,       \* the local variable oldLevel of the routine a thread is in
  mode            \* Interrupt::status; user mode counts as SystemMode

schedVars == <<currentThread, readyList, toBeDestroyed, status, at,
               level, oldLevel, mode>>

Levels == {"IntOff", "IntOn"}
Statuses == {"JUST_CREATED", "READY", "RUNNING", "BLOCKED", "DELETED"}

(***************************************************************************)
(* "run":        the thread executes its own code;                         *)
(* "ThreadRoot": forked, its first instruction will be in ThreadRoot;      *)
(* "Ssleep":     in Ssleep(FALSE), "Finish": in Ssleep(TRUE);              *)
(* "woken":      back from Ssleep(FALSE) in its caller, interrupts off;    *)
(* "yield":      in yield, having given the CPU away;                      *)
(* "SetLevel":   about to end a critical section with setLevel(oldLevel);  *)
(* "OneTick":    in OneTick, where due interrupt handlers run.             *)
(***************************************************************************)
Places == {"new", "run", "ThreadRoot", "Ssleep", "Finish", "woken", "yield",
           "SetLevel", "OneTick"}

-----------------------------------------------------------------------------

\* Kernel::Initialize runs in main with interrupts off.
SchedInit ==
  /\ currentThread = Main
  /\ readyList = <<>>
  /\ toBeDestroyed = NoThread
  /\ status = [t \in Threads |-> IF t = Main THEN "RUNNING" ELSE "JUST_CREATED"]
  /\ at = [t \in Threads |-> IF t = Main THEN "run" ELSE "new"]
  /\ level = "IntOff"
  /\ oldLevel = [t \in Threads |-> "IntOff"]
  /\ mode = "SystemMode"

(***************************************************************************)
(* Pieces of actions.                                                      *)
(***************************************************************************)
InList(list, t) == \E i \in 1..Len(list) : list[i] = t

NoDuplicate(list) == \A i, j \in 1..Len(list) : list[i] = list[j] => i = j

\* Mutation: new arrivals go to the head of the list.
InsertAtHead(list, t) == IF InList(list, t) THEN list ELSE <<t>> \o list

\* SortedList::Insert with a comparison that always says "equal": at the end,
\* and a second insertion of the same item is dropped.
Insert(list, t) == IF InList(list, t) THEN list ELSE Append(list, t)

\* The thread that owns the CPU and is not looking for a successor.
Running(t) == t = currentThread /\ status[t] = "RUNNING"

\* The current thread is in the loop of Ssleep.
Leaving(t) == /\ t = currentThread
              /\ at[t] \in {"Ssleep", "Finish"}
              /\ status[t] # "RUNNING"

\* Interrupt handlers run inside OneTick and inside Idle.
InHandler == at[currentThread] = "OneTick" \/ mode = "IdleMode"

\* Threads asleep in Ssleep(FALSE), which somebody has to wake.
Asleep(t) == at[t] = "Ssleep" /\ status[t] = "BLOCKED"

\* Nothing has been forked and interrupts have never been enabled.
Booting == level = "IntOff" /\ \A t \in Threads \ {Main} : at[t] = "new"

\* oldLevel = setLevel(IntOff), at the head of a critical section.
DisableInterrupts(t) ==
  /\ oldLevel' = [oldLevel EXCEPT ![t] = level]
  /\ level' = "IntOff"

CheckToBeDestroyed ==
  /\ status' = [t \in Threads |->
                  IF t = toBeDestroyed THEN "DELETED" ELSE status[t]]
  /\ toBeDestroyed' = NoThread

-----------------------------------------------------------------------------
(***************************************************************************)
(* Steps of the thread that runs its own code.                             *)
(***************************************************************************)

\* A critical section that changes no thread's state.
CriticalSection(t) ==
  /\ Running(t) /\ at[t] = "run"
  /\ DisableInterrupts(t)
  /\ at' = [at EXCEPT ![t] = "SetLevel"]
  /\ UNCHANGED <<currentThread, readyList, toBeDestroyed, status, mode>>

\* Thread::Fork of a new thread c.
Fork(t, c) ==
  /\ Running(t) /\ at[t] = "run"
  /\ at[c] = "new"
  /\ DisableInterrupts(t)
  /\ readyList' = Insert(readyList, c)
  /\ status' = [status EXCEPT ![c] = "READY"]
  /\ at' = [at EXCEPT ![t] = "SetLevel", ![c] = "ThreadRoot"]
  /\ UNCHANGED <<currentThread, toBeDestroyed, mode>>

\* A critical section that hands a sleeping thread to ReadyToRun.
Wake(t, w) ==
  /\ Running(t) /\ at[t] = "run"
  /\ Asleep(w)
  /\ DisableInterrupts(t)
  /\ readyList' = Insert(readyList, w)
  /\ status' = [status EXCEPT ![w] = "READY"]
  /\ at' = [at EXCEPT ![t] = "SetLevel"]
  /\ UNCHANGED <<currentThread, toBeDestroyed, mode>>

\* Thread::Ssleep(FALSE), from a critical section just begun.
Sleep(t) ==
  /\ Running(t) /\ at[t] = "run"
  /\ level = "IntOn" \/ Booting
  /\ DisableInterrupts(t)
  /\ status' = [status EXCEPT ![t] = "BLOCKED"]
  /\ at' = [at EXCEPT ![t] = "Ssleep"]
  /\ UNCHANGED <<currentThread, readyList, toBeDestroyed, mode>>

\* Ssleep(FALSE) again, from a loop around it.
SleepAgain(t) ==
  /\ Running(t) /\ at[t] = "woken"
  /\ status' = [status EXCEPT ![t] = "BLOCKED"]
  /\ at' = [at EXCEPT ![t] = "Ssleep"]
  /\ UNCHANGED <<currentThread, readyList, toBeDestroyed, level, oldLevel, mode>>

\* The rest of a critical section that slept.
LeaveAfterSleep(t) ==
  /\ Running(t) /\ at[t] = "woken"
  /\ at' = [at EXCEPT ![t] = "SetLevel"]
  /\ UNCHANGED <<currentThread, readyList, toBeDestroyed, status, level,
                 oldLevel, mode>>

\* Mutation: Finish forgets to disable interrupts.
FinishEnabled(t) ==
  /\ Running(t) /\ at[t] = "run" /\ level = "IntOn"
  /\ status' = [status EXCEPT ![t] = "BLOCKED"]
  /\ at' = [at EXCEPT ![t] = "Finish"]
  /\ UNCHANGED <<currentThread, readyList, toBeDestroyed, level, oldLevel, mode>>

\* Thread::Finish, up to the loop of Ssleep(TRUE).
Finish(t) ==
  /\ Running(t) /\ at[t] = "run" /\ level = "IntOn"
  /\ level' = "IntOff"
  /\ status' = [status EXCEPT ![t] = "BLOCKED"]
  /\ at' = [at EXCEPT ![t] = "Finish"]
  /\ UNCHANGED <<currentThread, readyList, toBeDestroyed, oldLevel, mode>>

\* Mutation: yield readies the thread that yields in front of the others.
YieldToFront(t) ==
  IF readyList = <<>>
  THEN /\ at' = [at EXCEPT ![t] = "SetLevel"]
       /\ UNCHANGED <<currentThread, readyList, status>>
  ELSE /\ at' = [at EXCEPT ![t] = "yield"]
       /\ currentThread' = Head(readyList)
       /\ status' = [status EXCEPT ![t] = "READY", ![Head(readyList)] = "RUNNING"]
       /\ readyList' = <<t>> \o Tail(readyList)

\* Thread::yield once interrupts are off and oldLevel is saved.
YieldCPU(t) ==
  IF readyList = <<>>
  THEN /\ at' = [at EXCEPT ![t] = "SetLevel"]
       /\ UNCHANGED <<currentThread, readyList, status>>
  ELSE /\ at' = [at EXCEPT ![t] = "yield"]
       /\ currentThread' = Head(readyList)
       /\ status' = [status EXCEPT ![t] = "READY", ![Head(readyList)] = "RUNNING"]
       /\ readyList' = Insert(Tail(readyList), t)

Yield(t) ==
  /\ Running(t) /\ at[t] = "run" /\ level = "IntOn"
  /\ DisableInterrupts(t)
  /\ YieldCPU(t)
  /\ UNCHANGED <<toBeDestroyed, mode>>

\* interrupt->Enable(), once, at the end of the boot.
Enable(t) ==
  /\ Running(t) /\ at[t] = "run" /\ level = "IntOff"
  /\ oldLevel' = [oldLevel EXCEPT ![t] = "IntOn"]
  /\ at' = [at EXCEPT ![t] = "SetLevel"]
  /\ UNCHANGED <<currentThread, readyList, toBeDestroyed, status, level, mode>>

\* A user instruction ends with a tick.
UserTick(t) ==
  /\ Running(t) /\ at[t] = "run" /\ level = "IntOn"
  /\ level' = "IntOff"
  /\ at' = [at EXCEPT ![t] = "OneTick"]
  /\ UNCHANGED <<currentThread, readyList, toBeDestroyed, status, oldLevel, mode>>

-----------------------------------------------------------------------------
(***************************************************************************)
(* Interrupts back on: SetLevel and OneTick.                               *)
(***************************************************************************)

\* setLevel(oldLevel): a step from off to on is a tick.
SetLevel(t) ==
  /\ Running(t) /\ at[t] = "SetLevel"
  /\ at' = [at EXCEPT ![t] = IF oldLevel[t] = "IntOn" THEN "OneTick" ELSE "run"]
  /\ UNCHANGED <<currentThread, readyList, toBeDestroyed, status, level,
                 oldLevel, mode>>

\* An interrupt handler wakes a thread.
HandlerWake(w) ==
  /\ InHandler
  /\ Asleep(w)
  /\ readyList' = Insert(readyList, w)
  /\ status' = [status EXCEPT ![w] = "READY"]
  /\ UNCHANGED <<currentThread, toBeDestroyed, at, level, oldLevel, mode>>

\* The handlers are done and the timer was not among them.
TickReturn(t) ==
  /\ Running(t) /\ at[t] = "OneTick"
  /\ level' = "IntOn"
  /\ at' = [at EXCEPT ![t] = "run"]
  /\ UNCHANGED <<currentThread, readyList, toBeDestroyed, status, oldLevel, mode>>

\* The timer's handler asked for yieldOnReturn.
TickYield(t) ==
  /\ Running(t) /\ at[t] = "OneTick"
  /\ oldLevel' = [oldLevel EXCEPT ![t] = "IntOn"]
  /\ YieldCPU(t)
  /\ UNCHANGED <<toBeDestroyed, level, mode>>

-----------------------------------------------------------------------------
(***************************************************************************)
(* The CPU changes hands.                                                  *)
(***************************************************************************)

\* Mutation: FindNextToRun looks at the front without removing it.
DispatchFront(t) ==
  /\ Leaving(t) /\ mode = "SystemMode"
  /\ readyList # <<>>
  /\ toBeDestroyed' = IF at[t] = "Finish" THEN t ELSE toBeDestroyed
  /\ currentThread' = Head(readyList)
  /\ status' = [status EXCEPT ![Head(readyList)] = "RUNNING"]
  /\ UNCHANGED <<readyList, at, level, oldLevel, mode>>

\* Ssleep found a thread and Run switches to it: t itself, perhaps.
Dispatch(t) ==
  /\ Leaving(t) /\ mode = "SystemMode"
  /\ readyList # <<>>
  /\ toBeDestroyed' = IF at[t] = "Finish" THEN t ELSE toBeDestroyed
  /\ currentThread' = Head(readyList)
  /\ status' = [status EXCEPT ![Head(readyList)] = "RUNNING"]
  /\ readyList' = Tail(readyList)
  /\ UNCHANGED <<at, level, oldLevel, mode>>

\* Ssleep found nobody: Interrupt::Idle moves the clock to the next interrupt.
\* The timer is always pending, so that Idle never comes to halt the machine.
Idle(t) ==
  /\ Leaving(t) /\ mode = "SystemMode"
  /\ readyList = <<>>
  /\ mode' = "IdleMode"
  /\ UNCHANGED <<currentThread, readyList, toBeDestroyed, status, at, level, oldLevel>>

IdleReturn ==
  /\ mode = "IdleMode"
  /\ mode' = "SystemMode"
  /\ UNCHANGED <<currentThread, readyList, toBeDestroyed, status, at, level, oldLevel>>

\* Mutation: a new thread does not look for a carcass.
BeginBlind(t) ==
  /\ Running(t) /\ at[t] = "ThreadRoot"
  /\ oldLevel' = [oldLevel EXCEPT ![t] = "IntOn"]
  /\ at' = [at EXCEPT ![t] = "SetLevel"]
  /\ UNCHANGED <<currentThread, readyList, toBeDestroyed, status, level, mode>>

\* SWITCH landed in a thread for the first time: ThreadRoot calls Begin.
Begin(t) ==
  /\ Running(t) /\ at[t] = "ThreadRoot"
  /\ CheckToBeDestroyed
  /\ oldLevel' = [oldLevel EXCEPT ![t] = "IntOn"]
  /\ at' = [at EXCEPT ![t] = "SetLevel"]
  /\ UNCHANGED <<currentThread, readyList, level, mode>>

\* SWITCH came back in a thread that had called Run itself.
Resume(t) ==
  /\ Running(t) /\ at[t] \in {"Ssleep", "yield"}
  /\ CheckToBeDestroyed
  /\ at' = [at EXCEPT ![t] = IF @ = "Ssleep" THEN "woken" ELSE "SetLevel"]
  /\ UNCHANGED <<currentThread, readyList, level, oldLevel, mode>>

-----------------------------------------------------------------------------

\* The steps of the kernel that no caller decides about.
CpuStep(t) ==
  \/ SetLevel(t) \/ TickReturn(t) \/ TickYield(t)
  \/ Dispatch(t) \/ Idle(t) \/ Begin(t) \/ Resume(t)

SchedNext ==
  \/ \E t \in Threads : \/ CriticalSection(t) \/ Sleep(t) \/ SleepAgain(t)
                        \/ LeaveAfterSleep(t) \/ Finish(t) \/ Yield(t)
                        \/ Enable(t) \/ UserTick(t) \/ CpuStep(t)
  \/ \E t, u \in Threads : Fork(t, u) \/ Wake(t, u)
  \/ \E w \in Threads : HandlerWake(w)
  \/ IdleReturn

SchedSpec == SchedInit /\ [][SchedNext]_schedVars

(***************************************************************************)
(* The CPU never stops: some thread always takes its next step.  The timer *)
(* re-arms itself in its own handler and every tick moves the clock, so    *)
(* that ticks that time-slice keep coming.  The boot is a finite program   *)
(* and reaches Enable.  A thread need not sleep, wake, fork or finish; but *)
(* what it runs keeps ticking.                                             *)
(***************************************************************************)
SchedFairness ==
  /\ \A t \in Threads : /\ WF_schedVars(CpuStep(t))
                        /\ WF_schedVars(UserTick(t))
                        /\ SF_schedVars(Enable(t))
                        /\ WF_schedVars(SleepAgain(t) \/ LeaveAfterSleep(t))
                        /\ SF_schedVars(TickYield(t))
  /\ WF_schedVars(IdleReturn)

FairSchedSpec == SchedSpec /\ SchedFairness

-----------------------------------------------------------------------------
(***************************************************************************)
(* Properties.                                                             *)
(***************************************************************************)

\* Every variable holds a value of its type.
SchedTypeOK ==
  /\ currentThread \in Threads
  /\ readyList \in Seq(Threads)
  /\ toBeDestroyed \in Threads \cup {NoThread}
  /\ status \in [Threads -> Statuses]
  /\ at \in [Threads -> Places]
  /\ level \in Levels
  /\ oldLevel \in [Threads -> Levels]
  /\ mode \in {"SystemMode", "IdleMode"}

\* A thread is RUNNING only if it is currentThread, and currentThread is
\* RUNNING, or else in the loop of Ssleep, where it may already have been woken.
OneRunning ==
  /\ \A t \in Threads : status[t] = "RUNNING" => t = currentThread
  /\ \/ status[currentThread] = "RUNNING" /\ at[currentThread] \notin {"new", "Finish"}
     \/ status[currentThread] \in {"BLOCKED", "READY"} /\ at[currentThread] = "Ssleep"
     \/ status[currentThread] = "BLOCKED" /\ at[currentThread] = "Finish"

\* The ready list holds exactly the READY threads, each of them once.
ReadyListExact ==
  /\ \A t \in Threads : InList(readyList, t) <=> status[t] = "READY"
  /\ NoDuplicate(readyList)

\* A thread that does not own the CPU stopped where SWITCH can bring it back:
\* in Run, under yield or Ssleep, or at its very start.
OffCpuPlaces ==
  \A t \in Threads \ {currentThread} :
    \/ status[t] = "JUST_CREATED" /\ at[t] = "new"
    \/ status[t] = "READY" /\ at[t] \in {"ThreadRoot", "Ssleep", "yield"}
    \/ status[t] = "BLOCKED" /\ at[t] = "Ssleep"
    \/ status[t] \in {"BLOCKED", "DELETED"} /\ at[t] = "Finish"

\* Interrupts are off wherever Scheduler and Ssleep assert it: in everything
\* but a thread's own code.  Idle runs only on behalf of a thread in Ssleep.
LevelDiscipline ==
  /\ level = "IntOn" => at[currentThread] = "run" /\ status[currentThread] = "RUNNING"
  /\ mode = "IdleMode" => Leaving(currentThread)

\* The carcass: a thread that is to be destroyed has finished, is not the one
\* on whose stack the kernel runs, and is deleted by the first thing the next
\* thread does, so that ASSERT(toBeDestroyed == NULL) in Run never fails.
CarcassSafe ==
  toBeDestroyed # NoThread =>
    /\ toBeDestroyed # currentThread
    /\ at[toBeDestroyed] = "Finish" /\ status[toBeDestroyed] = "BLOCKED"
    /\ status[currentThread] = "RUNNING"
    /\ at[currentThread] \in {"ThreadRoot", "Ssleep", "yield"}

\* No finished thread is forgotten: until it is deleted it is the current one
\* or the one the scheduler remembers.
NoCarcassLeak ==
  \A t \in Threads :
    at[t] = "Finish" /\ status[t] # "DELETED" => t \in {currentThread, toBeDestroyed}

Before(list, t, u) ==
  \E i, j \in 1..Len(list) : i < j /\ list[i] = t /\ list[j] = u

\* Round robin: whoever is ahead of a thread on the ready list was ahead of it
\* before; nobody enters in front, the thread that yields least of all.
NoOvertaking ==
  [][\A t, u \in Threads :
       InList(readyList, t) /\ Before(readyList', u, t) => Before(readyList, u, t)
    ]_schedVars

\* Time slicing: a thread that is ready gets the CPU, whatever the others do.
ReadyRuns == \A t \in Threads : status[t] = "READY" ~> status[t] = "RUNNING"

=============================================================================
