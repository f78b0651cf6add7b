---------------------------- MODULE ThreadStart ----------------------------
(***************************************************************************)
(* How a new thread comes to its function (thread.cpp).  StackAllocate     *)
(* leaves func and arg among the saved registers of the thread; SWITCH     *)
(* loads the registers and copies these two into the globals Func and      *)
(* IniArg; ThreadRoot calls Begin, which enables interrupts, and then      *)
(* calls *Func with IniArg.  Func and arg are one value here, named after  *)
(* the thread they were forked for.                                        *)
(***************************************************************************)
EXTENDS Scheduler

CONSTANTS NotYet,   \* a thread that has not called its function
          Scratch   \* what the compiled code of Run has in edx and esi

VARIABLES
  machineState,  \* Thread::machineState, the entries for edx and esi
  Func,          \* the globals Func and IniArg
  called         \* what ThreadRoot has called in each thread

startVars == <<machineState, Func, called>>
vars == <<schedVars, startVars>>

StartInit ==
  /\ SchedInit
  /\ machineState = [t \in Threads |-> Scratch]
  /\ Func = Scratch
  /\ called = [t \in Threads |-> IF t = Main THEN Main ELSE NotYet]

StackAllocate(c) ==
  /\ machineState' = [machineState EXCEPT ![c] = c]
  /\ UNCHANGED <<Func, called>>

\* The caller of SWITCH, Run, has made calls of its own before, and neither
\* register holds what it held when the thread got the CPU.
SWITCH(old, new) ==
  /\ machineState' = [machineState EXCEPT ![old] = Scratch]
  /\ Func' = machineState'[new]
  /\ UNCHANGED called

\* ThreadRoot, when Begin has returned.
CallFunc(t) ==
  /\ Running(t) /\ at[t] = "run" /\ called[t] = NotYet
  /\ called' = [called EXCEPT ![t] = Func]
  /\ UNCHANGED <<schedVars, machineState, Func>>

\* What a thread does inside its function.
OwnCode(t) ==
  /\ called[t] # NotYet
  /\ \/ /\ \/ CriticalSection(t) \/ Sleep(t) \/ Finish(t) \/ Enable(t) \/ UserTick(t)
           \/ \E w \in Threads : Wake(t, w)
        /\ UNCHANGED startVars
     \/ \E c \in Threads : Fork(t, c) /\ StackAllocate(c)

\* The steps that may switch; with nobody ready, yield does not.
GiveUp(t) ==
  \/ Dispatch(t) /\ SWITCH(t, currentThread')
  \/ /\ \/ TickYield(t)
        \/ called[t] # NotYet /\ Yield(t)
     /\ IF readyList = <<>> THEN UNCHANGED startVars
                            ELSE SWITCH(t, currentThread')

OtherStep ==
  /\ \/ \E t \in Threads : \/ SetLevel(t) \/ TickReturn(t) \/ Idle(t) \/ Begin(t) \/ Resume(t)
                           \/ SleepAgain(t) \/ LeaveAfterSleep(t) \/ HandlerWake(t)
     \/ IdleReturn
  /\ UNCHANGED startVars

StartNext ==
  \/ \E t \in Threads : CallFunc(t) \/ OwnCode(t) \/ GiveUp(t)
  \/ OtherStep

StartSpec == StartInit /\ [][StartNext]_vars

-----------------------------------------------------------------------------

\* "Invoke (*func)(arg)" (Fork): a thread calls what it was forked for.  It does
\* not if the time slice ends in the tick that Begin causes: on its return
\* SWITCH overwrites the globals with the registers of Run.
CallsOwnFunction == \A t \in Threads : called[t] \in {NotYet, t}
=============================================================================
