-------------------------- MODULE SemaphoreProofs --------------------------
(***************************************************************************)
(* The safety properties of Scheduler and of Semaphore, for every set of   *)
(* threads and semaphores: the ready list is exact and fair, the steps of  *)
(* the semaphores are steps of the scheduler, no wake-up is lost, and they *)
(* implement AbstractSemaphore.                                            *)
(***************************************************************************)
EXTENDS Semaphore, SequenceTheorems, FiniteSetTheorems, TLAPS

-----------------------------------------------------------------------------
(***************************************************************************)
(* The ready list as a queue without duplicates.                           *)
(***************************************************************************)

\* SortedList::Insert adds its item, nothing else, and never a second copy.
LEMMA InsertProperties ==
  ASSUME NEW S, NEW list \in Seq(S), NEW t \in S
  PROVE  /\ Insert(list, t) \in Seq(S)
         /\ \A u : InList(Insert(list, t), u) <=> InList(list, u) \/ u = t
         /\ NoDuplicate(list) => NoDuplicate(Insert(list, t))
<1>1. CASE InList(list, t)
  BY <1>1 DEF Insert
<1>2. CASE ~InList(list, t)
  <2> DEFINE app == Append(list, t)
  <2>1. Insert(list, t) = app
    BY <1>2 DEF Insert
  <2>2. /\ app \in Seq(S)
        /\ Len(app) = Len(list) + 1
        /\ \A i \in 1..Len(list) : app[i] = list[i]
        /\ app[Len(list) + 1] = t
    BY AppendProperties
  <2>3. Len(list) \in Nat
    BY LenProperties
  <2> HIDE DEF app
  <2>4. \A u : InList(app, u) <=> InList(list, u) \/ u = t
    <3> TAKE u
    <3>1. InList(app, u) => InList(list, u) \/ u = t
      BY <2>2, <2>3 DEF InList
    <3>2. InList(list, u) => InList(app, u)
      BY <2>2, <2>3 DEF InList
    <3>3. u = t => InList(app, u)
      BY <2>2, <2>3 DEF InList
    <3> QED  BY <3>1, <3>2, <3>3
  <2>5. NoDuplicate(list) => NoDuplicate(app)
    BY <1>2, <2>2, <2>3 DEF InList, NoDuplicate
  <2> QED  BY <2>1, <2>2, <2>4, <2>5
<1> QED  BY <1>1, <1>2

\* RemoveFront takes the first item out, and no other.
LEMMA RemoveFrontProperties ==
  ASSUME NEW S, NEW list \in Seq(S), list # <<>>, NoDuplicate(list)
  PROVE  /\ Head(list) \in S
         /\ InList(list, Head(list))
         /\ Tail(list) \in Seq(S)
         /\ \A u : InList(Tail(list), u) <=> InList(list, u) /\ u # Head(list)
         /\ NoDuplicate(Tail(list))
<1> DEFINE tl == Tail(list)
<1>1. /\ Head(list) \in S
      /\ tl \in Seq(S)
      /\ Len(tl) = Len(list) - 1
      /\ \A i \in 1..Len(tl) : tl[i] = list[i + 1]
  BY HeadTailProperties
<1>2. Len(list) \in Nat /\ Len(list) > 0
  BY EmptySeq, LenProperties
<1>3. Head(list) = list[1]
  OBVIOUS
<1> HIDE DEF tl
<1>4. InList(list, Head(list))
  BY <1>2, <1>3 DEF InList
<1>5. \A u : InList(tl, u) <=> InList(list, u) /\ u # Head(list)
  <2> TAKE u
  <2>1. InList(tl, u) => InList(list, u) /\ u # Head(list)
    <3> HAVE InList(tl, u)
    <3>1. PICK i \in 1..Len(tl) : tl[i] = u
      BY DEF InList
    <3>2. i + 1 \in 1..Len(list) /\ list[i + 1] = u /\ i + 1 # 1
      BY <3>1, <1>1, <1>2
    <3> QED  BY <3>2, <1>2, <1>3 DEF InList, NoDuplicate
  <2>2. InList(list, u) /\ u # Head(list) => InList(tl, u)
    <3> HAVE InList(list, u) /\ u # Head(list)
    <3>1. PICK i \in 1..Len(list) : list[i] = u
      BY DEF InList
    <3>2. i - 1 \in 1..Len(tl) /\ tl[i - 1] = u
      BY <3>1, <1>1, <1>2, <1>3
    <3> QED  BY <3>2 DEF InList
  <2> QED  BY <2>1, <2>2
<1>6. NoDuplicate(tl)
  <2> SUFFICES ASSUME NEW i \in 1..Len(tl), NEW j \in 1..Len(tl), tl[i] = tl[j]
               PROVE  i = j
    BY DEF NoDuplicate
  <2>1. i + 1 \in 1..Len(list) /\ j + 1 \in 1..Len(list) /\ list[i + 1] = list[j + 1]
    BY <1>1, <1>2
  <2> QED  BY <2>1, <1>2 DEF NoDuplicate
<1> QED  BY <1>1, <1>4, <1>5, <1>6 DEF tl

\* Insert puts nobody in front of anybody.
LEMMA InsertKeepsOrder ==
  ASSUME NEW S, NEW list \in Seq(S), NEW t \in S, NEW u, NEW x,
         x # t \/ InList(list, t), Before(Insert(list, t), u, x)
  PROVE  Before(list, u, x)
<1>1. CASE InList(list, t)
  BY <1>1 DEF Insert
<1>2. CASE ~InList(list, t)
  <2> DEFINE app == Append(list, t)
  <2>1. Insert(list, t) = app
    BY <1>2 DEF Insert
  <2>2. /\ Len(app) = Len(list) + 1
        /\ \A i \in 1..Len(list) : app[i] = list[i]
        /\ app[Len(list) + 1] = t
    BY AppendProperties
  <2>3. Len(list) \in Nat
    BY LenProperties
  <2> HIDE DEF app
  <2>4. PICK i, j \in 1..Len(app) : i < j /\ app[i] = u /\ app[j] = x
    BY <2>1 DEF Before
  <2>5. j \in 1..Len(list) /\ i \in 1..Len(list)
    BY <1>2, <2>2, <2>3, <2>4
  <2> QED  BY <2>2, <2>4, <2>5 DEF Before
<1> QED  BY <1>1, <1>2

\* Neither does RemoveFront.
LEMMA RemoveFrontKeepsOrder ==
  ASSUME NEW S, NEW list \in Seq(S), list # <<>>, NEW u, NEW x,
         Before(Tail(list), u, x)
  PROVE  Before(list, u, x)
<1> DEFINE tl == Tail(list)
<1>1. /\ Len(tl) = Len(list) - 1
      /\ \A i \in 1..Len(tl) : tl[i] = list[i + 1]
  BY HeadTailProperties
<1>2. Len(list) \in Nat
  BY LenProperties
<1> HIDE DEF tl
<1>3. PICK i, j \in 1..Len(tl) : i < j /\ tl[i] = u /\ tl[j] = x
  BY DEF Before, tl
<1>4. i + 1 \in 1..Len(list) /\ j + 1 \in 1..Len(list) /\ i + 1 < j + 1
  BY <1>1, <1>2, <1>3
<1> QED  BY <1>1, <1>3, <1>4 DEF Before

-----------------------------------------------------------------------------
(***************************************************************************)
(* The inductive invariant: the properties are inductive only together.    *)
(* That the carcass is not the current thread, for one, follows from where *)
(* a ready thread can be (OffCpuPlaces), which in turn needs that the      *)
(* ready list holds ready threads only.                                    *)
(***************************************************************************)
SchedInv ==
  /\ SchedTypeOK
  /\ OneRunning
  /\ ReadyListExact
  /\ OffCpuPlaces
  /\ LevelDiscipline
  /\ CarcassSafe
  /\ NoCarcassLeak

\* The kernel boots in a state that satisfies the invariant.
LEMMA SchedInitInv == SchedInit => SchedInv
<1> SUFFICES ASSUME SchedInit PROVE SchedInv
  OBVIOUS
<1> USE ThreadAssumption
<1>1. SchedTypeOK
  BY EmptySeq DEF SchedInit, SchedTypeOK, Statuses, Places, Levels
<1>2. OneRunning
  BY DEF SchedInit, OneRunning
<1>3. ReadyListExact
  BY DEF SchedInit, ReadyListExact, InList, NoDuplicate
<1>4. OffCpuPlaces /\ LevelDiscipline /\ CarcassSafe /\ NoCarcassLeak
  BY DEF SchedInit, OffCpuPlaces, LevelDiscipline, CarcassSafe, NoCarcassLeak
<1> QED  BY <1>1, <1>2, <1>3, <1>4 DEF SchedInv

\* Steps of a running thread that leave the ready list alone.
LEMMA OwnStepInv ==
  ASSUME SchedInv, NEW t \in Threads,
         \/ CriticalSection(t) \/ Sleep(t) \/ SleepAgain(t) \/ LeaveAfterSleep(t)
         \/ Finish(t) \/ Enable(t) \/ UserTick(t) \/ SetLevel(t) \/ TickReturn(t)
  PROVE  SchedInv'
<1> USE ThreadAssumption DEF SchedInv
<1>1. SchedTypeOK'
  BY DEF SchedTypeOK, Statuses, Places, Levels, DisableInterrupts,
     CriticalSection, Sleep, SleepAgain, LeaveAfterSleep, Finish, Enable,
     UserTick, SetLevel, TickReturn
<1>2. /\ readyList' = readyList
      /\ currentThread' = currentThread
      /\ toBeDestroyed' = toBeDestroyed
      /\ mode' = mode
      /\ t = currentThread /\ status[t] = "RUNNING"
      /\ at[t] \in {"run", "woken", "SetLevel", "OneTick"}
      /\ \A u \in Threads \ {t} : at'[u] = at[u] /\ status'[u] = status[u]
      /\ \/ status'[t] = "RUNNING" /\ at'[t] \in {"run", "woken", "SetLevel", "OneTick"}
         \/ status'[t] = "BLOCKED" /\ at'[t] \in {"Ssleep", "Finish"}
      /\ level' = "IntOn" => at'[t] = "run" /\ status'[t] = "RUNNING"
  BY DEF SchedTypeOK, Statuses, Places, Levels, DisableInterrupts, Running,
     CriticalSection, Sleep, SleepAgain, LeaveAfterSleep, Finish, Enable,
     UserTick, SetLevel, TickReturn, LevelDiscipline
<1>3. toBeDestroyed = NoThread /\ mode = "SystemMode"
  BY <1>2 DEF CarcassSafe, LevelDiscipline, Leaving, SchedTypeOK
<1>4. OneRunning'
  BY <1>2 DEF OneRunning, SchedTypeOK
<1>5. ReadyListExact'
  <2>1. \A u \in Threads : status'[u] = "READY" <=> status[u] = "READY"
    BY <1>2 DEF SchedTypeOK
  <2> QED  BY <2>1, <1>2 DEF ReadyListExact
<1>6. OffCpuPlaces'
  BY <1>2 DEF OffCpuPlaces, SchedTypeOK
<1>7. LevelDiscipline'
  BY <1>2, <1>3 DEF LevelDiscipline
<1>8. CarcassSafe' /\ NoCarcassLeak'
  BY <1>2, <1>3 DEF CarcassSafe, NoCarcassLeak, SchedTypeOK
<1> QED  BY <1>1, <1>4, <1>5, <1>6, <1>7, <1>8

\* Fork, and a wake-up by the running thread: one more thread is ready.
LEMMA ReadyOneInv ==
  ASSUME SchedInv, NEW t \in Threads, NEW c \in Threads,
         Fork(t, c) \/ Wake(t, c)
  PROVE  SchedInv'
<1> USE ThreadAssumption DEF SchedInv
<1>1. /\ readyList' = Insert(readyList, c)
      /\ currentThread' = currentThread
      /\ toBeDestroyed' = toBeDestroyed
      /\ mode' = mode
      /\ t = currentThread /\ status[t] = "RUNNING" /\ at[t] = "run"
      /\ c # t
      /\ status[c] \in {"JUST_CREATED", "BLOCKED"} /\ at[c] \in {"new", "Ssleep"}
      /\ status' = [status EXCEPT ![c] = "READY"]
      /\ \A u \in Threads \ {t, c} : at'[u] = at[u]
      /\ at'[t] = "SetLevel" /\ at'[c] \in {"ThreadRoot", "Ssleep"}
      /\ level' = "IntOff"
  BY DEF SchedTypeOK, Fork, Wake, Running, Asleep, DisableInterrupts, OffCpuPlaces
<1>2. toBeDestroyed = NoThread /\ mode = "SystemMode"
  BY <1>1 DEF CarcassSafe, LevelDiscipline, Leaving, SchedTypeOK
<1>3. /\ Insert(readyList, c) \in Seq(Threads)
      /\ \A u : InList(Insert(readyList, c), u) <=> InList(readyList, u) \/ u = c
      /\ NoDuplicate(Insert(readyList, c))
  BY InsertProperties DEF SchedTypeOK, ReadyListExact
<1>4. SchedTypeOK'
  <2>1. /\ status' \in [Threads -> Statuses] /\ readyList' \in Seq(Threads) /\ level' \in Levels
    BY <1>1, <1>3 DEF SchedTypeOK, Statuses, Levels
  <2>2. at' \in [Threads -> Places]
    BY <1>1 DEF SchedTypeOK, Places, DisableInterrupts, Fork, Wake
  <2> QED  BY <1>1, <2>1, <2>2 DEF SchedTypeOK, DisableInterrupts, Fork, Wake
<1>5. OneRunning'
  BY <1>1 DEF OneRunning, SchedTypeOK
<1>6. ReadyListExact'
  <2>1. \A u \in Threads : InList(readyList', u) <=> status'[u] = "READY"
    BY <1>1, <1>3 DEF ReadyListExact, SchedTypeOK
  <2> QED  BY <2>1, <1>1, <1>3 DEF ReadyListExact
<1>7. OffCpuPlaces'
  BY <1>1 DEF OffCpuPlaces, SchedTypeOK
<1>8. LevelDiscipline' /\ CarcassSafe' /\ NoCarcassLeak'
  BY <1>1, <1>2 DEF LevelDiscipline, CarcassSafe, NoCarcassLeak, SchedTypeOK
<1> QED  BY <1>4, <1>5, <1>6, <1>7, <1>8

\* A wake-up by an interrupt handler, which may wake the current thread itself
\* when that is in Idle.
LEMMA HandlerWakeInv ==
  ASSUME SchedInv, NEW w \in Threads, HandlerWake(w)
  PROVE  SchedInv'
<1> USE ThreadAssumption DEF SchedInv
<1>1. /\ readyList' = Insert(readyList, w)
      /\ UNCHANGED <<currentThread, toBeDestroyed, at, level, oldLevel, mode>>
      /\ status[w] = "BLOCKED" /\ at[w] = "Ssleep"
      /\ status' = [status EXCEPT ![w] = "READY"]
      /\ at[currentThread] = "OneTick" \/ mode = "IdleMode"
  BY DEF HandlerWake, Asleep, InHandler
<1>2. toBeDestroyed = NoThread /\ level = "IntOff"
  BY <1>1 DEF CarcassSafe, LevelDiscipline, Leaving, SchedTypeOK, Levels
<1>3. /\ Insert(readyList, w) \in Seq(Threads)
      /\ \A u : InList(Insert(readyList, w), u) <=> InList(readyList, u) \/ u = w
      /\ NoDuplicate(Insert(readyList, w))
  BY InsertProperties DEF SchedTypeOK, ReadyListExact
<1>4. SchedTypeOK'
  BY <1>1, <1>3 DEF SchedTypeOK, Statuses
<1>5. OneRunning'
  BY <1>1 DEF OneRunning, SchedTypeOK
<1>6. ReadyListExact'
  <2>1. \A u \in Threads : InList(readyList', u) <=> status'[u] = "READY"
    BY <1>1, <1>3 DEF ReadyListExact, SchedTypeOK
  <2> QED  BY <2>1, <1>1, <1>3 DEF ReadyListExact
<1>7. OffCpuPlaces'
  BY <1>1 DEF OffCpuPlaces, SchedTypeOK
<1>8. LevelDiscipline' /\ CarcassSafe' /\ NoCarcassLeak'
  BY <1>1, <1>2 DEF LevelDiscipline, Leaving, CarcassSafe, NoCarcassLeak, SchedTypeOK
<1> QED  BY <1>4, <1>5, <1>6, <1>7, <1>8

\* yield, called by the thread or by the end of a tick.
LEMMA YieldInv ==
  ASSUME SchedInv, NEW t \in Threads, Yield(t) \/ TickYield(t)
  PROVE  SchedInv'
<1> USE ThreadAssumption DEF SchedInv
<1>1. /\ t = currentThread /\ status[t] = "RUNNING" /\ at[t] \in {"run", "OneTick"}
      /\ YieldCPU(t)
      /\ UNCHANGED <<toBeDestroyed, mode>>
      /\ level' = "IntOff"
      /\ oldLevel' \in [Threads -> Levels]
  BY DEF SchedTypeOK, Yield, TickYield, Running, DisableInterrupts, LevelDiscipline, Levels
<1>2. toBeDestroyed = NoThread /\ mode = "SystemMode"
  BY <1>1 DEF CarcassSafe, LevelDiscipline, Leaving, SchedTypeOK
<1>3. CASE readyList = <<>>
  <2>1. /\ at' = [at EXCEPT ![t] = "SetLevel"]
        /\ UNCHANGED <<currentThread, readyList, status>>
    BY <1>1, <1>3 DEF YieldCPU
  <2>2. SchedTypeOK'
    BY <1>1, <2>1 DEF SchedTypeOK, Places, Levels
  <2>3. OneRunning' /\ ReadyListExact' /\ OffCpuPlaces'
    BY <1>1, <2>1 DEF OneRunning, ReadyListExact, OffCpuPlaces, SchedTypeOK
  <2>4. LevelDiscipline' /\ CarcassSafe' /\ NoCarcassLeak'
    BY <1>1, <1>2, <2>1 DEF LevelDiscipline, CarcassSafe, NoCarcassLeak, SchedTypeOK
  <2> QED  BY <2>2, <2>3, <2>4
<1>4. CASE readyList # <<>>
  <2> DEFINE h == Head(readyList)
             tl == Tail(readyList)
  <2>1. /\ at' = [at EXCEPT ![t] = "yield"]
        /\ currentThread' = h
        /\ status' = [status EXCEPT ![t] = "READY", ![h] = "RUNNING"]
        /\ readyList' = Insert(tl, t)
    BY <1>1, <1>4 DEF YieldCPU
  <2>2. /\ h \in Threads
        /\ InList(readyList, h)
        /\ tl \in Seq(Threads)
        /\ \A u : InList(tl, u) <=> InList(readyList, u) /\ u # h
        /\ NoDuplicate(tl)
    BY <1>4, RemoveFrontProperties DEF SchedTypeOK, ReadyListExact
  <2> HIDE DEF h, tl
  <2>3. status[h] = "READY" /\ h # t /\ at[h] \in {"ThreadRoot", "Ssleep", "yield"}
    BY <1>1, <2>2 DEF ReadyListExact, OffCpuPlaces
  <2>4. /\ Insert(tl, t) \in Seq(Threads)
        /\ \A u : InList(Insert(tl, t), u) <=> InList(tl, u) \/ u = t
        /\ NoDuplicate(Insert(tl, t))
    BY <2>2, InsertProperties
  <2>5. SchedTypeOK'
    BY <1>1, <2>1, <2>2, <2>4 DEF SchedTypeOK, Statuses, Places, Levels
  <2>6. OneRunning'
    BY <1>1, <2>1, <2>2, <2>3 DEF OneRunning, SchedTypeOK
  <2>7. ReadyListExact'
    <3>1. \A u \in Threads : InList(readyList', u) <=> status'[u] = "READY"
      BY <1>1, <2>1, <2>2, <2>3, <2>4 DEF ReadyListExact, SchedTypeOK
    <3> QED  BY <3>1, <2>1, <2>4 DEF ReadyListExact
  <2>8. OffCpuPlaces'
    BY <1>1, <2>1, <2>2, <2>3 DEF OffCpuPlaces, SchedTypeOK
  <2>9. LevelDiscipline' /\ CarcassSafe' /\ NoCarcassLeak'
    BY <1>1, <1>2, <2>1, <2>2, <2>3 DEF LevelDiscipline, CarcassSafe, NoCarcassLeak,
       SchedTypeOK
  <2> QED  BY <2>5, <2>6, <2>7, <2>8, <2>9
<1> QED  BY <1>3, <1>4

\* Run at the end of Ssleep.
LEMMA DispatchInv ==
  ASSUME SchedInv, NEW t \in Threads, Dispatch(t)
  PROVE  SchedInv'
<1> USE ThreadAssumption DEF SchedInv
<1> DEFINE h == Head(readyList)
           tl == Tail(readyList)
<1>1. /\ t = currentThread /\ status[t] # "RUNNING" /\ at[t] \in {"Ssleep", "Finish"}
      /\ mode = "SystemMode"
      /\ readyList # <<>>
      /\ toBeDestroyed' = IF at[t] = "Finish" THEN t ELSE toBeDestroyed
      /\ currentThread' = h
      /\ status' = [status EXCEPT ![h] = "RUNNING"]
      /\ readyList' = tl
      /\ UNCHANGED <<at, level, oldLevel, mode>>
  BY DEF Dispatch, Leaving
<1>2. /\ h \in Threads
      /\ InList(readyList, h)
      /\ tl \in Seq(Threads)
      /\ \A u : InList(tl, u) <=> InList(readyList, u) /\ u # h
      /\ NoDuplicate(tl)
  BY <1>1, RemoveFrontProperties DEF SchedTypeOK, ReadyListExact
<1> HIDE DEF h, tl
<1>3. toBeDestroyed = NoThread /\ level = "IntOff"
  BY <1>1 DEF CarcassSafe, LevelDiscipline, SchedTypeOK, Levels
<1>4. status[h] = "READY" /\ at[h] \in {"ThreadRoot", "Ssleep", "yield"}
  BY <1>1, <1>2 DEF ReadyListExact, OffCpuPlaces, OneRunning
<1>5. SchedTypeOK'
  BY <1>1, <1>2 DEF SchedTypeOK, Statuses
<1>6. OneRunning'
  BY <1>1, <1>2, <1>4 DEF OneRunning, SchedTypeOK
<1>7. ReadyListExact'
  <2>1. \A u \in Threads : InList(readyList', u) <=> status'[u] = "READY"
    BY <1>1, <1>2, <1>4 DEF ReadyListExact, SchedTypeOK
  <2> QED  BY <2>1, <1>1, <1>2 DEF ReadyListExact
<1>8. OffCpuPlaces'
  BY <1>1, <1>2, <1>4 DEF OffCpuPlaces, OneRunning, SchedTypeOK
<1>9. LevelDiscipline' /\ CarcassSafe' /\ NoCarcassLeak'
  BY <1>1, <1>2, <1>3, <1>4 DEF LevelDiscipline, CarcassSafe, NoCarcassLeak,
     OneRunning, SchedTypeOK
<1> QED  BY <1>5, <1>6, <1>7, <1>8, <1>9

\* The next thread starts or resumes, and deletes the carcass.
LEMMA ArriveInv ==
  ASSUME SchedInv, NEW t \in Threads, Begin(t) \/ Resume(t)
  PROVE  SchedInv'
<1> USE ThreadAssumption DEF SchedInv
<1>1. /\ t = currentThread /\ status[t] = "RUNNING"
      /\ at[t] \in {"ThreadRoot", "Ssleep", "yield"}
      /\ UNCHANGED <<currentThread, readyList, level, mode>>
      /\ toBeDestroyed' = NoThread
      /\ status' = [u \in Threads |-> IF u = toBeDestroyed THEN "DELETED" ELSE status[u]]
      /\ \A u \in Threads \ {t} : at'[u] = at[u]
      /\ at'[t] \in {"woken", "SetLevel"}
  BY DEF SchedTypeOK, Begin, Resume, Running, CheckToBeDestroyed
<1>2. level = "IntOff" /\ mode = "SystemMode" /\ toBeDestroyed # t
  BY <1>1 DEF LevelDiscipline, Leaving, CarcassSafe, SchedTypeOK, Levels
<1>3. SchedTypeOK'
  BY <1>1 DEF SchedTypeOK, Statuses, Places, Levels, Begin, Resume
<1>4. OneRunning'
  BY <1>1, <1>2 DEF OneRunning, SchedTypeOK
<1>5. ReadyListExact'
  <2>1. \A u \in Threads : status'[u] = "READY" <=> status[u] = "READY"
    BY <1>1 DEF CarcassSafe
  <2> QED  BY <2>1, <1>1 DEF ReadyListExact
<1>6. OffCpuPlaces'
  BY <1>1, <1>2 DEF OffCpuPlaces, CarcassSafe, SchedTypeOK
<1>7. LevelDiscipline' /\ CarcassSafe'
  BY <1>1, <1>2 DEF LevelDiscipline, CarcassSafe
<1>8. NoCarcassLeak'
  BY <1>1, <1>2 DEF NoCarcassLeak, SchedTypeOK
<1> QED  BY <1>3, <1>4, <1>5, <1>6, <1>7, <1>8

\* The idle machine.
LEMMA IdleInv ==
  ASSUME SchedInv, \/ \E t \in Threads : Idle(t)
                   \/ IdleReturn
                   \/ UNCHANGED schedVars
  PROVE  SchedInv'
<1>1. UNCHANGED <<currentThread, readyList, toBeDestroyed, status, at, level, oldLevel>>
  BY DEF Idle, IdleReturn, schedVars
<1>2. \/ mode' = mode
      \/ mode' = "SystemMode"
      \/ mode' = "IdleMode" /\ Leaving(currentThread)
  BY DEF Idle, IdleReturn, schedVars, Leaving
<1>3. SchedTypeOK' /\ OneRunning' /\ ReadyListExact' /\ OffCpuPlaces'
  BY <1>1, <1>2 DEF SchedInv, SchedTypeOK, OneRunning, ReadyListExact, OffCpuPlaces
<1>4. LevelDiscipline' /\ CarcassSafe' /\ NoCarcassLeak'
  BY <1>1, <1>2 DEF SchedInv, LevelDiscipline, Leaving, CarcassSafe, NoCarcassLeak
<1> QED  BY <1>3, <1>4 DEF SchedInv

\* Every step of the scheduler keeps the invariant.
LEMMA SchedNextInv == SchedInv /\ [SchedNext]_schedVars => SchedInv'
<1> SUFFICES ASSUME SchedInv, [SchedNext]_schedVars PROVE SchedInv'
  OBVIOUS
<1>1. ASSUME NEW t \in Threads,
             \/ CriticalSection(t) \/ Sleep(t) \/ SleepAgain(t)
             \/ LeaveAfterSleep(t) \/ Finish(t) \/ Yield(t)
             \/ Enable(t) \/ UserTick(t) \/ CpuStep(t)
      PROVE  SchedInv'
  BY <1>1, OwnStepInv, YieldInv, DispatchInv, ArriveInv, IdleInv DEF CpuStep
<1>2. ASSUME NEW t \in Threads, NEW u \in Threads, Fork(t, u) \/ Wake(t, u)
      PROVE  SchedInv'
  BY <1>2, ReadyOneInv
<1>3. ASSUME NEW w \in Threads, HandlerWake(w)
      PROVE  SchedInv'
  BY <1>3, HandlerWakeInv
<1> QED  BY <1>1, <1>2, <1>3, IdleInv DEF SchedNext

\* The invariant holds throughout every run of the kernel.
THEOREM SchedulerInvariant == SchedSpec => []SchedInv
BY SchedInitInv, SchedNextInv, PTL DEF SchedSpec

\* Every variable keeps its type.
THEOREM SchedulerTypeCorrect == SchedSpec => []SchedTypeOK
<1>1. SchedInv => SchedTypeOK
  BY DEF SchedInv
<1> QED  BY <1>1, SchedulerInvariant, PTL

\* The ready list and the threads' states always agree, and no thread runs
\* but the current one.
THEOREM SchedulerReadyList == SchedSpec => [](OneRunning /\ ReadyListExact)
<1>1. SchedInv => OneRunning /\ ReadyListExact
  BY DEF SchedInv
<1> QED  BY <1>1, SchedulerInvariant, PTL

\* LevelDiscipline for any number of threads: interrupts are off wherever the thread
\* package counts on it, from Sleep and Finish to the thread that runs next.
THEOREM SchedulerLevels == SchedSpec => []LevelDiscipline
<1>1. SchedInv => LevelDiscipline
  BY DEF SchedInv
<1> QED  BY <1>1, SchedulerInvariant, PTL

\* A finished thread is deleted by another thread, exactly once, and before
\* any other thread finishes.
THEOREM SchedulerCarcass == SchedSpec => [](CarcassSafe /\ NoCarcassLeak)
<1>1. SchedInv => CarcassSafe /\ NoCarcassLeak
  BY DEF SchedInv
<1> QED  BY <1>1, SchedulerInvariant, PTL

\* The ready list is served in order: no step of the kernel puts a thread in
\* front of one that waits for the CPU already.
THEOREM SchedulerRoundRobin == SchedSpec => NoOvertaking
<1> DEFINE Ordered == \A t, u \in Threads :
             InList(readyList, t) /\ Before(readyList', u, t) => Before(readyList, u, t)
<1>1. SchedInv /\ [SchedNext]_schedVars => [Ordered]_schedVars
  <2> SUFFICES ASSUME SchedInv, SchedNext,
                      NEW x \in Threads, NEW u \in Threads,
                      InList(readyList, x), Before(readyList', u, x)
               PROVE  Before(readyList, u, x)
    OBVIOUS
  <2>1. readyList \in Seq(Threads) /\ status[x] = "READY"
    BY DEF SchedInv, SchedTypeOK, ReadyListExact
  <2>2. CASE readyList' = readyList
    BY <2>2
  <2>3. ASSUME NEW c \in Threads, readyList' = Insert(readyList, c)
        PROVE  Before(readyList, u, x)
    BY <2>1, <2>3, InsertKeepsOrder
  <2>4. ASSUME readyList # <<>>, readyList' = Tail(readyList)
        PROVE  Before(readyList, u, x)
    BY <2>1, <2>4, RemoveFrontKeepsOrder
  <2>5. ASSUME NEW t \in Threads, readyList # <<>>, status[t] = "RUNNING",
               readyList' = Insert(Tail(readyList), t)
        PROVE  Before(readyList, u, x)
    <3>1. Tail(readyList) \in Seq(Threads)
      BY <2>1, <2>5, HeadTailProperties
    <3>2. Before(Tail(readyList), u, x)
      BY <2>1, <2>5, <3>1, InsertKeepsOrder
    <3> QED  BY <2>1, <2>5, <3>2, RemoveFrontKeepsOrder
  <2>6. ASSUME NEW t \in Threads, Yield(t) \/ TickYield(t)
        PROVE  Before(readyList, u, x)
    BY <2>2, <2>5, <2>6 DEF Yield, TickYield, YieldCPU, Running
  <2>7. ASSUME NEW t \in Threads, Dispatch(t)
        PROVE  Before(readyList, u, x)
    BY <2>4, <2>7 DEF Dispatch
  <2>8. ASSUME NEW t \in Threads, NEW c \in Threads,
               Fork(t, c) \/ Wake(t, c) \/ HandlerWake(c)
        PROVE  Before(readyList, u, x)
    BY <2>3, <2>8 DEF Fork, Wake, HandlerWake
  <2>9. ASSUME NEW t \in Threads,
               \/ CriticalSection(t) \/ Sleep(t) \/ SleepAgain(t)
               \/ LeaveAfterSleep(t) \/ Finish(t) \/ Enable(t) \/ UserTick(t)
               \/ SetLevel(t) \/ TickReturn(t) \/ Idle(t) \/ Begin(t) \/ Resume(t)
        PROVE  Before(readyList, u, x)
    BY <2>2, <2>9 DEF CriticalSection, Sleep, SleepAgain, LeaveAfterSleep, Finish,
       Enable, UserTick, SetLevel, TickReturn, Idle, Begin, Resume
  <2>10. CASE IdleReturn
    BY <2>2, <2>10 DEF IdleReturn
  <2> QED  BY <2>6, <2>7, <2>8, <2>9, <2>10 DEF SchedNext, CpuStep
<1> QED  BY <1>1, SchedulerInvariant, PTL DEF SchedSpec, NoOvertaking

-----------------------------------------------------------------------------
(***************************************************************************)
(* The inductive invariant.  NoLostWakeup counts the woken threads, and    *)
(* the count changes by one in the right direction only because the queue  *)
(* of a semaphore is exactly the set of its sleepers.                      *)
(***************************************************************************)
SemInv ==
  /\ SchedInv
  /\ SemTypeOK
  /\ QueueExact
  /\ NoLostWakeup

\* The thread at the head of a queue sleeps in the P of that semaphore.
LEMMA HeadOfQueue ==
  ASSUME SemInv, NEW s \in Sems, ThreadQueue[s] # <<>>
  PROVE  /\ Head(ThreadQueue[s]) \in Threads
         /\ Asleep(Head(ThreadQueue[s]))
         /\ inP[Head(ThreadQueue[s])] = s
<1>1. ThreadQueue[s] \in Seq(Threads) /\ NoDuplicate(ThreadQueue[s])
  BY DEF SemInv, SemTypeOK, QueueExact
<1>2. Head(ThreadQueue[s]) \in Threads /\ InList(ThreadQueue[s], Head(ThreadQueue[s]))
  BY <1>1, RemoveFrontProperties
<1> QED  BY <1>2 DEF SemInv, QueueExact

\* Every step of the semaphores is a step of the scheduler.
LEMMA SemStepIsSchedStep ==
  ASSUME SemInv, [SemNext]_vars
  PROVE  [SchedNext]_schedVars
<1>1. ASSUME NEW t \in Threads, KernelStep(t)
      PROVE  SchedNext
  BY <1>1 DEF KernelStep, SchedNext
<1>2. ASSUME NEW t \in Threads, NEW s \in Sems, P(t, s) \/ PWoken(t, s)
      PROVE  SchedNext
  BY <1>2 DEF P, PWoken, SchedNext
<1>3. ASSUME NEW t \in Threads, NEW s \in Sems, V(t, s)
      PROVE  SchedNext
  <2>1. CASE ThreadQueue[s] = <<>>
    BY <1>3, <2>1 DEF V, SchedNext
  <2>2. CASE ThreadQueue[s] # <<>>
    BY <1>3, <2>2, HeadOfQueue DEF V, SchedNext
  <2> QED  BY <2>1, <2>2
<1>4. ASSUME NEW s \in Sems, HandlerV(s)
      PROVE  [SchedNext]_schedVars
  <2>1. CASE ThreadQueue[s] = <<>>
    BY <1>4, <2>1 DEF HandlerV
  <2>2. CASE ThreadQueue[s] # <<>>
    BY <1>4, <2>2, HeadOfQueue DEF HandlerV, SchedNext
  <2> QED  BY <2>1, <2>2
<1>5. IdleReturn => SchedNext
  BY DEF SchedNext
<1>6. UNCHANGED vars => UNCHANGED schedVars
  BY DEF vars
<1> QED  BY <1>1, <1>2, <1>3, <1>4, <1>5, <1>6 DEF SemNext

-----------------------------------------------------------------------------

\* A step that changes neither the semaphores nor who is asleep.
LEMMA FrameInv ==
  ASSUME SemInv, SchedInv', UNCHANGED semVars,
         \A u \in Threads : /\ Asleep(u)' <=> Asleep(u)
                            /\ at'[u] \in {"Ssleep", "woken"} <=> at[u] \in {"Ssleep", "woken"}
  PROVE  SemInv'
<1>1. SemTypeOK'
  BY DEF SemInv, SemTypeOK, semVars
<1>2. QueueExact'
  BY DEF SemInv, QueueExact, semVars
<1>3. \A s \in Sems : Woken(s)' = Woken(s)
  BY DEF Woken, semVars
<1>4. NoLostWakeup'
  BY <1>3 DEF SemInv, NoLostWakeup, semVars
<1> QED  BY <1>1, <1>2, <1>4 DEF SemInv

\* The steps of Scheduler that no semaphore takes part in.
LEMMA KernelStepInv ==
  ASSUME SemInv, SchedInv',
         \/ \E t \in Threads : KernelStep(t)
         \/ IdleReturn /\ UNCHANGED semVars
         \/ UNCHANGED vars
  PROVE  SemInv'
<1> DEFINE Frame == \A u \in Threads :
                      /\ Asleep(u)' <=> Asleep(u)
                      /\ at'[u] \in {"Ssleep", "woken"} <=> at[u] \in {"Ssleep", "woken"}
<1>1. SchedTypeOK
  BY DEF SemInv, SchedInv
<1>2. ASSUME NEW t \in Threads,
             Finish(t) \/ Enable(t) \/ UserTick(t) \/ SetLevel(t) \/ TickReturn(t) \/ Idle(t)
      PROVE  Frame
  BY <1>1, <1>2 DEF SchedTypeOK, Asleep, Running,
     Finish, Enable, UserTick, SetLevel, TickReturn, Idle
<1>3. ASSUME NEW t \in Threads, NEW c \in Threads, Fork(t, c)
      PROVE  Frame
  BY <1>1, <1>3 DEF SchedTypeOK, Asleep, Running, Fork
<1>4. readyList # <<>> => Head(readyList) \in Threads /\ status[Head(readyList)] = "READY"
  BY RemoveFrontProperties DEF SemInv, SchedInv, SchedTypeOK, ReadyListExact
<1>5. ASSUME NEW t \in Threads, Yield(t) \/ TickYield(t)
      PROVE  Frame
  <2>1. t = currentThread /\ status[t] = "RUNNING" /\ at[t] \in {"run", "OneTick"} /\ YieldCPU(t)
    BY <1>5 DEF Yield, TickYield, Running
  <2>2. CASE readyList = <<>>
    BY <1>1, <2>1, <2>2 DEF YieldCPU, SchedTypeOK, Asleep
  <2>3. CASE readyList # <<>>
    BY <1>1, <1>4, <2>1, <2>3 DEF YieldCPU, SchedTypeOK, Asleep
  <2> QED  BY <2>2, <2>3
<1>6. ASSUME NEW t \in Threads, Dispatch(t)
      PROVE  Frame
  BY <1>1, <1>4, <1>6 DEF Dispatch, SchedTypeOK, Asleep
<1>7. ASSUME NEW t \in Threads, Begin(t) \/ Resume(t)
      PROVE  Frame
  <2>1. \A u \in Threads : u = toBeDestroyed => at[u] = "Finish"
    BY ThreadAssumption DEF SemInv, SchedInv, CarcassSafe
  <2> QED  BY <1>1, <1>7, <2>1 DEF Begin, Resume, Running, CheckToBeDestroyed,
              SchedTypeOK, Asleep
<1>8. IdleReturn \/ UNCHANGED vars => Frame
  BY DEF IdleReturn, vars, schedVars, Asleep
<1>9. UNCHANGED semVars
  BY DEF KernelStep, vars
<1>10. Frame
  BY <1>2, <1>3, <1>5, <1>6, <1>7, <1>8 DEF KernelStep, CpuStep
<1> QED  BY <1>9, <1>10, FrameInv

\* A thread joins the queue of a semaphore and sleeps.
LEMMA EnqueueInv ==
  ASSUME SemInv, SchedInv', NEW t \in Threads, NEW s \in Sems,
         Enqueue(t, s),
         \/ Sleep(t)
         \/ inP[t] = s /\ SleepAgain(t)
  PROVE  SemInv'
<1> USE SemaphoreAssumption
<1>1. /\ SchedTypeOK /\ SemTypeOK /\ QueueExact /\ NoLostWakeup
      /\ value[s] = 0
      /\ ThreadQueue' = [ThreadQueue EXCEPT ![s] = Insert(@, t)]
      /\ inP' = [inP EXCEPT ![t] = s]
      /\ value' = value
  BY DEF SemInv, SchedInv, Enqueue
<1>2. /\ at[t] \in {"run", "woken"} /\ inP[t] \in {NoSem, s}
      /\ ~Asleep(t)
      /\ status' = [status EXCEPT ![t] = "BLOCKED"]
      /\ at' = [at EXCEPT ![t] = "Ssleep"]
  BY <1>1 DEF Sleep, SleepAgain, QueueExact, Asleep
<1>3. \A u \in Threads : Asleep(u)' <=> Asleep(u) \/ u = t
  BY <1>1, <1>2 DEF Asleep, SchedTypeOK
<1>4. /\ Insert(ThreadQueue[s], t) \in Seq(Threads)
      /\ \A u : InList(Insert(ThreadQueue[s], t), u) <=> InList(ThreadQueue[s], u) \/ u = t
      /\ NoDuplicate(Insert(ThreadQueue[s], t))
  BY <1>1, InsertProperties DEF SemTypeOK, QueueExact
<1>5. SemTypeOK'
  BY <1>1, <1>4 DEF SemTypeOK
<1>6. QueueExact'
  <2>1. \A u \in Threads : inP'[u] # NoSem <=> at'[u] \in {"Ssleep", "woken"}
    BY <1>1, <1>2 DEF QueueExact, SemTypeOK, SchedTypeOK
  <2>2. ASSUME NEW r \in Sems
        PROVE  /\ \A u \in Threads : InList(ThreadQueue'[r], u) <=> Asleep(u)' /\ inP'[u] = r
               /\ NoDuplicate(ThreadQueue'[r])
    <3>1. CASE r = s
      BY <1>1, <1>2, <1>3, <1>4, <3>1 DEF QueueExact, SemTypeOK
    <3>2. CASE r # s
      BY <1>1, <1>2, <1>3, <3>2 DEF QueueExact, SemTypeOK
    <3> QED  BY <3>1, <3>2
  <2> QED  BY <2>1, <2>2 DEF QueueExact
<1>7. NoLostWakeup'
  <2> SUFFICES ASSUME NEW r \in Sems, ThreadQueue'[r] # <<>>
               PROVE  value'[r] <= Cardinality(Woken(r)')
    BY DEF NoLostWakeup
  <2>1. CASE r = s
    <3>1. IsFiniteSet(Woken(s)')
      BY FS_Subset DEF Woken
    <3>2. Cardinality(Woken(s)') \in Nat
      BY <3>1, FS_CardinalityType
    <3> QED  BY <1>1, <2>1, <3>2
  <2>2. CASE r # s
    <3>1. Woken(r)' = Woken(r)
      BY <1>1, <1>2, <1>3, <2>2 DEF Woken, SemTypeOK
    <3> QED  BY <1>1, <2>2, <3>1 DEF NoLostWakeup, SemTypeOK
  <2> QED  BY <2>1, <2>2
<1> QED  BY <1>5, <1>6, <1>7 DEF SemInv

\* A thread takes a unit: at once, or woken for it.
LEMMA ConsumeInv ==
  ASSUME SemInv, SchedInv', NEW t \in Threads, NEW s \in Sems,
         Consume(t, s),
         \/ CriticalSection(t)
         \/ inP[t] = s /\ LeaveAfterSleep(t)
  PROVE  SemInv'
<1> USE SemaphoreAssumption
<1>1. /\ SchedTypeOK /\ SemTypeOK /\ QueueExact /\ NoLostWakeup
      /\ value[s] # 0
      /\ value' = [value EXCEPT ![s] = @ - 1]
      /\ inP' = [inP EXCEPT ![t] = NoSem]
      /\ ThreadQueue' = ThreadQueue
  BY DEF SemInv, SchedInv, Consume
<1>2. /\ \/ at[t] = "run" /\ inP[t] = NoSem
         \/ at[t] = "woken" /\ inP[t] = s
      /\ ~Asleep(t)
      /\ status' = status
      /\ at' = [at EXCEPT ![t] = "SetLevel"]
  BY <1>1 DEF CriticalSection, LeaveAfterSleep, QueueExact, Asleep
<1>3. \A u \in Threads : Asleep(u)' <=> Asleep(u)
  BY <1>2, <1>1 DEF Asleep, SchedTypeOK
<1>4. value[s] \in 1..MaxValue
  BY <1>1 DEF SemTypeOK
<1>5. SemTypeOK'
  BY <1>1, <1>4 DEF SemTypeOK
<1>6. QueueExact'
  <2>1. \A u \in Threads : inP'[u] # NoSem <=> at'[u] \in {"Ssleep", "woken"}
    BY <1>1, <1>2 DEF QueueExact, SemTypeOK, SchedTypeOK
  <2>2. \A u \in Threads, r \in Sems : Asleep(u)' /\ inP'[u] = r <=> Asleep(u) /\ inP[u] = r
    BY <1>1, <1>2, <1>3 DEF SemTypeOK
  <2> QED  BY <1>1, <2>1, <2>2 DEF QueueExact
<1>7. NoLostWakeup'
  <2> SUFFICES ASSUME NEW r \in Sems, ThreadQueue'[r] # <<>>
               PROVE  value'[r] <= Cardinality(Woken(r)')
    BY DEF NoLostWakeup
  <2>1. value[r] <= Cardinality(Woken(r)) /\ value[r] \in Nat
    BY <1>1 DEF NoLostWakeup, SemTypeOK
  <2>2. IsFiniteSet(Woken(r))
    BY FS_Subset DEF Woken
  <2>3. Cardinality(Woken(r)) \in Nat
    BY <2>2, FS_CardinalityType
  <2>4. CASE inP[t] = r
    <3>1. r = s /\ t \in Woken(r)
      BY <1>2, <2>4 DEF Woken, SemaphoreAssumption
    <3>2. Woken(r)' = Woken(r) \ {t}
      BY <1>1, <1>3, <3>1 DEF Woken, SemTypeOK
    <3>3. Cardinality(Woken(r)') = Cardinality(Woken(r)) - 1
      BY <2>2, <3>1, <3>2, FS_RemoveElement
    <3> QED  BY <1>1, <2>1, <2>3, <3>1, <3>3 DEF SemTypeOK
  <2>5. CASE inP[t] # r
    <3>1. Woken(r)' = Woken(r)
      BY <1>1, <1>3, <2>5 DEF Woken, SemTypeOK
    <3>2. value'[r] <= value[r] /\ value'[r] \in Int
      BY <1>1, <2>1 DEF SemTypeOK
    <3> QED  BY <2>1, <2>3, <3>1, <3>2
  <2> QED  BY <2>4, <2>5
<1> QED  BY <1>5, <1>6, <1>7 DEF SemInv

\* V, by a thread or by a handler.
LEMMA VInv ==
  ASSUME SemInv, SchedInv', NEW s \in Sems,
         HandlerV(s) \/ \E t \in Threads : V(t, s)
  PROVE  SemInv'
<1> USE SemaphoreAssumption
<1>1. /\ SchedTypeOK /\ SemTypeOK /\ QueueExact /\ NoLostWakeup
      /\ value[s] < MaxValue
      /\ value' = [value EXCEPT ![s] = @ + 1]
      /\ ThreadQueue' = [ThreadQueue EXCEPT ![s] = IF @ = <<>> THEN @ ELSE Tail(@)]
      /\ inP' = inP
  BY DEF SemInv, SchedInv, V, HandlerV, Increment
<1>2. CASE ThreadQueue[s] = <<>>
  <2>1. \/ UNCHANGED schedVars
        \/ \E t \in Threads : CriticalSection(t)
    BY <1>2 DEF V, HandlerV
  <2>2. \A u \in Threads :
          /\ Asleep(u)' <=> Asleep(u)
          /\ at'[u] \in {"Ssleep", "woken"} <=> at[u] \in {"Ssleep", "woken"}
    BY <1>1, <2>1 DEF schedVars, CriticalSection, Asleep, SchedTypeOK
  <2>3. ThreadQueue' = ThreadQueue
    BY <1>1, <1>2 DEF SemTypeOK
  <2>4. SemTypeOK'
    BY <1>1, <2>3 DEF SemTypeOK
  <2>5. QueueExact'
    BY <1>1, <2>2, <2>3 DEF QueueExact
  <2>6. \A r \in Sems : Woken(r)' = Woken(r)
    BY <1>1, <2>2 DEF Woken
  <2>7. NoLostWakeup'
    BY <1>1, <1>2, <2>3, <2>6 DEF NoLostWakeup, SemTypeOK
  <2> QED  BY <2>4, <2>5, <2>7 DEF SemInv
<1>3. CASE ThreadQueue[s] # <<>>
  <2> DEFINE h == Head(ThreadQueue[s])
             tl == Tail(ThreadQueue[s])
  <2>1. HandlerWake(h) \/ \E t \in Threads : Wake(t, h)
    BY <1>3 DEF V, HandlerV
  <2>2. /\ h \in Threads
        /\ tl \in Seq(Threads)
        /\ \A u : InList(tl, u) <=> InList(ThreadQueue[s], u) /\ u # h
        /\ NoDuplicate(tl)
    BY <1>1, <1>3, RemoveFrontProperties DEF SemTypeOK, QueueExact
  <2>3. Asleep(h) /\ inP[h] = s
    BY <1>3, HeadOfQueue
  <2>4. ThreadQueue' = [ThreadQueue EXCEPT ![s] = tl]
    BY <1>1, <1>3 DEF SemTypeOK
  <2> HIDE DEF h, tl
  <2>5. /\ status' = [status EXCEPT ![h] = "READY"]
        /\ \A u \in Threads :
             /\ at'[u] = "Ssleep" <=> at[u] = "Ssleep"
             /\ at'[u] = "woken" <=> at[u] = "woken"
    BY <1>1, <2>1 DEF HandlerWake, Wake, SchedTypeOK
  <2>6. \A u \in Threads : Asleep(u)' <=> Asleep(u) /\ u # h
    BY <1>1, <2>2, <2>5 DEF Asleep, SchedTypeOK
  <2>7. SemTypeOK'
    BY <1>1, <2>2, <2>4 DEF SemTypeOK
  <2>8. QueueExact'
    <3>1. \A u \in Threads : inP'[u] # NoSem <=> at'[u] \in {"Ssleep", "woken"}
      BY <1>1, <2>5 DEF QueueExact
    <3>2. ASSUME NEW r \in Sems
          PROVE  /\ \A u \in Threads : InList(ThreadQueue'[r], u) <=> Asleep(u)' /\ inP'[u] = r
                 /\ NoDuplicate(ThreadQueue'[r])
      <4>1. CASE r = s
        <5>1. ThreadQueue'[r] = tl
          BY <1>1, <2>4, <4>1 DEF SemTypeOK
        <5>2. ASSUME NEW u \in Threads
              PROVE  InList(tl, u) <=> Asleep(u)' /\ inP'[u] = r
          <6>1. InList(tl, u) <=> InList(ThreadQueue[s], u) /\ u # h
            BY <2>2
          <6>2. InList(ThreadQueue[s], u) <=> Asleep(u) /\ inP[u] = s
            BY <1>1 DEF QueueExact
          <6> QED  BY <1>1, <2>6, <4>1, <6>1, <6>2
        <5> QED  BY <2>2, <5>1, <5>2
      <4>2. CASE r # s
        BY <1>1, <2>2, <2>3, <2>4, <2>6, <4>2 DEF QueueExact, SemTypeOK
      <4> QED  BY <4>1, <4>2
    <3> QED  BY <3>1, <3>2 DEF QueueExact
  <2>9. NoLostWakeup'
    <3> SUFFICES ASSUME NEW r \in Sems, ThreadQueue'[r] # <<>>
                 PROVE  value'[r] <= Cardinality(Woken(r)')
      BY DEF NoLostWakeup
    <3>1. ThreadQueue[r] # <<>>
      BY <1>1, <1>3, <2>4 DEF SemTypeOK
    <3>2. value[r] <= Cardinality(Woken(r)) /\ value[r] \in Nat
      BY <1>1, <3>1 DEF NoLostWakeup, SemTypeOK
    <3>3. IsFiniteSet(Woken(r))
      BY FS_Subset DEF Woken
    <3>4. Cardinality(Woken(r)) \in Nat
      BY <3>3, FS_CardinalityType
    <3>5. CASE r = s
      <4>1. h \notin Woken(r) /\ Woken(r)' = Woken(r) \cup {h}
        BY <1>1, <2>2, <2>3, <2>6, <3>5 DEF Woken
      <4>2. Cardinality(Woken(r)') = Cardinality(Woken(r)) + 1
        BY <3>3, <4>1, FS_AddElement
      <4> QED  BY <1>1, <3>2, <3>4, <3>5, <4>2 DEF SemTypeOK
    <3>6. CASE r # s
      <4>1. Woken(r)' = Woken(r)
        BY <1>1, <2>3, <2>6, <3>6 DEF Woken
      <4> QED  BY <1>1, <3>2, <3>6, <4>1 DEF SemTypeOK
    <3> QED  BY <3>5, <3>6
  <2> QED  BY <2>7, <2>8, <2>9 DEF SemInv
<1> QED  BY <1>2, <1>3

-----------------------------------------------------------------------------

\* No thread waits when the kernel boots.
LEMMA SemInitInv == SemInit => SemInv
<1> SUFFICES ASSUME SemInit PROVE SemInv
  OBVIOUS
<1> USE SemaphoreAssumption DEF SemInit
<1>1. SchedInv
  BY SchedInitInv
<1>2. SemTypeOK
  BY EmptySeq DEF SemTypeOK
<1>3. QueueExact
  BY DEF QueueExact, SchedInit, InList, NoDuplicate, Asleep
<1>4. NoLostWakeup
  BY DEF NoLostWakeup
<1> QED  BY <1>1, <1>2, <1>3, <1>4 DEF SemInv

\* Every step keeps the invariant.
LEMMA SemNextInv == SemInv /\ [SemNext]_vars => SemInv'
<1> SUFFICES ASSUME SemInv, [SemNext]_vars PROVE SemInv'
  OBVIOUS
<1>1. SchedInv'
  BY SemStepIsSchedStep, SchedNextInv DEF SemInv
<1>2. ASSUME NEW t \in Threads, NEW s \in Sems, P(t, s) \/ PWoken(t, s)
      PROVE  SemInv'
  BY <1>1, <1>2, EnqueueInv, ConsumeInv DEF P, PWoken
<1>3. ASSUME NEW s \in Sems, HandlerV(s) \/ \E t \in Threads : V(t, s)
      PROVE  SemInv'
  BY <1>1, <1>3, VInv
<1> QED  BY <1>1, <1>2, <1>3, KernelStepInv DEF SemNext

\* The invariant holds throughout every run.
THEOREM SemaphoreInvariant == SemSpec => []SemInv
BY SemInitInv, SemNextInv, PTL DEF SemSpec

\* What is proved of the scheduler holds with semaphores on top of it: every
\* run is a run of Scheduler.
THEOREM SemaphoreOnScheduler == SemSpec => SchedSpec
<1>1. SemInit => SchedInit
  BY DEF SemInit
<1>2. SemInv /\ [SemNext]_vars => [SchedNext]_schedVars
  BY SemStepIsSchedStep
<1> QED  BY <1>1, <1>2, SemaphoreInvariant, PTL DEF SemSpec, SchedSpec

\* The queues hold exactly the sleepers, and no wake-up is lost.
THEOREM SemaphoreNoLostWakeup == SemSpec => [](QueueExact /\ NoLostWakeup)
<1>1. SemInv => QueueExact /\ NoLostWakeup
  BY DEF SemInv
<1> QED  BY <1>1, SemaphoreInvariant, PTL

-----------------------------------------------------------------------------
(***************************************************************************)
(* The refinement.  A thread waits, in the abstract semaphore, while inP   *)
(* names the semaphore; only Enqueue and Consume change that.              *)
(***************************************************************************)
Waiting == [s \in Sems |-> {t \in Threads : inP[t] = s}]

\* A call of P, or its continuation, is an abstract step or no step at all.
LEMMA PIsAbstract ==
  ASSUME SemInv, NEW t \in Threads, NEW s \in Sems, P(t, s) \/ PWoken(t, s)
  PROVE  \/ Abstract!PassThrough(t, s) \/ Abstract!Await(t, s) \/ Abstract!Complete(t, s)
         \/ UNCHANGED Abstract!absVars
<1> USE SemaphoreAssumption
<1>1. SemTypeOK /\ QueueExact
  BY DEF SemInv
<1>2. CASE Enqueue(t, s) /\ Sleep(t)
  <2>1. inP[t] = NoSem
    BY <1>1, <1>2 DEF Sleep, QueueExact
  <2>2. Abstract!Idle(t)
    BY <2>1 DEF Abstract!Idle
  <2>3. Waiting' = [Waiting EXCEPT ![s] = @ \cup {t}]
    <3>1. inP' = [inP EXCEPT ![t] = s] /\ inP \in [Threads -> Sems \cup {NoSem}]
      BY <1>1, <1>2 DEF Enqueue, SemTypeOK
    <3>2. \A r \in Sems : {u \in Threads : inP'[u] = r}
                         = IF r = s THEN {u \in Threads : inP[u] = s} \cup {t}
                           ELSE {u \in Threads : inP[u] = r}
      BY <2>1, <3>1
    <3> QED  BY <3>2 DEF Waiting
  <2>4. Abstract!Await(t, s)
    BY <1>2, <2>2, <2>3 DEF Abstract!Await, Enqueue, Waiting
  <2> QED  BY <2>4
<1>3. CASE Consume(t, s) /\ CriticalSection(t)
  <2>1. inP[t] = NoSem
    BY <1>1, <1>3 DEF CriticalSection, QueueExact
  <2>2. Abstract!Idle(t)
    BY <2>1 DEF Abstract!Idle
  <2>3. inP' = inP
    BY <1>1, <1>3, <2>1 DEF Consume, SemTypeOK
  <2>4. value[s] > 0
    BY <1>1, <1>3 DEF Consume, SemTypeOK
  <2>5. Abstract!PassThrough(t, s)
    BY <1>3, <2>2, <2>3, <2>4 DEF Abstract!PassThrough, Consume
  <2> QED  BY <2>5
<1>4. CASE inP[t] = s /\ Enqueue(t, s) /\ SleepAgain(t)
  <2>1. inP' = inP
    BY <1>1, <1>4 DEF Enqueue, SemTypeOK
  <2> QED  BY <1>4, <2>1 DEF Enqueue, Abstract!absVars
<1>5. CASE inP[t] = s /\ Consume(t, s) /\ LeaveAfterSleep(t)
  <2>1. Waiting' = [Waiting EXCEPT ![s] = @ \ {t}]
    BY <1>1, <1>5 DEF Consume, SemTypeOK, Waiting
  <2>2. value[s] > 0
    BY <1>1, <1>5 DEF Consume, SemTypeOK
  <2>3. Abstract!Complete(t, s)
    BY <1>5, <2>1, <2>2 DEF Abstract!Complete, Consume, Waiting
  <2> QED  BY <2>3
<1> QED  BY <1>2, <1>3, <1>4, <1>5 DEF P, PWoken

\* Every step of the semaphores maps to an abstract step or to none.
LEMMA SemStepIsAbstract ==
  ASSUME SemInv, [SemNext]_vars
  PROVE  [Abstract!AbsNext]_(Abstract!absVars)
<1>1. ASSUME NEW t \in Threads, NEW s \in Sems, P(t, s) \/ PWoken(t, s)
      PROVE  [Abstract!AbsNext]_(Abstract!absVars)
  BY <1>1, PIsAbstract DEF Abstract!AbsNext
<1>2. ASSUME NEW s \in Sems, HandlerV(s) \/ \E t \in Threads : V(t, s)
      PROVE  Abstract!AbsNext
  <2>1. Increment(s)
    BY <1>2 DEF HandlerV, V
  <2>2. Abstract!AbsV(s)
    BY <2>1 DEF Increment, Abstract!AbsV
  <2> QED  BY <2>2 DEF Abstract!AbsNext
<1>3. UNCHANGED semVars => UNCHANGED Abstract!absVars
  BY DEF semVars, Abstract!absVars
<1>4. ASSUME NEW t \in Threads, KernelStep(t)
      PROVE  UNCHANGED semVars
  BY <1>4 DEF KernelStep
<1> QED  BY <1>1, <1>2, <1>3, <1>4 DEF SemNext, vars

\* P and V over the scheduler implement the semaphore described in synch.h.
THEOREM SemaphoreRefinement == SemSpec => ImplementsSemaphore
<1>1. SemInit => Abstract!AbsInit
  <2> SUFFICES ASSUME SemInit PROVE Abstract!AbsInit
    OBVIOUS
  <2>1. \A s \in Sems : {t \in Threads : inP[t] = s} = {}
    BY SemaphoreAssumption DEF SemInit
  <2> QED  BY <2>1 DEF SemInit, Abstract!AbsInit
<1>2. SemInv /\ [SemNext]_vars => [Abstract!AbsNext]_(Abstract!absVars)
  BY SemStepIsAbstract
<1> QED  BY <1>1, <1>2, SemaphoreInvariant, PTL
         DEF SemSpec, ImplementsSemaphore, Abstract!AbsSafeSpec
=============================================================================
