---------------------------- MODULE SynchConsole ----------------------------
(***************************************************************************)
(* The console: the simulated keyboard and display (console.cpp) under     *)
(* their synchronous interfaces (synchconsole.cpp).  The keyboard is       *)
(* polled; what has been read waits in a buffer of one character, and is   *)
(* polled for again only when a reader has taken it.  Characters typed are *)
(* told apart by their position, characters written are only counted; the  *)
(* echo needs no turn on the display.                                      *)
(***************************************************************************)
EXTENDS Integers, Sequences, FiniteSets

CONSTANTS Readers,     \* threads in ConsoleToKernel
          Writers,     \* threads in KernelToConsole
          ReadLength, WriteLength,   \* the length each call asks for
          MaxTyped     \* a bound on what the user types

ASSUME ConsoleAssumption ==
  /\ Readers \cap Writers = {}
  /\ ReadLength \in Nat \ {0} /\ WriteLength \in Nat \ {0} /\ MaxTyped \in Nat

VARIABLES
  typed,       \* what the user has typed: "char", "return", "ctrlD", "end" (of file)
  taken,       \* how much of it the simulated keyboard has read
  incoming,    \* ConsoleInput::incoming: a position in typed, or EOF
  polls,       \* the ConsoleReadInt interrupts that are scheduled
  putBusy,     \* ConsoleOutput::putBusy
  putPending,  \* the ConsoleWriteInt interrupts that are scheduled
  conValue, conWaiting,   \* the locks and the two semaphores waitFor
  conPc,       \* where each thread is
  kernelBuf,   \* the characters that each reader has got
  written      \* how many characters each writer has written

inputVars == <<typed, taken, incoming, polls, kernelBuf>>
outputVars == <<putBusy, putPending, written>>
conVars == <<inputVars, outputVars, conValue, conWaiting, conPc>>

Keys == {"char", "return", "ctrlD", "end"}
EOF == 0

ConSems == {"lockIn", "waitIn", "lockOut", "waitOut"}

ConSemaphore == INSTANCE AbstractSemaphore
               WITH Threads <- Readers \cup Writers, Sems <- ConSems,
                    InitialValue <- [s \in ConSems |-> IF s \in {"lockIn", "lockOut"} THEN 1 ELSE 0],
                    MaxValue <- 2, value <- conValue, waiting <- conWaiting

\* The constructor of ConsoleInput schedules the first poll.
ConsoleInit ==
  /\ typed = <<>> /\ taken = 0
  /\ incoming = EOF /\ polls = 1
  /\ putBusy = FALSE /\ putPending = 0
  /\ ConSemaphore!AbsInit
  /\ conPc = [t \in Readers \cup Writers |-> "out"]
  /\ kernelBuf = [t \in Readers |-> <<>>]
  /\ written = [t \in Writers |-> 0]

ConGoto(t, place) == conPc' = [conPc EXCEPT ![t] = place]

\* P, as far as its first test: past it, or waiting.
TryP(t, s, past, asleep) ==
  \/ ConSemaphore!PassThrough(t, s) /\ ConGoto(t, past)
  \/ ConSemaphore!Await(t, s) /\ ConGoto(t, asleep)

-----------------------------------------------------------------------------
(***************************************************************************)
(* The keyboard.                                                           *)
(***************************************************************************)

\* The user types; after the end of the file nothing follows.
Type(k) ==
  /\ Len(typed) < MaxTyped
  /\ \A i \in 1..Len(typed) : typed[i] # "end"
  /\ typed' = Append(typed, k)
  /\ UNCHANGED <<taken, incoming, polls, kernelBuf, outputVars,
                 conValue, conWaiting, conPc>>

\* ConsoleInput::CallBack: poll again, or read, echo and notify; ctrl-D and the
\* end of the file leave EOF in the buffer, and notify too.
Poll ==
  /\ polls > 0
  /\ IF taken = Len(typed)
     THEN UNCHANGED <<taken, incoming, polls, conValue, conWaiting>>
     ELSE /\ taken' = taken + 1
          /\ polls' = polls - 1
          /\ IF typed[taken + 1] \in {"char", "return"}
             THEN incoming' = taken + 1
             ELSE UNCHANGED incoming
          /\ ConSemaphore!AbsV("waitIn")
  /\ UNCHANGED <<typed, kernelBuf, outputVars, conPc>>

\* ConsoleToKernel: the next GetChar, up to the P of lock->Acquire.
CallGetChar(t) ==
  /\ conPc[t] \in {"out", "read"}
  /\ TryP(t, "lockIn", "locked", "acquire")
  /\ kernelBuf' = IF conPc[t] = "out" THEN [kernelBuf EXCEPT ![t] = <<>>] ELSE kernelBuf
  /\ UNCHANGED <<typed, taken, incoming, polls, outputVars>>

LockInWoken(t) ==
  /\ conPc[t] = "acquire"
  /\ ConSemaphore!Complete(t, "lockIn")
  /\ ConGoto(t, "locked")
  /\ UNCHANGED <<inputVars, outputVars>>

\* waitFor->P().
AwaitChar(t) ==
  /\ t \in Readers /\ conPc[t] = "locked"
  /\ TryP(t, "waitIn", "available", "await")
  /\ UNCHANGED <<inputVars, outputVars>>

CharWoken(t) ==
  /\ t \in Readers /\ conPc[t] = "await"
  /\ ConSemaphore!Complete(t, "waitIn")
  /\ ConGoto(t, "available")
  /\ UNCHANGED <<inputVars, outputVars>>

\* ConsoleToKernel, after a GetChar that returned c: on, or back to the caller.
LastOfRead(t, c) ==
  \/ c # EOF /\ typed[c] = "return"
  \/ Len(kernelBuf[t]) + 1 = ReadLength

\* Mutation: the character stays in the buffer.
TakeCharKept(t) ==
  /\ conPc[t] = "available"
  /\ polls' = IF incoming # EOF THEN polls + 1 ELSE polls
  /\ kernelBuf' = [kernelBuf EXCEPT ![t] = Append(@, incoming)]
  /\ ConSemaphore!AbsV("lockIn")
  /\ ConGoto(t, IF LastOfRead(t, incoming) THEN "out" ELSE "read")
  /\ UNCHANGED <<typed, taken, incoming, outputVars>>

\* Mutation: nobody polls for the next character.
TakeCharOnly(t) ==
  /\ conPc[t] = "available"
  /\ incoming' = EOF
  /\ kernelBuf' = [kernelBuf EXCEPT ![t] = Append(@, incoming)]
  /\ ConSemaphore!AbsV("lockIn")
  /\ ConGoto(t, IF LastOfRead(t, incoming) THEN "out" ELSE "read")
  /\ UNCHANGED <<typed, taken, polls, outputVars>>

\* ConsoleInput::GetChar and lock->Release.
TakeChar(t) ==
  /\ conPc[t] = "available"
  /\ polls' = IF incoming # EOF THEN polls + 1 ELSE polls
  /\ incoming' = EOF
  /\ kernelBuf' = [kernelBuf EXCEPT ![t] = Append(@, incoming)]
  /\ ConSemaphore!AbsV("lockIn")
  /\ ConGoto(t, IF LastOfRead(t, incoming) THEN "out" ELSE "read")
  /\ UNCHANGED <<typed, taken, outputVars>>

-----------------------------------------------------------------------------
(***************************************************************************)
(* The display.                                                            *)
(***************************************************************************)

\* KernelToConsole: the next PutChar, up to the P of lock->Acquire.
CallPutChar(t) ==
  /\ conPc[t] = "out"
  /\ written[t] < WriteLength
  /\ TryP(t, "lockOut", "locked", "acquire")
  /\ UNCHANGED <<inputVars, outputVars>>

LockOutWoken(t) ==
  /\ conPc[t] = "acquire"
  /\ ConSemaphore!Complete(t, "lockOut")
  /\ ConGoto(t, "locked")
  /\ UNCHANGED <<inputVars, outputVars>>

\* ConsoleOutput::PutChar, which asserts that the display is not busy.
Put(t) ==
  /\ t \in Writers /\ conPc[t] = "locked"
  /\ written' = [written EXCEPT ![t] = @ + 1]
  /\ putBusy' = TRUE
  /\ putPending' = putPending + 1
  /\ ConGoto(t, "put")
  /\ UNCHANGED <<inputVars, conValue, conWaiting>>

\* waitFor->P().
AwaitPut(t) ==
  /\ conPc[t] = "put"
  /\ TryP(t, "waitOut", "shown", "await")
  /\ UNCHANGED <<inputVars, outputVars>>

PutWoken(t) ==
  /\ t \in Writers /\ conPc[t] = "await"
  /\ ConSemaphore!Complete(t, "waitOut")
  /\ ConGoto(t, "shown")
  /\ UNCHANGED <<inputVars, outputVars>>

ReleaseOut(t) ==
  /\ conPc[t] = "shown"
  /\ ConSemaphore!AbsV("lockOut")
  /\ ConGoto(t, "out")
  /\ UNCHANGED <<inputVars, outputVars>>

\* ConsoleOutput::CallBack.
WriteDone ==
  /\ putPending > 0
  /\ putPending' = putPending - 1
  /\ putBusy' = FALSE
  /\ ConSemaphore!AbsV("waitOut")
  /\ UNCHANGED <<inputVars, written, conPc>>

-----------------------------------------------------------------------------

\* A reader goes on with its call.
Reading(t) ==
  \/ (conPc[t] = "read" /\ CallGetChar(t))
  \/ LockInWoken(t) \/ AwaitChar(t) \/ CharWoken(t) \/ TakeChar(t)

\* A writer goes on with its PutChar.
Writing(t) ==
  LockOutWoken(t) \/ Put(t) \/ AwaitPut(t) \/ PutWoken(t) \/ ReleaseOut(t)

ConsoleNext ==
  \/ \E k \in Keys : Type(k)
  \/ Poll \/ WriteDone
  \/ \E t \in Readers : Reading(t) \/ (conPc[t] = "out" /\ CallGetChar(t))
  \/ \E t \in Writers : Writing(t) \/ CallPutChar(t)

ConsoleSpec == ConsoleInit /\ [][ConsoleNext]_conVars

-----------------------------------------------------------------------------
(***************************************************************************)
(* Properties.                                                             *)
(***************************************************************************)

\* The keyboard is in one place at a time: either one poll is scheduled and the
\* buffer is empty, or what has been read has been announced once and is not yet
\* taken, or a reader has been let through and is about to take it, or EOF has
\* come and been taken, and the keyboard is dead.  ASSERT(incoming == EOF)
\* in the poll holds, and V never runs ahead of the buffer.
\* On the display a character is put only when the one before has been shown, as
\* PutChar asserts, and the interrupt that wakes its writer is the one it caused.
ConsoleExact ==
  LET announced == conValue["waitIn"]
      owner == {t \in Readers : conPc[t] = "available"}
      ended == \E i \in 1..taken : typed[i] \in {"ctrlD", "end"}
      writer == {t \in Writers : conPc[t] \in {"locked", "put", "await", "shown"}}
      waiting == {t \in Writers : conPc[t] \in {"put", "await"}}
  IN /\ Cardinality(owner) + announced + polls <= 1
     /\ (Cardinality(owner) + announced + polls = 0) => ended
     /\ incoming # EOF => polls = 0 /\ incoming = taken /\ ~ended
     /\ announced + Cardinality(owner) = 1 /\ ~ended => incoming # EOF
     /\ Cardinality(writer) <= 1
     /\ putPending + conValue["waitOut"] = Cardinality(waiting)
     /\ putBusy <=> putPending = 1

\* A thread that waits at the console with the lock in its hands is served: the
\* writer always, the reader as soon as something is typed and unless EOF has
\* come before, after which the keyboard is never polled again.
ConsoleServes ==
  /\ \A t \in Writers : conPc[t] = "await" ~> conPc[t] = "out"
  /\ \A t \in Readers :
       conPc[t] = "await" /\ taken < Len(typed) /\ (\A i \in 1..taken : typed[i] \in {"char", "return"})
         ~> conPc[t] # "await"
=============================================================================
