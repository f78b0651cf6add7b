----------------------------- MODULE MCDevices -----------------------------
(***************************************************************************)
(* Instances of the devices and their drivers for TLC.  They share nothing *)
(* but the clock, and so one behaviour exercises one of them, chosen at    *)
(* the start, while the others stay as they are.                           *)
(***************************************************************************)
EXTENDS SynchDisk, SynchConsole, PostOffice, Interrupts, TLC

CONSTANTS host0, host1,    \* the threads of the two hosts
          disk, console    \* the devices besides the timer

VARIABLE part

allVars == <<part, diskVars, conVars, postVars, intVars>>

\* The disk takes five ticks and the console three, the timer three or four, and
\* kernel code two.
MCDelay == [d \in {disk, console} |-> IF d = disk THEN 5 ELSE 3]
MCClients == (0 :> {host0}) @@ (1 :> {host1})

Only(p) ==
  /\ part = p /\ UNCHANGED part
  /\ p # "disk" => UNCHANGED diskVars
  /\ p # "console" => UNCHANGED conVars
  /\ p # "post" => UNCHANGED postVars
  /\ p # "interrupts" => UNCHANGED intVars

DeviceInit ==
  /\ part \in {"disk", "console", "post", "interrupts"}
  /\ DiskInit /\ ConsoleInit /\ PostInit /\ InterruptInit
  /\ part = "interrupts" \/ pending[1].when = 3   \* one initial state for the others

DeviceNext ==
  \/ Only("disk") /\ DiskNext
  \/ Only("console") /\ ConsoleNext
  \/ Only("post") /\ PostNext
  \/ Only("interrupts") /\ InterruptNext

\* The devices and the clock go on, and so does a thread in the middle of a call.
\* Nothing makes a thread call or a user type.
DeviceFairness ==
  /\ WF_allVars(Only("disk") /\ DiskTick)
  /\ WF_allVars(Only("disk") /\ DiskInterrupt)
  /\ \A t \in Callers : WF_allVars(Only("disk") /\ InDiskCall(t))
  /\ WF_allVars(Only("console") /\ taken < Len(typed) /\ Poll)
  /\ WF_allVars(Only("console") /\ WriteDone)
  /\ \A t \in Readers : WF_allVars(Only("console") /\ Reading(t))
  /\ \A t \in Writers : WF_allVars(Only("console") /\ Writing(t))
  /\ \A h \in Hosts :
       /\ WF_allVars(Only("post") /\ BootHost(h))
       /\ WF_allVars(Only("post") /\ SendDone(h))
       /\ WF_allVars(Only("post") /\ PollNetwork(h))
       /\ WF_allVars(Only("post") /\ PostalDelivery(h))
       /\ \A t \in MCClients[h] : WF_allVars(Only("post") /\ NetworkTest(h, t))

DeviceSpec == DeviceInit /\ [][DeviceNext]_allVars /\ DeviceFairness
=============================================================================
