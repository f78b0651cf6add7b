----------------------------- MODULE BootProofs -----------------------------
(***************************************************************************)
(* Proofs about Boot, for any command lines, files on the host, room on    *)
(* the disk and size of the transfer buffer: every object is there when    *)
(* it is called upon (AllAlive), and what -cp copies and -p prints is the  *)
(* file (TransfersAreExact).                                               *)
(***************************************************************************)
EXTENDS Boot, SequenceTheorems, WellFoundedInduction, TLAPS

-----------------------------------------------------------------------------
(***************************************************************************)
(* The order of construction.                                              *)
(***************************************************************************)

\* The elements of five sequences one after the other.
LEMMA FiveParts ==
  ASSUME NEW m1, NEW m2, NEW m3, NEW m4, NEW m5, NEW m6,
         NEW k1, NEW k2, NEW k3, NEW k4, NEW k5,
         NEW c1, NEW c2, NEW c3, NEW c4,
         NEW f1, NEW f2, NEW f3, NEW f4, NEW f5,
         NEW n1, NEW n2, NEW n3, NEW n4, NEW n5,
         NEW s,
         s = <<m1, m2, m3, m4, m5, m6>> \o <<k1, k2, k3, k4, k5>> \o <<c1, c2, c3, c4>>
              \o <<f1, f2, f3, f4, f5>> \o <<n1, n2, n3, n4, n5>>
  PROVE  /\ Len(s) = 25
         /\ s[1] = m1 /\ s[2] = m2 /\ s[3] = m3 /\ s[4] = m4 /\ s[5] = m5 /\ s[6] = m6
         /\ s[7] = k1 /\ s[8] = k2 /\ s[9] = k3 /\ s[10] = k4 /\ s[11] = k5
         /\ s[12] = c1 /\ s[13] = c2 /\ s[14] = c3 /\ s[15] = c4
         /\ s[16] = f1 /\ s[17] = f2 /\ s[18] = f3 /\ s[19] = f4 /\ s[20] = f5
         /\ s[21] = n1 /\ s[22] = n2 /\ s[23] = n3 /\ s[24] = n4 /\ s[25] = n5
<1> DEFINE R == {m1, m2, m3, m4, m5, m6, k1, k2, k3, k4, k5,
                 c1, c2, c3, c4, f1, f2, f3, f4, f5, n1, n2, n3, n4, n5}
           m == <<m1, m2, m3, m4, m5, m6>>
           k == <<k1, k2, k3, k4, k5>>
           c == <<c1, c2, c3, c4>>
           f == <<f1, f2, f3, f4, f5>>
           n == <<n1, n2, n3, n4, n5>>
<1>1. m \in Seq(R) /\ Len(m) = 6 /\ m[1] = m1 /\ m[2] = m2 /\ m[3] = m3 /\ m[4] = m4 /\ m[5] = m5 /\ m[6] = m6
  OBVIOUS
<1>2. k \in Seq(R) /\ Len(k) = 5 /\ k[1] = k1 /\ k[2] = k2 /\ k[3] = k3 /\ k[4] = k4 /\ k[5] = k5
  OBVIOUS
<1>3. c \in Seq(R) /\ Len(c) = 4 /\ c[1] = c1 /\ c[2] = c2 /\ c[3] = c3 /\ c[4] = c4
  OBVIOUS
<1>4. f \in Seq(R) /\ Len(f) = 5 /\ f[1] = f1 /\ f[2] = f2 /\ f[3] = f3 /\ f[4] = f4 /\ f[5] = f5
  OBVIOUS
<1>5. n \in Seq(R) /\ Len(n) = 5 /\ n[1] = n1 /\ n[2] = n2 /\ n[3] = n3 /\ n[4] = n4 /\ n[5] = n5
  OBVIOUS
<1>6. s = m \o k \o c \o f \o n
  OBVIOUS
<1> HIDE DEF R, m, k, c, f, n
<1> DEFINE two == m \o k
           three == two \o c
           four == three \o f
<1>7. /\ two \in Seq(R) /\ Len(two) = 11
      /\ \A i \in 1 .. 6 : two[i] = m[i]
      /\ \A i \in 1 .. 11 : i > 6 => two[i] = k[i - 6]
  <2>1. m \in Seq(R) /\ k \in Seq(R)
    BY <1>1, <1>2
  <2>2. /\ two \in Seq(R) /\ Len(two) = Len(m) + Len(k)
        /\ \A i \in 1 .. Len(m) + Len(k) : two[i] = IF i <= Len(m) THEN m[i] ELSE k[i - Len(m)]
    BY <2>1, ConcatProperties, Zenon
  <2> HIDE DEF two
  <2> QED  BY <1>1, <1>2, <2>2
<1> HIDE DEF two
<1>8. /\ three \in Seq(R) /\ Len(three) = 15
      /\ \A i \in 1 .. 11 : three[i] = two[i]
      /\ \A i \in 1 .. 15 : i > 11 => three[i] = c[i - 11]
  <2>1. two \in Seq(R) /\ c \in Seq(R)
    BY <1>7, <1>3
  <2>2. /\ three \in Seq(R) /\ Len(three) = Len(two) + Len(c)
        /\ \A i \in 1 .. Len(two) + Len(c) : three[i] = IF i <= Len(two) THEN two[i] ELSE c[i - Len(two)]
    BY <2>1, ConcatProperties, Zenon
  <2> HIDE DEF three
  <2> QED  BY <1>7, <1>3, <2>2
<1> HIDE DEF three
<1>9. /\ four \in Seq(R) /\ Len(four) = 20
      /\ \A i \in 1 .. 15 : four[i] = three[i]
      /\ \A i \in 1 .. 20 : i > 15 => four[i] = f[i - 15]
  <2>1. three \in Seq(R) /\ f \in Seq(R)
    BY <1>8, <1>4
  <2>2. /\ four \in Seq(R) /\ Len(four) = Len(three) + Len(f)
        /\ \A i \in 1 .. Len(three) + Len(f) : four[i] = IF i <= Len(three) THEN three[i] ELSE f[i - Len(three)]
    BY <2>1, ConcatProperties, Zenon
  <2> HIDE DEF four
  <2> QED  BY <1>8, <1>4, <2>2
<1>10. s = four \o n
  BY <1>6 DEF two, three, four
<1> HIDE DEF four
<1>11. /\ s \in Seq(R) /\ Len(s) = 25
       /\ \A i \in 1 .. 20 : s[i] = four[i]
       /\ \A i \in 1 .. 25 : i > 20 => s[i] = n[i - 20]
  <2>1. four \in Seq(R) /\ n \in Seq(R)
    BY <1>9, <1>5
  <2>2. /\ four \o n \in Seq(R) /\ Len(four \o n) = Len(four) + Len(n)
        /\ \A i \in 1 .. Len(four) + Len(n) : (four \o n)[i] = IF i <= Len(four) THEN four[i] ELSE n[i - Len(four)]
    BY <2>1, ConcatProperties, Zenon
  <2>3. /\ s \in Seq(R) /\ Len(s) = Len(four) + Len(n)
        /\ \A i \in 1 .. Len(four) + Len(n) : s[i] = IF i <= Len(four) THEN four[i] ELSE n[i - Len(four)]
    BY <1>10, <2>2, Zenon
  <2> QED  BY <1>9, <1>5, <2>3
<1> QED  BY <1>1, <1>2, <1>3, <1>4, <1>5, <1>7, <1>8, <1>9, <1>11

\* The constructors in the order in which main, MyKernel::Initialize and main again call them.
LEMMA Order ==
  /\ Len(BootOrder) = 25
  /\ BootOrder[1] = Builds("debug", {})
  /\ BootOrder[2] = InitPointers
  /\ BootOrder[3] = Builds("stats", {})
  /\ BootOrder[4] = Builds("interrupt", {"functions"})
  /\ BootOrder[5] = Builds("hostName", {})
  /\ BootOrder[6] = Builds("machine", {})
  /\ BootOrder[7] = Builds("kernel", {"functions", "machine"})
  /\ BootOrder[8] = Builds("currentThread", {"kernel"})
  /\ BootOrder[9] = Builds("scheduler", {"kernel"})
  /\ BootOrder[10] = Builds("alarm", {"kernel"})
  /\ BootOrder[11] = Builds("timer", Clock \cup {"functions", "alarm"})
  /\ BootOrder[12] = Builds("consoleInput", Clock \cup {"functions", "kernel"})
  /\ BootOrder[13] = Builds("synchConsoleIn", {"kernel"})
  /\ BootOrder[14] = Builds("consoleOutput", {"functions", "kernel"})
  /\ BootOrder[15] = Builds("synchConsoleOut", {"kernel"})
  /\ BootOrder[16] = Builds("frameMap", {"kernel"})
  /\ BootOrder[17] = Builds("procTable", {"kernel"})
  /\ BootOrder[18] = Builds("synchDisk", {"kernel"})
  /\ BootOrder[19] = Builds("disk", {"functions", "hostName", "synchDisk"})
  /\ BootOrder[20] = Builds("fileSystem", DiskIO)
  /\ BootOrder[21] = Builds("messageAvailable", {"functions"})
  /\ BootOrder[22] = Builds("network", Clock \cup {"functions", "hostName", "messageAvailable"})
  /\ BootOrder[23] = Builds("postOfficeIn", Sleeping \cup {"functions", "network"})
  /\ BootOrder[24] = Builds("postOfficeOut", {"functions", "hostName"})
  /\ BootOrder[25] = Builds("Cleanup", Clock \cup {"functions"})
<1> DEFINE m1 == Builds("debug", {})
           m2 == InitPointers
           m3 == Builds("stats", {})
           m4 == Builds("interrupt", {"functions"})
           m5 == Builds("hostName", {})
           m6 == Builds("machine", {})
           k1 == Builds("kernel", {"functions", "machine"})
           k2 == Builds("currentThread", {"kernel"})
           k3 == Builds("scheduler", {"kernel"})
           k4 == Builds("alarm", {"kernel"})
           k5 == Builds("timer", Clock \cup {"functions", "alarm"})
           c1 == Builds("consoleInput", Clock \cup {"functions", "kernel"})
           c2 == Builds("synchConsoleIn", {"kernel"})
           c3 == Builds("consoleOutput", {"functions", "kernel"})
           c4 == Builds("synchConsoleOut", {"kernel"})
           f1 == Builds("frameMap", {"kernel"})
           f2 == Builds("procTable", {"kernel"})
           f3 == Builds("synchDisk", {"kernel"})
           f4 == Builds("disk", {"functions", "hostName", "synchDisk"})
           f5 == Builds("fileSystem", DiskIO)
           n1 == Builds("messageAvailable", {"functions"})
           n2 == Builds("network", Clock \cup {"functions", "hostName", "messageAvailable"})
           n3 == Builds("postOfficeIn", Sleeping \cup {"functions", "network"})
           n4 == Builds("postOfficeOut", {"functions", "hostName"})
           n5 == Builds("Cleanup", Clock \cup {"functions"})
<1>1. /\ BootMachine = <<m1, m2, m3, m4, m5, m6>>
      /\ BootKernel = <<k1, k2, k3, k4, k5>>
      /\ BootConsole = <<c1, c2, c3, c4>>
      /\ BootFiles = <<f1, f2, f3, f4, f5>>
      /\ BootNetwork = <<n1, n2, n3, n4, n5>>
  BY Zenon DEF BootMachine, BootKernel, BootConsole, BootFiles, BootNetwork
<1> HIDE DEF m1, m2, m3, m4, m5, m6, k1, k2, k3, k4, k5,
                        c1, c2, c3, c4, f1, f2, f3, f4, f5, n1, n2, n3, n4, n5
<1>2. BootOrder = <<m1, m2, m3, m4, m5, m6>> \o <<k1, k2, k3, k4, k5>> \o <<c1, c2, c3, c4>>
              \o <<f1, f2, f3, f4, f5>> \o <<n1, n2, n3, n4, n5>>
  BY <1>1, Zenon DEF BootOrder
<1>3. /\ Len(BootOrder) = 25
      /\ BootOrder[1] = m1 /\ BootOrder[2] = m2 /\ BootOrder[3] = m3 /\ BootOrder[4] = m4 /\ BootOrder[5] = m5 /\ BootOrder[6] = m6
      /\ BootOrder[7] = k1 /\ BootOrder[8] = k2 /\ BootOrder[9] = k3 /\ BootOrder[10] = k4 /\ BootOrder[11] = k5
      /\ BootOrder[12] = c1 /\ BootOrder[13] = c2 /\ BootOrder[14] = c3 /\ BootOrder[15] = c4
      /\ BootOrder[16] = f1 /\ BootOrder[17] = f2 /\ BootOrder[18] = f3 /\ BootOrder[19] = f4 /\ BootOrder[20] = f5
      /\ BootOrder[21] = n1 /\ BootOrder[22] = n2 /\ BootOrder[23] = n3 /\ BootOrder[24] = n4 /\ BootOrder[25] = n5
  BY <1>2, FiveParts
<1> QED  BY <1>3, Zenon DEF m1, m2, m3, m4, m5, m6, k1, k2, k3, k4, k5,
                        c1, c2, c3, c4, f1, f2, f3, f4, f5, n1, n2, n3, n4, n5

-----------------------------------------------------------------------------
(***************************************************************************)
(* What is there when it is needed.                                        *)
(***************************************************************************)

\* What the first n constructors have built.
BuiltBy(n) == {BootOrder[i].object : i \in 1 .. n}

\* One constructor more has built one object more.
LEMMA BuiltNext ==
  /\ BuiltBy(0) = {}
  /\ \A n \in Nat : BuiltBy(n + 1) = BuiltBy(n) \cup {BootOrder[n + 1].object}
<1>1. BuiltBy(0) = {}
  BY DEF BuiltBy
<1>2. ASSUME NEW n \in Nat
      PROVE  BuiltBy(n + 1) = BuiltBy(n) \cup {BootOrder[n + 1].object}
  <2>1. 1 .. n + 1 = (1 .. n) \cup {n + 1}
    OBVIOUS
  <2> QED  BY <2>1 DEF BuiltBy
<1> QED  BY <1>1, <1>2

\* Where each object stands.
LEMMA Objects ==
  /\ BootOrder[1].object = "debug" /\ BootOrder[2].object = "functions"
  /\ BootOrder[3].object = "stats" /\ BootOrder[4].object = "interrupt"
  /\ BootOrder[5].object = "hostName" /\ BootOrder[6].object = "machine"
  /\ BootOrder[7].object = "kernel" /\ BootOrder[8].object = "currentThread"
  /\ BootOrder[9].object = "scheduler" /\ BootOrder[10].object = "alarm"
  /\ BootOrder[11].object = "timer" /\ BootOrder[12].object = "consoleInput"
  /\ BootOrder[13].object = "synchConsoleIn" /\ BootOrder[14].object = "consoleOutput"
  /\ BootOrder[15].object = "synchConsoleOut" /\ BootOrder[16].object = "frameMap"
  /\ BootOrder[17].object = "procTable" /\ BootOrder[18].object = "synchDisk"
  /\ BootOrder[19].object = "disk" /\ BootOrder[20].object = "fileSystem"
  /\ BootOrder[21].object = "messageAvailable" /\ BootOrder[22].object = "network"
  /\ BootOrder[23].object = "postOfficeIn" /\ BootOrder[24].object = "postOfficeOut"
  /\ BootOrder[25].object = "Cleanup"
BY Order DEF Builds, InitPointers

\* What is there once n constructors have run.
LEMMA Built ==
  ASSUME NEW n \in Nat
  PROVE
  /\ (n >= 1 => "debug" \in BuiltBy(n)) /\ (n >= 2 => "functions" \in BuiltBy(n))
  /\ (n >= 3 => "stats" \in BuiltBy(n)) /\ (n >= 4 => "interrupt" \in BuiltBy(n))
  /\ (n >= 5 => "hostName" \in BuiltBy(n)) /\ (n >= 6 => "machine" \in BuiltBy(n))
  /\ (n >= 7 => "kernel" \in BuiltBy(n)) /\ (n >= 8 => "currentThread" \in BuiltBy(n))
  /\ (n >= 9 => "scheduler" \in BuiltBy(n)) /\ (n >= 10 => "alarm" \in BuiltBy(n))
  /\ (n >= 11 => "timer" \in BuiltBy(n)) /\ (n >= 12 => "consoleInput" \in BuiltBy(n))
  /\ (n >= 13 => "synchConsoleIn" \in BuiltBy(n)) /\ (n >= 14 => "consoleOutput" \in BuiltBy(n))
  /\ (n >= 15 => "synchConsoleOut" \in BuiltBy(n)) /\ (n >= 16 => "frameMap" \in BuiltBy(n))
  /\ (n >= 17 => "procTable" \in BuiltBy(n)) /\ (n >= 18 => "synchDisk" \in BuiltBy(n))
  /\ (n >= 19 => "disk" \in BuiltBy(n)) /\ (n >= 20 => "fileSystem" \in BuiltBy(n))
  /\ (n >= 21 => "messageAvailable" \in BuiltBy(n)) /\ (n >= 22 => "network" \in BuiltBy(n))
  /\ (n >= 23 => "postOfficeIn" \in BuiltBy(n)) /\ (n >= 24 => "postOfficeOut" \in BuiltBy(n))
  /\ (n >= 25 => "Cleanup" \in BuiltBy(n))
<1>1. \A i \in 1 .. n : BootOrder[i].object \in BuiltBy(n)
  BY DEF BuiltBy
<1> QED  BY <1>1, Objects

\* The devices and sleeping threads need these.
LEMMA Needs ==
  /\ Clock = {"stats", "interrupt"}
  /\ Sleeping = {"stats", "interrupt", "kernel", "currentThread", "scheduler"}
  /\ DiskIO = {"stats", "interrupt", "kernel", "currentThread", "scheduler", "disk", "synchDisk"}
<1>1. Clock = {"stats", "interrupt"}
  BY DEF Clock
<1>2. Glue("setInterruptLevel") = {"interrupt"} /\ Glue("interruptIdle") = {"interrupt"}
  BY DEF Glue
<1>3. Glue("diskReadRequest") = {"disk"} /\ Glue("diskWriteRequest") = {"disk"}
  BY DEF Glue
<1>4. Sleeping = {"stats", "interrupt", "kernel", "currentThread", "scheduler"}
  BY <1>1, <1>2 DEF Sleeping
<1> QED  BY <1>1, <1>3, <1>4 DEF DiskIO

\* A constructor calls upon nothing that is not yet built.
LEMMA NeedsBuilt == \A n \in 0 .. 24 : BootOrder[n + 1].needs \subseteq BuiltBy(n)
<1> SUFFICES ASSUME NEW n \in 0 .. 24 PROVE BootOrder[n + 1].needs \subseteq BuiltBy(n)
  OBVIOUS
<1>1. CASE n = 0
  BY <1>1, Order, Needs, Built DEF Builds, InitPointers
<1>2. CASE n = 1
  BY <1>2, Order, Needs, Built DEF Builds, InitPointers
<1>3. CASE n = 2
  BY <1>3, Order, Needs, Built DEF Builds, InitPointers
<1>4. CASE n = 3
  BY <1>4, Order, Needs, Built DEF Builds, InitPointers
<1>5. CASE n = 4
  BY <1>5, Order, Needs, Built DEF Builds, InitPointers
<1>6. CASE n = 5
  BY <1>6, Order, Needs, Built DEF Builds, InitPointers
<1>7. CASE n = 6
  BY <1>7, Order, Needs, Built DEF Builds, InitPointers
<1>8. CASE n = 7
  BY <1>8, Order, Needs, Built DEF Builds, InitPointers
<1>9. CASE n = 8
  BY <1>9, Order, Needs, Built DEF Builds, InitPointers
<1>10. CASE n = 9
  BY <1>10, Order, Needs, Built DEF Builds, InitPointers
<1>11. CASE n = 10
  BY <1>11, Order, Needs, Built DEF Builds, InitPointers
<1>12. CASE n = 11
  BY <1>12, Order, Needs, Built DEF Builds, InitPointers
<1>13. CASE n = 12
  BY <1>13, Order, Needs, Built DEF Builds, InitPointers
<1>14. CASE n = 13
  BY <1>14, Order, Needs, Built DEF Builds, InitPointers
<1>15. CASE n = 14
  BY <1>15, Order, Needs, Built DEF Builds, InitPointers
<1>16. CASE n = 15
  BY <1>16, Order, Needs, Built DEF Builds, InitPointers
<1>17. CASE n = 16
  BY <1>17, Order, Needs, Built DEF Builds, InitPointers
<1>18. CASE n = 17
  BY <1>18, Order, Needs, Built DEF Builds, InitPointers
<1>19. CASE n = 18
  BY <1>19, Order, Needs, Built DEF Builds, InitPointers
<1>20. CASE n = 19
  BY <1>20, Order, Needs, Built DEF Builds, InitPointers
<1>21. CASE n = 20
  BY <1>21, Order, Needs, Built DEF Builds, InitPointers
<1>22. CASE n = 21
  BY <1>22, Order, Needs, Built DEF Builds, InitPointers
<1>23. CASE n = 22
  BY <1>23, Order, Needs, Built DEF Builds, InitPointers
<1>24. CASE n = 23
  BY <1>24, Order, Needs, Built DEF Builds, InitPointers
<1>25. CASE n = 24
  BY <1>25, Order, Needs, Built DEF Builds, InitPointers
<1> QED  BY <1>1, <1>2, <1>3, <1>4, <1>5, <1>6, <1>7, <1>8, <1>9, <1>10, <1>11, <1>12, <1>13,
            <1>14, <1>15, <1>16, <1>17, <1>18, <1>19, <1>20, <1>21, <1>22, <1>23, <1>24, <1>25

\* An interrupt handler needs nothing that comes after the disk; the network's, the network.
LEMMA HandlersBuilt ==
  /\ DOMAIN HandlerNeeds = {"timer", "consoleInput", "consoleOutput", "disk", "network"}
  /\ \A d \in DOMAIN HandlerNeeds : HandlerNeeds[d] \subseteq BuiltBy(25)
  /\ \A d \in DOMAIN HandlerNeeds : d # "network" => HandlerNeeds[d] \subseteq BuiltBy(19)
<1>1. DOMAIN HandlerNeeds = {"timer", "consoleInput", "consoleOutput", "disk", "network"}
  BY DEF HandlerNeeds
<1>2. Glue("alarmCallBack") = {"interrupt"}
  BY DEF Glue
<1>3. /\ HandlerNeeds["timer"] \subseteq BuiltBy(19) /\ HandlerNeeds["timer"] \subseteq BuiltBy(25)
  BY <1>2, Needs, Built DEF HandlerNeeds
<1>4. /\ HandlerNeeds["consoleInput"] \subseteq BuiltBy(19) /\ HandlerNeeds["consoleInput"] \subseteq BuiltBy(25)
  BY Needs, Built DEF HandlerNeeds
<1>5. /\ HandlerNeeds["consoleOutput"] \subseteq BuiltBy(19) /\ HandlerNeeds["consoleOutput"] \subseteq BuiltBy(25)
  BY Needs, Built DEF HandlerNeeds
<1>6. /\ HandlerNeeds["disk"] \subseteq BuiltBy(19) /\ HandlerNeeds["disk"] \subseteq BuiltBy(25)
  BY Needs, Built DEF HandlerNeeds
<1>7. HandlerNeeds["network"] \subseteq BuiltBy(25)
  BY Needs, Built DEF HandlerNeeds
<1> QED  BY <1>1, <1>3, <1>4, <1>5, <1>6, <1>7

-----------------------------------------------------------------------------
(***************************************************************************)
(* Every step finds what it needs.                                         *)
(***************************************************************************)

Constructing == {"boot", "waiting", "request", "opened"}

\* What is alive at each stage of main; and which devices may interrupt it while the file
\* system waits for the disk: all but the network, which comes after.
AliveInv ==
  /\ missing = {}
  /\ armed \subseteq DOMAIN HandlerNeeds
  /\ stage = "main" => done = 0 /\ alive = {} /\ armed = {}
  /\ stage \in Constructing => done \in 0 .. 24 /\ alive = BuiltBy(done) /\ ("network" \in armed => done >= 22)
  /\ stage \in {"waiting", "request", "opened"} => done = 19
  /\ stage \in Running => alive = BuiltBy(25)
  /\ stage = "shutdown" =>
       /\ done \in 1 .. 2
       /\ alive = BuiltBy(25) \ (HaltDeletes.deletes \cup (IF done = 2 THEN {"disk"} ELSE {}))

\* What is used and alive is not missing.
LEMMA NoneMissing ==
  ASSUME NEW objects, Uses(objects), objects \subseteq alive, missing = {}
  PROVE  missing' = {}
BY DEF Uses

\* Reading the command line builds nothing.
LEMMA ParseMainAlive == AliveInv /\ ParseMain => AliveInv'
<1> SUFFICES ASSUME AliveInv, ParseMain PROVE AliveInv'
  OBVIOUS
<1>1. /\ stage = "main" /\ stage' \in {"abort", "boot"} /\ UNCHANGED <<done, alive, armed, missing>>
  BY DEF ParseMain
<1>2. done = 0 /\ alive = BuiltBy(0) /\ armed = {}
  BY <1>1, BuiltNext DEF AliveInv
<1> QED  BY <1>1, <1>2 DEF AliveInv, Constructing, Running

\* Which constructor comes; the file system's is the only one that waits.
LEMMA Coming20 ==
  ASSUME done \in 0 .. 24
  PROVE  /\ Coming.object = "fileSystem" => done = 19
         /\ Coming.object = "network" => done = 21
         /\ Coming.needs \subseteq BuiltBy(done)
         /\ BuiltBy(done + 1) = BuiltBy(done) \cup {Coming.object}
<1>1. Coming.object = "fileSystem" => done = 19
  BY Objects DEF Coming
<1>2. Coming.object = "network" => done = 21
  BY Objects DEF Coming
<1>3. Coming.needs \subseteq BuiltBy(done)
  BY NeedsBuilt, Zenon DEF Coming
<1>4. BuiltBy(done + 1) = BuiltBy(done) \cup {Coming.object}
  <2>1. done \in Nat
    OBVIOUS
  <2> QED  BY <2>1, BuiltNext, Zenon DEF Coming
<1> QED  BY <1>1, <1>2, <1>3, <1>4

\* A constructor finds what it needs and adds its object.
LEMMA BuildAlive == AliveInv /\ Build => AliveInv'
<1> SUFFICES ASSUME AliveInv, Build PROVE AliveInv'
  OBVIOUS
<1>1. /\ stage \in {"boot", "opened"} /\ done \in 0 .. 24 /\ alive = BuiltBy(done) /\ missing = {}
      /\ "network" \in armed => done >= 22
      /\ armed \subseteq DOMAIN HandlerNeeds
  BY DEF Build, AliveInv, Constructing
<1>2. missing' = {}
  BY <1>1, Coming20, NoneMissing DEF Build
<1>3. CASE Refused(Coming.object)
  <2>1. stage' = "abort" /\ UNCHANGED <<done, alive, armed>>
    BY <1>3 DEF Build
  <2> QED  BY <1>1, <1>2, <2>1 DEF AliveInv, Constructing, Running
<1>4. CASE ~Refused(Coming.object)
  <2>1. /\ alive' = alive \cup {Coming.object} /\ armed' = armed \cup Arms(Coming.object)
        /\ IF done + 1 = Len(BootOrder) THEN stage' = "requests" /\ done' = 0
                                        ELSE stage' = "boot" /\ done' = done + 1
    BY <1>4 DEF Build
  <2>2. alive' = BuiltBy(done + 1)
    BY <1>1, <2>1, Coming20
  <2>3. armed' \subseteq DOMAIN HandlerNeeds
    BY <1>1, <2>1, HandlersBuilt DEF Arms
  <2>4. "network" \in armed' => done + 1 >= 22
    BY <1>1, <2>1, Coming20 DEF Arms
  <2>5. CASE done = 24
    <3>1. stage' = "requests" /\ alive' = BuiltBy(25)
      BY <2>1, <2>2, <2>5, Order
    <3> QED  BY <1>2, <2>3, <3>1 DEF AliveInv, Constructing, Running
  <2>6. CASE done # 24
    <3>1. stage' = "boot" /\ done' = done + 1 /\ done' \in 0 .. 24
      BY <1>1, <2>1, <2>6, Order
    <3> QED  BY <1>2, <2>2, <2>3, <2>4, <3>1 DEF AliveInv, Constructing, Running
  <2> QED  BY <2>5, <2>6
<1> QED  BY <1>3, <1>4

\* While the file system's constructor waits for the disk nothing is built.
LEMMA WaitAlive ==
  AliveInv /\ (BeginFileSystem \/ NextRequest) => AliveInv'
<1> SUFFICES ASSUME AliveInv, BeginFileSystem \/ NextRequest PROVE AliveInv'
  OBVIOUS
<1>1. /\ stage \in {"boot", "request"} /\ stage' = "waiting" /\ armed' = armed \cup {"disk"}
      /\ Uses(Coming.needs) /\ UNCHANGED <<done, alive>>
  BY DEF BeginFileSystem, NextRequest
<1>2. /\ done \in 0 .. 24 /\ alive = BuiltBy(done) /\ missing = {}
      /\ "network" \in armed => done >= 22
      /\ armed \subseteq DOMAIN HandlerNeeds
  BY <1>1 DEF AliveInv, Constructing
<1>3. missing' = {}
  <2>1. Coming.needs \subseteq alive
    BY <1>2, Coming20, Zenon
  <2> QED  BY <1>1, <1>2, <2>1, NoneMissing, Zenon
<1>4. done = 19
  <2>1. CASE BeginFileSystem
    <3>1. Coming.object = "fileSystem"
      BY <2>1, Zenon DEF BeginFileSystem
    <3> QED  BY <1>2, <3>1, Coming20, Zenon
  <2>2. CASE NextRequest
    <3>1. stage = "request"
      BY <2>2 DEF NextRequest
    <3> QED  BY <3>1 DEF AliveInv
  <2> QED  BY <2>1, <2>2
<1>5. armed' \subseteq DOMAIN HandlerNeeds
  BY <1>1, <1>2, HandlersBuilt
<1>6. "network" \in armed' => "network" \in armed
  BY <1>1
<1> QED  BY <1>1, <1>2, <1>3, <1>4, <1>5, <1>6 DEF AliveInv, Constructing, Running

\* The handler of an interrupt finds what it needs, in main and in the half-built kernel.
LEMMA HandlerAlive ==
  ASSUME AliveInv, NEW d \in DOMAIN HandlerNeeds, Handler(d)
  PROVE  AliveInv'
<1>1. d \in armed /\ stage \in Running \cup {"waiting"} /\ Uses(HandlerNeeds[d]) /\ UNCHANGED <<done, alive>>
      /\ missing = {} /\ armed \subseteq DOMAIN HandlerNeeds
  BY DEF Handler, AliveInv
<1>2. armed' \subseteq armed
  BY DEF Handler
<1>3. CASE stage \in Running
  <2>1. stage' = stage
    BY <1>3 DEF Handler, Running
  <2>2. missing' = {}
    BY <1>1, <1>3, HandlersBuilt, NoneMissing DEF AliveInv
  <2> QED  BY <1>1, <1>2, <1>3, <2>1, <2>2 DEF AliveInv, Running, Constructing
<1>4. CASE stage = "waiting"
  <2>1. done = 19 /\ alive = BuiltBy(19) /\ "network" \notin armed
    BY <1>4 DEF AliveInv, Constructing
  <2>2. missing' = {}
    BY <1>1, <2>1, HandlersBuilt, NoneMissing
  <2>3. stage' \in {"waiting", "opened", "request"}
    BY <1>4 DEF Handler
  <2> QED  BY <1>1, <1>2, <2>1, <2>2, <2>3 DEF AliveInv, Running, Constructing
<1> QED  BY <1>1, <1>3, <1>4

\* A request that main carries out, or a part of one.
LEMMA RequestAlive ==
  ASSUME AliveInv, stage \in Running, stage' \in Running, alive' = alive, missing' = {},
         armed' \subseteq DOMAIN HandlerNeeds
  PROVE  AliveInv'
BY DEF AliveInv, Running, Constructing

Request ==
  \/ NotAsked \/ NetworkTest \/ ThreadSelfTest \/ ConsoleTest \/ RemoveAsked \/ ListFiles
  \/ CopyRefused \/ CopyBegins \/ CopyChunk \/ CopyEnds \/ PrintBegins \/ PrintChunk \/ Execute

\* What main carries out finds what it needs.
LEMMA RequestsAlive == AliveInv /\ Request => AliveInv'
<1> SUFFICES ASSUME AliveInv, Request PROVE AliveInv'
  OBVIOUS
<1>1. stage \in Running /\ stage' \in Running /\ alive' = alive
  BY DEF Request, NotAsked, NetworkTest, ThreadSelfTest, ConsoleTest, RemoveAsked, ListFiles, CopyRefused, CopyBegins,
         CopyChunk, CopyEnds, PrintBegins, PrintChunk, Execute, Asked, NextOne, Running
<1>2. armed \subseteq DOMAIN HandlerNeeds /\ missing = {} /\ alive = BuiltBy(25)
  BY <1>1 DEF AliveInv
<1>3. armed' \subseteq armed \cup {"disk", "consoleInput", "consoleOutput", "network"}
  BY DEF Request, NotAsked, NetworkTest, ThreadSelfTest, ConsoleTest, RemoveAsked, ListFiles, CopyRefused, CopyBegins,
         CopyChunk, CopyEnds, PrintBegins, PrintChunk, Execute, Asked, UsesDisk
<1>4. armed' \subseteq DOMAIN HandlerNeeds
  BY <1>2, <1>3, HandlersBuilt
<1>5. /\ Glue("conGetChar") = {"consoleInput"} /\ Glue("conPutChar") = {"consoleOutput"}
      /\ Glue("writeVMRegister") = {"machine"} /\ Glue("restoreMachineState") = {"machine"}
  BY DEF Glue
<1>6. PICK objects : /\ missing' = missing \/ Uses(objects)
                     /\ objects \in
                         { Sleeping \cup {"network", "postOfficeIn", "postOfficeOut"}, Sleeping,
                           Sleeping \cup Glue("conGetChar") \cup Glue("conPutChar") \cup {"synchConsoleIn", "synchConsoleOut"},
                           DiskIO \cup {"fileSystem"}, {"functions", "fileSystem"},
                           DiskIO \cup {"fileSystem", "procTable", "frameMap"}
                             \cup Glue("writeVMRegister") \cup Glue("restoreMachineState")}
  BY DEF Request, NotAsked, NetworkTest, ThreadSelfTest, ConsoleTest, RemoveAsked, ListFiles, CopyRefused, CopyBegins,
         CopyChunk, CopyEnds, PrintBegins, PrintChunk, Execute, Asked, UsesDisk
<1>7. objects \subseteq BuiltBy(25)
  BY <1>5, <1>6, Needs, Built
<1>8. missing' = {}
  BY <1>2, <1>6, <1>7, NoneMissing
<1> QED  BY <1>1, <1>4, <1>8, RequestAlive

\* Halt, the destructors and another start.
LEMMA EndAlive ==
  AliveInv /\ (EndOfMain \/ DeleteRest \/ SysHalt \/ Cleanup \/ Restart) => AliveInv'
<1> SUFFICES ASSUME AliveInv, EndOfMain \/ DeleteRest \/ SysHalt \/ Cleanup \/ Restart PROVE AliveInv'
  OBVIOUS
<1>1. HaltDeletes.needs = {"stats"} /\ HaltDeletes.deletes = {"machine", "interrupt", "stats"}
  BY DEF HaltDeletes
<1>2. /\ Len(Shutdown) = 3 /\ Shutdown[1] = HaltDeletes
      /\ Shutdown[2] = [needs |-> {"functions"}, deletes |-> {"disk"}]
      /\ Shutdown[3] = [needs |-> {}, deletes |-> {"scheduler", "alarm", "synchConsoleIn", "synchConsoleOut", "frameMap",
                                                   "procTable", "synchDisk", "fileSystem", "kernel"}]
  BY DEF Shutdown
<1>3. /\ Shutdown[2].needs = {"functions"} /\ Shutdown[2].deletes = {"disk"}
      /\ Shutdown[3].needs = {} /\ Shutdown[3].deletes = {"scheduler", "alarm", "synchConsoleIn", "synchConsoleOut",
                                                          "frameMap", "procTable", "synchDisk", "fileSystem", "kernel"}
  BY <1>2
<1>4. ASSUME alive = BuiltBy(25), Delete(HaltDeletes)
      PROVE  missing' = {} /\ alive' = BuiltBy(25) \ HaltDeletes.deletes
  <2>1. HaltDeletes.needs \cup HaltDeletes.deletes \cup {"debug"} \subseteq BuiltBy(25)
    BY <1>1, Built
  <2> QED  BY <1>4, <2>1, NoneMissing DEF Delete, AliveInv
<1>5. CASE EndOfMain
  <2>1. stage \in Running /\ stage' = "shutdown" /\ done' = 1 /\ Delete(HaltDeletes) /\ armed' = armed
    BY <1>2, <1>5 DEF EndOfMain, Running
  <2> QED  BY <1>4, <2>1 DEF AliveInv, Running, Constructing
<1>6. CASE SysHalt \/ Cleanup
  <2>1. stage \in Running /\ stage' \in {"abort", "undefined"} /\ Delete(HaltDeletes) /\ armed' = armed
    BY <1>6 DEF SysHalt, Cleanup, Running
  <2> QED  BY <1>4, <2>1 DEF AliveInv, Running, Constructing
<1>7. CASE DeleteRest
  <2>1. /\ stage = "shutdown" /\ done \in {1, 2} /\ Delete(Shutdown[done + 1]) /\ done' = done + 1 /\ armed' = armed
        /\ stage' = IF done + 1 = 3 THEN "exit" ELSE "shutdown"
        /\ missing = {} /\ alive = BuiltBy(25) \ (HaltDeletes.deletes \cup (IF done = 2 THEN {"disk"} ELSE {}))
        /\ armed \subseteq DOMAIN HandlerNeeds
    BY <1>2, <1>7 DEF DeleteRest, AliveInv
  <2>2. CASE done = 1
    <3>1. /\ alive = BuiltBy(25) \ HaltDeletes.deletes /\ Delete(Shutdown[2]) /\ done' = 2 /\ stage' = "shutdown"
      BY <2>1, <2>2
    <3>2. {"functions", "disk", "debug"} \subseteq alive
      BY <1>1, <3>1, Built
    <3>3. missing' = {} /\ alive' = alive \ {"disk"}
      BY <1>3, <2>1, <3>1, <3>2, NoneMissing DEF Delete
    <3> QED  BY <2>1, <3>1, <3>3 DEF AliveInv, Running, Constructing
  <2>3. CASE done = 2
    <3>1. /\ alive = BuiltBy(25) \ (HaltDeletes.deletes \cup {"disk"}) /\ Delete(Shutdown[3]) /\ stage' = "exit"
      BY <2>1, <2>3
    <3>2. Shutdown[3].needs \cup Shutdown[3].deletes \cup {"debug"} \subseteq alive
      BY <1>1, <1>3, <3>1, Built
    <3>3. missing' = {}
      BY <2>1, <3>1, <3>2, NoneMissing DEF Delete
    <3> QED  BY <2>1, <3>1, <3>3 DEF AliveInv, Running, Constructing
  <2> QED  BY <2>1, <2>2, <2>3
<1>8. CASE Restart
  BY <1>8 DEF Restart, AliveInv, Running, Constructing
<1> QED  BY <1>5, <1>6, <1>7, <1>8

\* Every object is there when a constructor, a request, a destructor or an interrupt
\* handler calls upon it, whatever the command lines and for any number of starts
\* (MyKernel::Initialize, MyKernel::~MyKernel, main, Interrupt::Halt).
THEOREM AllAlive == BootSpec => []AliveWhenUsed
<1>1. BootInit => AliveInv
  BY DEF BootInit, AliveInv, Running, Constructing
<1>2. AliveInv /\ [BootNext]_bootVars => AliveInv'
  <2>1. ASSUME AliveInv, UNCHANGED bootVars
        PROVE  AliveInv'
    BY <2>1 DEF AliveInv, bootVars
  <2>2. ASSUME AliveInv, BootNext
        PROVE  AliveInv'
    BY <2>2, ParseMainAlive, BuildAlive, WaitAlive, HandlerAlive, RequestsAlive, EndAlive DEF BootNext, Request
  <2> QED  BY <2>1, <2>2
<1>3. AliveInv => AliveWhenUsed
  BY DEF AliveInv, AliveWhenUsed
<1> QED  BY <1>1, <1>2, <1>3, PTL DEF BootSpec

-----------------------------------------------------------------------------
(***************************************************************************)
(* The command line: what main reads in it.                                *)
(***************************************************************************)

\* The same as Read and Operand, of a command line that is given.
ReadIn(c, options) ==
  LET looksAt[i \in 1 .. Len(c)] ==
        \A j \in 1 .. i - 1 : looksAt[j] => j + Operands(options, c[j]) < i
  IN {i \in 1 .. Len(c) : looksAt[i]}
OperandIn(c, options, o, k) ==
  LET last == CHOOSE i \in ReadIn(c, options) :
                c[i] = o /\ \A j \in ReadIn(c, options) : c[j] = o => j <= i
  IN c[last + k]
MissingIn(c, options) == \E i \in ReadIn(c, options) : i + Operands(options, c[i]) > Len(c)

\* They change with the command line only.
LEMMA SameCommands ==
  ASSUME UNCHANGED commandLine
  PROVE  /\ OperandMissing(MainOptions)' <=> OperandMissing(MainOptions)
         /\ PrintName' = PrintName
<1>1. \A options : Read(options) = ReadIn(commandLine, options)
  BY DEF Read, ReadIn
<1>2. \A options : Read(options)' = ReadIn(commandLine', options)
  BY DEF Read, ReadIn
<1>3. PrintName = OperandIn(commandLine, MainOptions, "-p", 1)
  BY <1>1, Zenon DEF PrintName, Operand, OperandIn
<1>4. PrintName' = OperandIn(commandLine', MainOptions, "-p", 1)
  BY <1>2, Zenon DEF PrintName, Operand, OperandIn
<1>5. OperandMissing(MainOptions) <=> MissingIn(commandLine, MainOptions)
  BY <1>1, Zenon DEF OperandMissing, MissingIn
<1>6. OperandMissing(MainOptions)' <=> MissingIn(commandLine', MainOptions)
  BY <1>2, Zenon DEF OperandMissing, MissingIn
<1>7. commandLine' = commandLine
  OBVIOUS
<1> QED  BY <1>3, <1>4, <1>5, <1>6, <1>7, Zenon

\* A set of positions has a last one.
LEMMA LastOf ==
  ASSUME NEW n \in Nat, NEW P \in SUBSET (1 .. n), P # {}
  PROVE  \E i \in P : \A j \in P : j <= i
<1> DEFINE T == {n - i : i \in P}
<1>1. T \subseteq Nat /\ T # {}
  <2>1. \A i \in P : n - i \in Nat
    OBVIOUS
  <2> QED  BY <2>1
<1>2. PICK k \in T : \A j \in T : ~ (<<j, k>> \in OpToRel(<, Nat))
  BY <1>1, NatLessThanWellFounded, WFMin, Zenon
<1>3. PICK i \in P : k = n - i
  OBVIOUS
<1>4. ASSUME NEW j \in P, ~(j <= i)
      PROVE  FALSE
  <2>1. <<n - j, n - i>> \in Nat \X Nat /\ n - j < n - i /\ n - j \in T
    BY <1>4
  <2>2. <<n - j, k>> \in OpToRel(<, Nat)
    BY <2>1, <1>3 DEF OpToRel
  <2> QED  BY <2>1, <2>2, <1>2
<1> QED  BY <1>4

\* An operand is what follows the last place where main reads the option.
LEMMA LastOperand ==
  ASSUME NEW o, NEW k \in Nat, commandLine \in CommandLines, Given(MainOptions, o)
  PROVE  \E i \in Read(MainOptions) : commandLine[i] = o /\ Operand(MainOptions, o, k) = commandLine[i + k]
<1> DEFINE P == {i \in Read(MainOptions) : commandLine[i] = o}
           Last(i) == commandLine[i] = o /\ \A j \in Read(MainOptions) : commandLine[j] = o => j <= i
<1>1. Len(commandLine) \in Nat
  BY BootAssumption
<1>2. Read(MainOptions) \subseteq 1 .. Len(commandLine)
  BY DEF Read
<1>3. \E i \in P : \A j \in P : j <= i
  <2>1. P # {} /\ P \in SUBSET (1 .. Len(commandLine))
    BY <1>2 DEF Given
  <2> HIDE DEF P
  <2> QED  BY <1>1, <2>1, LastOf
<1>4. \E i \in Read(MainOptions) : Last(i)
  BY <1>3
<1>5. PICK last : last = CHOOSE i \in Read(MainOptions) : Last(i)
  OBVIOUS
<1>6. last \in Read(MainOptions) /\ Last(last)
  BY <1>4, <1>5, Zenon
<1>7. Operand(MainOptions, o, k) = commandLine[last + k]
  BY <1>5, Zenon DEF Operand
<1> QED  BY <1>6, <1>7

\* -cp has two operands.
LEMMA CopyTakesTwo == MainOptions["-cp"] = 2 /\ "-cp" \in DOMAIN MainOptions
BY DEF MainOptions

\* The name that -cp gives to the new file is there, and one of the disk's.
LEMMA CopyOperand ==
  ASSUME commandLine \in CommandLines, ~OperandMissing(MainOptions), Given(MainOptions, "-cp")
  PROVE  ToName \in NachosNames
<1>1. Operands(MainOptions, "-cp") = 2
  BY CopyTakesTwo, Zenon DEF Operands
<1>2. PICK i \in Read(MainOptions) : commandLine[i] = "-cp" /\ ToName = commandLine[i + 2]
  <2>1. 2 \in Nat
    OBVIOUS
  <2> QED  BY <2>1, LastOperand, Zenon DEF ToName
<1>3. ~(i + 2 > Len(commandLine))
  BY <1>1, <1>2, Zenon DEF OperandMissing
<1>4. i \in 1 .. Len(commandLine)
  BY DEF Read
<1>5. Len(commandLine) \in Nat
  BY BootAssumption
<1>6. i + 2 <= Len(commandLine)
  BY <1>3, <1>4, <1>5
<1> QED  BY <1>2, <1>4, <1>6, BootAssumption, Zenon

\* Which request stands where.
LEMMA Nine ==
  ASSUME NEW a, NEW b, NEW c, NEW d, NEW e, NEW f, NEW g, NEW h, NEW i, NEW n \in Nat, n < 9
  PROVE  /\ <<a, b, c, d, e, f, g, h, i>>[n + 1] = d /\ d \notin {a, b, c, e, f, g, h, i} => n = 3
         /\ <<a, b, c, d, e, f, g, h, i>>[n + 1] = e /\ e \notin {a, b, c, d, f, g, h, i} => n = 4
         /\ <<a, b, c, d, e, f, g, h, i>>[n + 1] = h /\ h \notin {a, b, c, d, e, f, g, i} => n = 7
OBVIOUS

\* Where -r, -cp and -p stand among the requests.
LEMMA RequestOrder ==
  ASSUME done \in Nat
  PROVE  /\ Len(Requests) = 9
         /\ Asked("-r") => done = 3
         /\ Asked("-cp") => done = 4
         /\ Asked("-p") => done = 7
<1>1. /\ "-r" \notin {"-N", "-K", "-C", "-cp", "-D", "-l", "-p", "-x"}
      /\ "-cp" \notin {"-N", "-K", "-C", "-r", "-D", "-l", "-p", "-x"}
      /\ "-p" \notin {"-N", "-K", "-C", "-r", "-cp", "-D", "-l", "-x"}
  BY Zenon
<1> DEFINE a == "-N" b == "-K" c == "-C" d == "-r" e == "-cp" f == "-D" g == "-l" h == "-p" i == "-x"
<1>2. Requests = <<a, b, c, d, e, f, g, h, i>>
  BY Zenon DEF Requests
<1>3. d \notin {a, b, c, e, f, g, h, i} /\ e \notin {a, b, c, d, f, g, h, i} /\ h \notin {a, b, c, d, e, f, g, i}
  BY <1>1, Zenon
<1>4. /\ Asked("-r") => done < Len(Requests) /\ Requests[done + 1] = d
      /\ Asked("-cp") => done < Len(Requests) /\ Requests[done + 1] = e
      /\ Asked("-p") => done < Len(Requests) /\ Requests[done + 1] = h
  BY Zenon DEF Asked
<1> HIDE DEF a, b, c, d, e, f, g, h, i
<1>5. Len(Requests) = 9
  BY <1>2
<1>6. /\ done < 9 /\ Requests[done + 1] = d => done = 3
      /\ done < 9 /\ Requests[done + 1] = e => done = 4
      /\ done < 9 /\ Requests[done + 1] = h => done = 7
  BY <1>2, <1>3, Nine
<1> QED  BY <1>4, <1>5, <1>6, Zenon

-----------------------------------------------------------------------------
(***************************************************************************)
(* The files that -cp and -p transfer.                                     *)
(***************************************************************************)

\* Main has got past the first n requests.
Past(n) ==
  \/ stage = "requests" /\ done >= n
  \/ stage \in {"user", "shutdown", "exit", "abort", "undefined"}

BootTypes ==
  /\ commandLine \in CommandLines /\ done \in Nat
  /\ stage \in Constructing \cup Running => ~OperandMissing(MainOptions)
  /\ files \in [NachosNames -> Seq(DiskBytes) \cup {NoFile}]

\* When there is something to be right.
Phases ==
  /\ transfer # NoTransfer => stage \in {"copying", "printing"} \/ Past(5)
  /\ printed # NoFile => stage = "printing" \/ Past(8)
  /\ stage = "copying" => done = 4
  /\ stage = "printing" => done = 7

\* What has been copied so far, in a file as long as the host's, and what has been printed.
CopiedSoFar ==
  /\ transfer \in [from : DOMAIN UnixFiles, to : NachosNames, at : Nat]
  /\ transfer.at <= Len(UnixFiles[transfer.from])
  /\ files[transfer.to] \in Seq(DiskBytes) /\ Len(files[transfer.to]) = Len(UnixFiles[transfer.from])
  /\ \A i \in 1 .. transfer.at : files[transfer.to][i] = UnixFiles[transfer.from][i]

PrintedSoFar ==
  /\ Exists(PrintName)
  /\ printed \in Seq(DiskBytes) /\ Len(printed) <= Len(files[PrintName])
  /\ \A i \in 1 .. Len(printed) : printed[i] = files[PrintName][i]

TransferInv ==
  /\ BootTypes /\ Phases
  /\ stage = "copying" => CopiedSoFar
  /\ stage = "printing" => PrintedSoFar
  /\ TransferExact

\* A step that transfers nothing.
LEMMA KeepTransfer ==
  ASSUME TransferInv, UNCHANGED <<commandLine, files, transfer, printed>>, done' \in Nat,
         stage' \in Constructing \cup Running => stage \in Constructing \cup Running,
         \/ stage' = stage /\ done' = done
         \/ stage' \notin {"copying", "printing"} /\ stage \notin {"copying", "printing", "undefined"}
         \/ stage' = "undefined",
         Past(5) => Past(5)', Past(8) => Past(8)'
  PROVE  TransferInv'
<1>1. BootTypes'
  BY SameCommands DEF TransferInv, BootTypes
<1>2. PrintName' = PrintName
  BY SameCommands
<1>3. CASE stage' = stage /\ done' = done
  <2>1. CopiedSoFar' <=> CopiedSoFar
    BY DEF CopiedSoFar
  <2>2. PrintedSoFar' <=> PrintedSoFar
    BY <1>2 DEF PrintedSoFar, Exists
  <2>3. TransferExact'
    BY <1>2, <1>3 DEF TransferInv, TransferExact
  <2> QED  BY <1>1, <1>3, <2>1, <2>2, <2>3 DEF TransferInv, Phases, Past
<1>4. CASE stage' \notin {"copying", "printing"} /\ stage \notin {"copying", "printing", "undefined"}
  <2>1. TransferExact'
    BY <1>2, <1>4 DEF TransferInv, TransferExact
  <2>2. Phases'
    BY <1>4 DEF TransferInv, Phases
  <2> QED  BY <1>1, <1>4, <2>1, <2>2 DEF TransferInv
<1>5. CASE stage' = "undefined"
  <2>1. TransferExact'
    BY <1>5 DEF TransferExact
  <2>2. Phases'
    BY <1>5 DEF Phases, Past
  <2> QED  BY <1>1, <1>5, <2>1, <2>2 DEF TransferInv
<1> QED  BY <1>3, <1>4, <1>5

\* Booting: nothing has been transferred yet.
LEMMA BootTransfer ==
  ASSUME TransferInv, ParseMain \/ Build \/ NextRequest
  PROVE  TransferInv'
<1>1. /\ stage \in {"main", "boot", "opened", "request"} /\ UNCHANGED <<commandLine, files, transfer, printed>>
      /\ done' \in Nat /\ stage' \in {"abort", "boot", "requests", "waiting"}
  BY DEF TransferInv, BootTypes, ParseMain, Build, NextRequest
<1>2. CASE ParseMain
  <2>1. BootTypes'
    <3>1. stage' = "boot" => ~OperandMissing(MainOptions)
      BY <1>2 DEF ParseMain
    <3>2. stage' \in {"abort", "boot"}
      BY <1>2 DEF ParseMain
    <3> QED  BY <1>1, <3>1, <3>2, SameCommands DEF TransferInv, BootTypes, Constructing, Running
  <2>2. transfer = NoTransfer /\ printed = NoFile
    BY <1>1 DEF TransferInv, Phases, Past
  <2> QED  BY <1>1, <2>1, <2>2 DEF TransferInv, Phases, TransferExact
<1>3. CASE Build \/ NextRequest
  <2>1. stage \in Constructing
    BY <1>1, <1>3 DEF Build, NextRequest, Constructing
  <2>2. ~Past(5) /\ ~Past(8)
    BY <1>1 DEF Past
  <2> QED  BY <1>1, <2>1, <2>2, KeepTransfer
<1> QED  BY <1>2, <1>3

\* -f empties the disk before anything is copied.
LEMMA BeginTransfer == TransferInv /\ BeginFileSystem => TransferInv'
<1> SUFFICES ASSUME TransferInv, BeginFileSystem PROVE TransferInv'
  OBVIOUS
<1>1. stage = "boot" /\ stage' = "waiting" /\ UNCHANGED <<commandLine, done, transfer, printed>>
  BY DEF BeginFileSystem
<1>2. files' \in [NachosNames -> Seq(DiskBytes) \cup {NoFile}]
  BY DEF BeginFileSystem, TransferInv, BootTypes
<1>3. transfer = NoTransfer /\ printed = NoFile
  BY <1>1 DEF TransferInv, Phases, Past
<1>4. BootTypes'
  BY <1>1, <1>2, SameCommands DEF TransferInv, BootTypes, Constructing
<1> QED  BY <1>1, <1>3, <1>4 DEF TransferInv, Phases, TransferExact

\* Interrupts touch no file.
LEMMA HandlerTransfer == \A d : TransferInv /\ Handler(d) => TransferInv'
<1> SUFFICES ASSUME NEW d, TransferInv, Handler(d) PROVE TransferInv'
  OBVIOUS
<1>1. UNCHANGED <<commandLine, done, files, transfer, printed>> /\ done \in Nat
  BY DEF Handler, TransferInv, BootTypes
<1>2. CASE UNCHANGED stage
  BY <1>1, <1>2, KeepTransfer DEF Past
<1>3. CASE stage = "waiting" /\ stage' \in {"opened", "request"}
  BY <1>1, <1>3, KeepTransfer DEF Past, Constructing
<1> QED  BY <1>2, <1>3 DEF Handler

\* The requests that leave all files as they are, begun and done in one step or refused.
LEMMA IdleTransfer ==
  ASSUME TransferInv,
         \/ NotAsked \/ NetworkTest \/ ThreadSelfTest \/ ConsoleTest \/ ListFiles \/ CopyRefused \/ Execute
         \/ EndOfMain \/ DeleteRest \/ SysHalt \/ Cleanup
  PROVE  TransferInv'
<1>1. UNCHANGED <<commandLine, files, transfer, printed>>
  BY DEF NotAsked, NetworkTest, ThreadSelfTest, ConsoleTest, ListFiles, CopyRefused, Execute, EndOfMain, DeleteRest,
         SysHalt, Cleanup, Asked
<1>2. done \in Nat
  BY DEF TransferInv, BootTypes
<1>3. CASE NotAsked \/ NetworkTest \/ ThreadSelfTest \/ ConsoleTest \/ ListFiles \/ CopyRefused \/ Execute
  <2>1. /\ stage = "requests"
        /\ \/ stage' = "requests" /\ (done' = done + 1 \/ done' = done)
           \/ stage' = "user" /\ done' = done
    BY <1>3 DEF NotAsked, NetworkTest, ThreadSelfTest, ConsoleTest, ListFiles, CopyRefused, Execute, Asked, NextOne
  <2>2. done' \in Nat /\ done' >= done
    BY <1>2, <2>1
  <2> QED  BY <1>1, <1>2, <2>1, <2>2, KeepTransfer DEF Past, Running
<1>4. CASE EndOfMain \/ DeleteRest
  <2>1. stage \in {"requests", "shutdown"} /\ stage' \in {"shutdown", "exit"} /\ done' \in Nat
    BY <1>2, <1>4 DEF EndOfMain, DeleteRest
  <2>2. stage = "requests" => done = 9
    BY <1>2, <1>4, RequestOrder DEF EndOfMain, DeleteRest
  <2> QED  BY <1>1, <2>1, <2>2, KeepTransfer DEF Past, Running, Constructing
<1>5. CASE SysHalt
  BY <1>1, <1>2, <1>5, KeepTransfer DEF SysHalt, Past, Running, Constructing
<1>6. CASE Cleanup
  BY <1>1, <1>2, <1>6, KeepTransfer DEF Cleanup, Past, Running, Constructing
<1> QED  BY <1>3, <1>4, <1>5, <1>6

\* Another start forgets the transfers and keeps the files.
LEMMA RestartTransfer == TransferInv /\ Restart => TransferInv'
BY DEF Restart, TransferInv, BootTypes, Phases, TransferExact, Constructing, Running

\* -r comes before -cp and -p.
LEMMA RemoveTransfer == TransferInv /\ RemoveAsked => TransferInv'
<1> SUFFICES ASSUME TransferInv, RemoveAsked PROVE TransferInv'
  OBVIOUS
<1>1. done = 3
  BY RequestOrder, Zenon DEF RemoveAsked, TransferInv, BootTypes
<1>2. stage = "requests" /\ stage' = "requests" /\ UNCHANGED <<commandLine, transfer, printed>> /\ done' = done + 1
  BY Zenon DEF RemoveAsked, Asked, NextOne
<1>3. transfer = NoTransfer /\ printed = NoFile
  BY <1>1, <1>2 DEF TransferInv, Phases, Past
<1>4. files' \in [NachosNames -> Seq(DiskBytes) \cup {NoFile}]
  <2>1. PICK n : files' = IF n \in NachosNames THEN [files EXCEPT ![n] = NoFile] ELSE files
    BY Zenon DEF RemoveAsked
  <2> QED  BY <2>1 DEF TransferInv, BootTypes
<1>5. BootTypes'
  BY <1>1, <1>2, <1>4, SameCommands DEF TransferInv, BootTypes, Running
<1> QED  BY <1>2, <1>3, <1>5 DEF TransferInv, Phases, TransferExact

\* -cp creates a file of the right length, with nothing copied yet.
LEMMA CopyBeginsTransfer == TransferInv /\ CopyBegins => TransferInv'
<1> SUFFICES ASSUME TransferInv, CopyBegins PROVE TransferInv'
  OBVIOUS
<1> DEFINE from == FromName
           to == ToName
           size == Len(UnixFiles[from])
<1>1. done = 4 /\ stage = "requests" /\ commandLine \in CommandLines /\ ~OperandMissing(MainOptions)
      /\ Given(MainOptions, "-cp") /\ UNCHANGED commandLine
  <2>1. done = 4
    BY RequestOrder, Zenon DEF CopyBegins, TransferInv, BootTypes
  <2>2. stage = "requests" /\ Given(MainOptions, "-cp") /\ UNCHANGED commandLine
    BY Zenon DEF CopyBegins, Asked
  <2>3. commandLine \in CommandLines /\ ~OperandMissing(MainOptions)
    BY <2>2 DEF TransferInv, BootTypes, Running
  <2> QED  BY <2>1, <2>2, <2>3
<1>2. to \in NachosNames
  BY <1>1, CopyOperand, Zenon
<1>3. from \in DOMAIN UnixFiles
  BY Zenon DEF CopyBegins, CannotCopy
<1>4. /\ stage' = "copying" /\ UNCHANGED <<done, printed>>
      /\ files' = [files EXCEPT ![to] = [i \in 1 .. size |-> "?"]]
      /\ transfer' = [from |-> from, to |-> to, at |-> 0]
  BY Zenon DEF CopyBegins, StartAt
<1>5. size \in Nat
  BY <1>3, BootAssumption
<1> HIDE DEF from, to, size
<1>6. [i \in 1 .. size |-> "?"] \in Seq(DiskBytes) /\ Len([i \in 1 .. size |-> "?"]) = size
  BY <1>5 DEF DiskBytes
<1>7. files' \in [NachosNames -> Seq(DiskBytes) \cup {NoFile}]
  BY <1>4, <1>6 DEF TransferInv, BootTypes
<1>8. BootTypes'
  BY <1>1, <1>4, <1>7, SameCommands DEF TransferInv, BootTypes, Running
<1>9. files'[to] \in Seq(DiskBytes) /\ Len(files'[to]) = size
  BY <1>2, <1>4, <1>6 DEF TransferInv, BootTypes
<1>10. CopiedSoFar'
  <2>1. transfer'.from = from /\ transfer'.to = to /\ transfer'.at = 0
    BY <1>4
  <2>2. transfer' \in [from : DOMAIN UnixFiles, to : NachosNames, at : Nat]
    BY <1>2, <1>3, <1>4
  <2>3. size = Len(UnixFiles[from])
    BY DEF size
  <2> QED  BY <1>5, <1>9, <2>1, <2>2, <2>3 DEF CopiedSoFar
<1>11. printed = NoFile
  BY <1>1 DEF TransferInv, Phases, Past
<1> QED  BY <1>1, <1>4, <1>8, <1>10, <1>11 DEF TransferInv, Phases, TransferExact

\* One buffer of bytes more is copied, and the rest is as it was.
LEMMA CopyChunkTransfer == TransferInv /\ CopyChunk => TransferInv'
<1> SUFFICES ASSUME TransferInv, CopyChunk PROVE TransferInv'
  OBVIOUS
<1> DEFINE source == UnixFiles[transfer.from]
           old == files[transfer.to]
           new == files'[transfer.to]
           amount == Min2(TransferSize, Len(source) - transfer.at)
<1>1. /\ stage = "copying" /\ amount > 0 /\ UNCHANGED <<commandLine, stage, done, printed>>
      /\ files' = [files EXCEPT ![transfer.to] =
                     [i \in DOMAIN old |-> IF i \in transfer.at + 1 .. transfer.at + amount THEN source[i] ELSE old[i]]]
      /\ transfer' = [transfer EXCEPT !.at = transfer.at + amount]
  BY Zenon DEF CopyChunk
<1>2. /\ transfer \in [from : DOMAIN UnixFiles, to : NachosNames, at : Nat]
      /\ transfer.from \in DOMAIN UnixFiles /\ transfer.to \in NachosNames /\ transfer.at \in Nat
      /\ transfer.at <= Len(source)
      /\ old \in Seq(DiskBytes) /\ Len(old) = Len(source)
      /\ \A i \in 1 .. transfer.at : old[i] = source[i]
  BY <1>1 DEF TransferInv, CopiedSoFar
<1>3. source \in Seq(HostBytes) /\ Len(source) \in Nat /\ source \in Seq(DiskBytes)
  BY <1>2, BootAssumption DEF DiskBytes
<1>4. amount \in Nat /\ transfer.at + amount <= Len(source)
  BY <1>1, <1>2, <1>3, BootAssumption DEF Min2
<1> HIDE DEF source, amount
<1> DEFINE f == [i \in DOMAIN old |-> IF i \in transfer.at + 1 .. transfer.at + amount THEN source[i] ELSE old[i]]
<1>5. /\ f \in Seq(DiskBytes) /\ Len(f) = Len(source)
      /\ \A i \in 1 .. transfer.at + amount : f[i] = source[i]
  <2>1. DOMAIN old = 1 .. Len(source)
    BY <1>2
  <2>2. \A i \in 1 .. Len(source) : source[i] \in DiskBytes /\ old[i] \in DiskBytes
    BY <1>2, <1>3
  <2>3. f \in [1 .. Len(source) -> DiskBytes]
    BY <2>1, <2>2
  <2>4. f \in Seq(DiskBytes) /\ Len(f) = Len(source)
    BY <1>3, <2>3
  <2>5. \A i \in 1 .. transfer.at + amount : f[i] = source[i]
    BY <1>2, <1>3, <1>4, <2>1
  <2> QED  BY <2>4, <2>5
<1>6. /\ files' \in [NachosNames -> Seq(DiskBytes) \cup {NoFile}]
      /\ new = f
  <2> HIDE DEF f
  <2>1. files' = [files EXCEPT ![transfer.to] = f]
    BY <1>1 DEF f
  <2> QED  BY <1>2, <1>5, <2>1 DEF TransferInv, BootTypes
<1> HIDE DEF f
<1>7. transfer'.from = transfer.from /\ transfer'.to = transfer.to /\ transfer'.at = transfer.at + amount
      /\ transfer' \in [from : DOMAIN UnixFiles, to : NachosNames, at : Nat]
  BY <1>1, <1>2, <1>4
<1>8. CopiedSoFar'
  <2>1. files'[transfer'.to] = f /\ UnixFiles[transfer'.from] = source
    BY <1>6, <1>7 DEF source
  <2> QED  BY <1>4, <1>5, <1>7, <2>1 DEF CopiedSoFar
<1>9. BootTypes'
  BY <1>1, <1>6, SameCommands DEF TransferInv, BootTypes
<1>10. printed = NoFile
  BY <1>1 DEF TransferInv, Phases, Past
<1> QED  BY <1>1, <1>8, <1>9, <1>10 DEF TransferInv, Phases, TransferExact

\* -cp ends when the whole file is copied.
LEMMA CopyEndsTransfer == TransferInv /\ CopyEnds => TransferInv'
<1> SUFFICES ASSUME TransferInv, CopyEnds PROVE TransferInv'
  OBVIOUS
<1>1. /\ stage = "copying" /\ stage' = "requests" /\ done' = done + 1 /\ done = 4
      /\ transfer.at = Len(UnixFiles[transfer.from]) /\ UNCHANGED <<commandLine, files, transfer, printed>>
  BY DEF CopyEnds, NextOne, TransferInv, Phases
<1>2. CopiedSoFar
  BY <1>1 DEF TransferInv
<1>3. files[transfer.to] = UnixFiles[transfer.from]
  <2>1. /\ files[transfer.to] \in Seq(DiskBytes) /\ UnixFiles[transfer.from] \in Seq(HostBytes)
        /\ Len(files[transfer.to]) = Len(UnixFiles[transfer.from])
        /\ \A i \in 1 .. Len(UnixFiles[transfer.from]) : files[transfer.to][i] = UnixFiles[transfer.from][i]
    BY <1>1, <1>2, BootAssumption DEF CopiedSoFar
  <2>2. PICK s \in Seq(DiskBytes), t \in Seq(HostBytes) : s = files[transfer.to] /\ t = UnixFiles[transfer.from]
    BY <2>1
  <2>3. s = t
    <3>1. Len(s) = Len(t) /\ \A i \in 1 .. Len(t) : s[i] = t[i]
      BY <2>1, <2>2
    <3> QED  BY <3>1
  <2> QED  BY <2>2, <2>3
<1>4. BootTypes'
  BY <1>1, SameCommands DEF TransferInv, BootTypes, Running
<1>5. printed = NoFile
  BY <1>1 DEF TransferInv, Phases, Past
<1> QED  BY <1>1, <1>3, <1>4, <1>5 DEF TransferInv, Phases, TransferExact, Past

\* -p begins with nothing printed, of a file that is there.
LEMMA PrintBeginsTransfer == TransferInv /\ PrintBegins => TransferInv'
<1> SUFFICES ASSUME TransferInv, PrintBegins PROVE TransferInv'
  OBVIOUS
<1>1. done = 7
  BY RequestOrder, Zenon DEF PrintBegins, TransferInv, BootTypes
<1>2. /\ stage = "requests" /\ UNCHANGED <<commandLine, files, transfer>>
      /\ \/ Exists(PrintName) /\ stage' = "printing" /\ printed' = <<>> /\ UNCHANGED done
         \/ stage' = "requests" /\ done' = done + 1 /\ UNCHANGED printed
  BY Zenon DEF PrintBegins, Asked, NextOne
<1>3. CASE Exists(PrintName) /\ stage' = "printing" /\ printed' = <<>> /\ UNCHANGED done
  <2>1. BootTypes'
    BY <1>2, <1>3, SameCommands DEF TransferInv, BootTypes, Running
  <2>2. PrintName' = PrintName
    BY <1>2, SameCommands
  <2>3. files[PrintName] \in Seq(DiskBytes)
    BY <1>3 DEF Exists, TransferInv, BootTypes
  <2>4. PrintedSoFar'
    BY <1>2, <1>3, <2>2, <2>3 DEF PrintedSoFar, Exists
  <2>5. TransferExact'
    BY <1>2, <1>3 DEF TransferInv, TransferExact
  <2> QED  BY <1>1, <1>2, <1>3, <2>1, <2>4, <2>5 DEF TransferInv, Phases
<1>4. CASE stage' = "requests" /\ done' = done + 1 /\ UNCHANGED printed
  BY <1>1, <1>2, <1>4, KeepTransfer DEF Past, Running
<1> QED  BY <1>2, <1>3, <1>4

\* One buffer of bytes more is printed, or all are.
LEMMA PrintChunkTransfer == TransferInv /\ PrintChunk => TransferInv'
<1> SUFFICES ASSUME TransferInv, PrintChunk PROVE TransferInv'
  OBVIOUS
<1> DEFINE source == files[PrintName]
           amount == Min2(TransferSize, Len(source) - Len(printed))
<1>1. /\ stage = "printing" /\ done = 7 /\ PrintedSoFar
  BY DEF PrintChunk, TransferInv, Phases
<1>2. SizeOf(PrintName) = Len(source)
  BY <1>1 DEF PrintedSoFar, SizeOf
<1>3. /\ UNCHANGED <<commandLine, files, transfer>>
      /\ printed' = printed \o SubSeq(source, Len(printed) + 1, Len(printed) + amount)
      /\ IF amount = 0 THEN stage' = "requests" /\ done' = done + 1 ELSE UNCHANGED <<stage, done>>
  BY <1>2, Zenon DEF PrintChunk, NextOne
<1>4. /\ source \in Seq(DiskBytes) /\ printed \in Seq(DiskBytes) /\ Len(printed) <= Len(source)
      /\ \A i \in 1 .. Len(printed) : printed[i] = source[i]
  BY <1>1 DEF PrintedSoFar, Exists, TransferInv, BootTypes
<1>5. /\ amount \in Nat /\ Len(printed) + amount <= Len(source)
      /\ amount = 0 => Len(printed) = Len(source)
  BY <1>4, BootAssumption DEF Min2
<1>6. PrintName' = PrintName
  BY <1>3, SameCommands
<1> HIDE DEF source, amount
<1> DEFINE more == SubSeq(source, Len(printed) + 1, Len(printed) + amount)
<1>7. /\ more \in Seq(DiskBytes) /\ Len(more) = amount
      /\ \A i \in 1 .. amount : more[i] = source[Len(printed) + i]
  BY <1>4, <1>5
<1> HIDE DEF more
<1>8. /\ printed \o more \in Seq(DiskBytes) /\ Len(printed \o more) = Len(printed) + amount
      /\ \A i \in 1 .. Len(printed) + amount :
           (printed \o more)[i] = IF i <= Len(printed) THEN printed[i] ELSE more[i - Len(printed)]
  BY <1>4, <1>7
<1>9. /\ printed' \in Seq(DiskBytes) /\ Len(printed') = Len(printed) + amount
      /\ \A i \in 1 .. Len(printed') : printed'[i] = source[i]
  <2>1. printed' = printed \o more
    BY <1>3 DEF more
  <2>2. \A i \in 1 .. Len(printed) + amount : (printed \o more)[i] = source[i]
    BY <1>4, <1>5, <1>7, <1>8
  <2> QED  BY <1>8, <2>1, <2>2
<1>10. BootTypes'
  BY <1>1, <1>3, SameCommands DEF TransferInv, BootTypes, Running
<1>11. PrintedSoFar'
  BY <1>1, <1>3, <1>4, <1>5, <1>6, <1>9 DEF PrintedSoFar, Exists, source
<1>12. transfer # NoTransfer => files[transfer.to] = UnixFiles[transfer.from]
  BY <1>1 DEF TransferInv, TransferExact
<1>13. CASE amount = 0
  <2>1. printed' = source
    <3>1. Len(printed') = Len(source)
      BY <1>4, <1>5, <1>9, <1>13
    <3> QED  BY <1>4, <1>9, <3>1
  <2>2. stage' = "requests" /\ done' = 8
    BY <1>1, <1>3, <1>13
  <2>3. TransferExact'
    BY <1>3, <1>6, <1>12, <2>1 DEF TransferExact, source
  <2> QED  BY <1>10, <2>2, <2>3 DEF TransferInv, Phases, Past
<1>14. CASE amount # 0
  <2>1. stage' = "printing" /\ done' = 7
    BY <1>1, <1>3, <1>14
  <2>2. TransferExact'
    BY <1>3, <1>12, <2>1 DEF TransferExact
  <2> QED  BY <1>10, <1>11, <2>1, <2>2 DEF TransferInv, Phases
<1> QED  BY <1>13, <1>14

\* What -cp has copied and -p has printed is the file, byte by byte, for files of any
\* length, any size of the buffer, and any command lines and number of starts (Copy, Print).
THEOREM TransfersAreExact == BootSpec => []TransferExact
<1>1. BootInit => TransferInv
  BY DEF BootInit, TransferInv, BootTypes, Phases, TransferExact, Constructing, Running
<1>2. TransferInv /\ [BootNext]_bootVars => TransferInv'
  <2>1. ASSUME TransferInv, UNCHANGED bootVars
        PROVE  TransferInv'
    <3>1. UNCHANGED <<commandLine, stage, done, files, transfer, printed>> /\ done \in Nat
      BY <2>1 DEF bootVars, TransferInv, BootTypes
    <3> QED  BY <2>1, <3>1, KeepTransfer DEF Past
  <2>2. ASSUME TransferInv, BootNext
        PROVE  TransferInv'
    BY <2>2, BootTransfer, BeginTransfer, HandlerTransfer, IdleTransfer, RestartTransfer, RemoveTransfer,
       CopyBeginsTransfer, CopyChunkTransfer, CopyEndsTransfer, PrintBeginsTransfer, PrintChunkTransfer DEF BootNext
  <2> QED  BY <2>1, <2>2
<1>3. TransferInv => TransferExact
  BY DEF TransferInv
<1> QED  BY <1>1, <1>2, <1>3, PTL DEF BootSpec
=============================================================================
