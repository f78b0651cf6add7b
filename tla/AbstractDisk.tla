---------------------------- MODULE AbstractDisk ----------------------------
(***************************************************************************)
(* What the synchronous disk promises (the comments over ReadSector and    *)
(* WriteSector in synchdisk.cpp): requests are carried out one at a time,  *)
(* each of them once, and a caller goes on only after the disk has         *)
(* finished with its own.                                                  *)
(***************************************************************************)
EXTENDS Integers

CONSTANTS Threads, Sectors, Data, Blank

VARIABLES contents,   \* what is on the disk
          stage,      \* "idle", "called", "busy", "finished", of each thread
          request,    \* its request: [writing, sector, data]
          result      \* what its last read returned

absVars == <<contents, stage, request, result>>

Requests == [writing : {TRUE}, sector : Sectors, data : Data]
              \cup [writing : {FALSE}, sector : Sectors, data : {Blank}]

AbsDiskInit ==
  /\ contents = [s \in Sectors |-> Blank]
  /\ stage = [t \in Threads |-> "idle"]
  /\ request = [t \in Threads |-> [writing |-> FALSE, sector |-> 0, data |-> Blank]]
  /\ result = [t \in Threads |-> Blank]

Stage(t, from, to) == stage[t] = from /\ stage' = [stage EXCEPT ![t] = to]

Call(t, r) ==
  /\ Stage(t, "idle", "called")
  /\ request' = [request EXCEPT ![t] = r]
  /\ UNCHANGED <<contents, result>>

\* The disk begins with the request of t, being free.
Start(t) ==
  /\ \A u \in Threads : stage[u] # "busy"
  /\ Stage(t, "called", "busy")
  /\ LET r == request[t]
     IN IF r.writing
        THEN contents' = [contents EXCEPT ![r.sector] = r.data] /\ UNCHANGED result
        ELSE result' = [result EXCEPT ![t] = contents[r.sector]] /\ UNCHANGED contents
  /\ UNCHANGED request

Complete(t) ==
  /\ Stage(t, "busy", "finished")
  /\ UNCHANGED <<contents, request, result>>

Return(t) ==
  /\ Stage(t, "finished", "idle")
  /\ UNCHANGED <<contents, request, result>>

AbsDiskNext ==
  \E t \in Threads : \/ \E r \in Requests : Call(t, r)
                     \/ Start(t) \/ Complete(t) \/ Return(t)

\* The disk finishes what it has begun, and whoever is served returns.  A thread
\* may wait for its turn for ever while others come and go.
AbsDiskFairness ==
  \A t \in Threads : WF_absVars(Complete(t)) /\ WF_absVars(Return(t))

AbsDiskSpec == AbsDiskInit /\ [][AbsDiskNext]_absVars /\ AbsDiskFairness
=============================================================================
