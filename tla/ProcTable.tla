----------------------------- MODULE ProcTable -----------------------------
(***************************************************************************)
(* Processes: the process table (proctable.cpp) and the three system calls *)
(* that use it, Exec, Join and Exit (ksyscall.h), with the frames of       *)
(* memory that a process takes and gives back (addrspace.cpp, frameMap).   *)
(*                                                                         *)
(* What the table does under its lock is one action, for the lock excludes *)
(* the others (Monitor, LockExact); Wait gives it up.  The bitmap of the   *)
(* frames has a lock of its own, taken once for every frame.               *)
(***************************************************************************)
EXTENDS Integers, FiniteSets, FiniteSetsExt

CONSTANTS Procs,             \* the processes that will ever be tried to start
          First,             \* the one that main starts
          MaxNumProcesses,   \* the size of the table
          Frames,            \* the frames of physical memory, numbered
          NumPages,          \* the pages of every program
          ExitStatuses(_),   \* what a process may exit with
          None

Ids == 0 .. MaxNumProcesses - 1

ASSUME ProcAssumption ==
  /\ First \in Procs /\ None \notin Procs \cup UNION {ExitStatuses(p) : p \in Procs}
  /\ None \notin Procs \X UNION {ExitStatuses(p) : p \in Procs}
  /\ MaxNumProcesses \in Nat \ {0}
  /\ NumPages \in Nat /\ Frames \subseteq Nat
  /\ IsFiniteSet(Frames) /\ NumPages <= Cardinality(Frames)

VARIABLES
  items,     \* ProcTable::table: the entries, by the identifiers in use
  frameMap,  \* Kernel::frameMap: the frames that are taken
  pages,     \* the frames that each process's page table maps
  id,        \* AddrSpace::id
  phase,     \* what each process is doing
  child,     \* the process being made in Exec
  joining,   \* in Join, after Wait: the local variables id and previousChildEntry
  parent,    \* history: who called Exec for each process
  exitCode,  \* history: what each process exited with
  joined     \* history: what Join has returned for each process

history == <<parent, exitCode, joined>>
vars == <<items, frameMap, pages, id, phase, child, joining, history>>

(***************************************************************************)
(* "unborn"; "loading": an address space without a thread; "stillborn": it *)
(* could not be completed; "running": in its own code; "exec": in Exec,    *)
(* past GetNewProcId; "waiting", "woken": in Join, before and after the    *)
(* wake-up; "dying": past ProcIsDone; "dead": finished.                    *)
(***************************************************************************)

NewEntry(q, parentId, siblingId) ==
  [hasExited |-> FALSE, exitStatus |-> None, parentId |-> parentId,
   firstChildId |-> -1, siblingId |-> siblingId, waitingRoom |-> {}, owner |-> q]

\* main has started the first process and jumps to it.
ProcInit ==
  /\ items = [i \in {0} |-> NewEntry(First, -1, -1)]
  /\ frameMap = {f \in Frames : Cardinality({g \in Frames : g < f}) < NumPages}
  /\ pages = [p \in Procs |-> IF p = First THEN frameMap ELSE {}]
  /\ id = [p \in Procs |-> IF p = First THEN 0 ELSE -1]
  /\ phase = [p \in Procs |-> IF p = First THEN "running" ELSE "unborn"]
  /\ child = [p \in Procs |-> None]
  /\ joining = [p \in Procs |-> None]
  /\ parent = [p \in Procs |-> None]
  /\ exitCode = [p \in Procs |-> None]
  /\ joined = [p \in Procs |-> None]

Used == DOMAIN items

Goes(p, ph) == phase' = [phase EXCEPT ![p] = ph]

-----------------------------------------------------------------------------
(***************************************************************************)
(* Exec.                                                                   *)
(***************************************************************************)

\* Table::Insert takes the first free slot.
NewId == Min(Ids \ Used)

\* Mutation: the parent's older children are dropped from the new one's list.
GetNewProcIdNoSibling(p, q) ==
  /\ phase[p] = "running" /\ phase[q] = "unborn"
  /\ Used # Ids
  /\ LET new == NewId
     IN /\ items' = [i \in Used \cup {new} |->
                       IF i = new THEN NewEntry(q, id[p], -1)
                       ELSE IF i = id[p] THEN [items[i] EXCEPT !.firstChildId = new]
                       ELSE items[i]]
        /\ id' = [id EXCEPT ![q] = new]
  /\ phase' = [phase EXCEPT ![p] = "exec", ![q] = "loading"]
  /\ child' = [child EXCEPT ![p] = q]
  /\ parent' = [parent EXCEPT ![q] = p]
  /\ UNCHANGED <<frameMap, pages, joining, exitCode, joined>>

\* GetNewProcId finds room: the first free entry, and it becomes the first of
\* the caller's children.  (An Exec that is refused here changes nothing.)
GetNewProcId(p, q) ==
  /\ phase[p] = "running" /\ phase[q] = "unborn"
  /\ Used # Ids
  /\ LET new == NewId
     IN /\ items' = [i \in Used \cup {new} |->
                       IF i = new THEN NewEntry(q, id[p], items[id[p]].firstChildId)
                       ELSE IF i = id[p] THEN [items[i] EXCEPT !.firstChildId = new]
                       ELSE items[i]]
        /\ id' = [id EXCEPT ![q] = new]
  /\ phase' = [phase EXCEPT ![p] = "exec", ![q] = "loading"]
  /\ child' = [child EXCEPT ![p] = q]
  /\ parent' = [parent EXCEPT ![q] = p]
  /\ UNCHANGED <<frameMap, pages, joining, exitCode, joined>>

Loading(p) == phase[p] = "exec" /\ phase[child[p]] = "loading"

\* Mutation: FindAndSet finds a frame and does not set it.
FindOnly(p) ==
  /\ Loading(p)
  /\ Cardinality(pages[child[p]]) < NumPages
  /\ frameMap # Frames
  /\ pages' = [pages EXCEPT ![child[p]] = @ \cup {Min(Frames \ frameMap)}]
  /\ UNCHANGED <<items, frameMap, id, phase, child, joining, history>>

\* The constructor of the address space takes the first free frame.
FindAndSet(p) ==
  /\ Loading(p)
  /\ Cardinality(pages[child[p]]) < NumPages
  /\ frameMap # Frames
  /\ LET f == Min(Frames \ frameMap)
     IN /\ frameMap' = frameMap \cup {f}
        /\ pages' = [pages EXCEPT ![child[p]] = @ \cup {f}]
  /\ UNCHANGED <<items, id, phase, child, joining, history>>

\* The constructor fails: the file is no executable, or memory is full.
LoadFails(p) ==
  /\ Loading(p)
  /\ \/ pages[child[p]] = {}
     \/ Cardinality(pages[child[p]]) < NumPages /\ frameMap = Frames
  /\ Goes(child[p], "stillborn")
  /\ id' = [id EXCEPT ![child[p]] = -1]
  /\ UNCHANGED <<items, frameMap, pages, child, joining, history>>

\* The child gets its thread, and Exec returns its identifier.
ExecForks(p) ==
  /\ Loading(p)
  /\ Cardinality(pages[child[p]]) = NumPages
  /\ phase' = [phase EXCEPT ![p] = "running", ![child[p]] = "running"]
  /\ child' = [child EXCEPT ![p] = None]
  /\ UNCHANGED <<items, frameMap, pages, id, joining, history>>

\* Exec has deleted the bad address space, and returns -1.
ExecFails(p) ==
  /\ phase[p] = "exec" /\ phase[child[p]] = "stillborn"
  /\ pages[child[p]] = {}
  /\ Goes(p, "running")
  /\ child' = [child EXCEPT ![p] = None]
  /\ UNCHANGED <<items, frameMap, pages, id, joining, history>>

-----------------------------------------------------------------------------
(***************************************************************************)
(* Join.                                                                   *)
(***************************************************************************)

\* The walk along siblingId from the first child of entry i, n steps.
Walk(i) ==
  LET step[n \in Nat] ==
        IF n = 0 THEN items[i].firstChildId
        ELSE IF step[n - 1] \in Used THEN items[step[n - 1]].siblingId ELSE -1
  IN [n \in 0 .. MaxNumProcesses |-> step[n]]

Children(i) == {Walk(i)[n] : n \in DOMAIN Walk(i)} \ {-1}

\* previousChildEntry, when the walk has come to c.
Previous(i, c) ==
  IF items[i].firstChildId = c THEN -1
  ELSE CHOOSE b \in Children(i) : items[b].siblingId = c

\* The end of GetProcStatus: the child leaves its parent's list and the table.
Unlink(p, c, prev) ==
  /\ items' = [i \in Used \ {c} |->
                 IF prev = -1 /\ i = id[p]
                   THEN [items[i] EXCEPT !.firstChildId = items[c].siblingId]
                 ELSE IF i = prev
                   THEN [items[i] EXCEPT !.siblingId = items[c].siblingId]
                 ELSE items[i]]
  /\ joined' = [joined EXCEPT ![items[c].owner] = <<p, items[c].exitStatus>>]
  /\ UNCHANGED <<parent, exitCode>>

\* Join of a child that has exited.  (Join of anything that is not a child of
\* the caller returns -1 and changes nothing.)
JoinExited(p, c) ==
  /\ phase[p] = "running"
  /\ c \in Children(id[p])
  /\ items[c].hasExited
  /\ Unlink(p, c, Previous(id[p], c))
  /\ UNCHANGED <<frameMap, pages, id, phase, child, joining>>

\* Join of a child that has not.
JoinWaits(p, c) ==
  /\ phase[p] = "running"
  /\ c \in Children(id[p])
  /\ ~items[c].hasExited
  /\ items' = [items EXCEPT ![c].waitingRoom = @ \cup {p}]
  /\ joining' = [joining EXCEPT ![p] = [id |-> c, prev |-> Previous(id[p], c)]]
  /\ Goes(p, "waiting")
  /\ UNCHANGED <<frameMap, pages, id, child, history>>

\* Join comes back from Wait.
JoinWoken(p) ==
  /\ phase[p] = "woken"
  /\ Unlink(p, joining[p].id, joining[p].prev)
  /\ joining' = [joining EXCEPT ![p] = None]
  /\ Goes(p, "running")
  /\ UNCHANGED <<frameMap, pages, id, child>>

-----------------------------------------------------------------------------
(***************************************************************************)
(* Exit.                                                                   *)
(***************************************************************************)

\* Mutation: the exit status is not recorded.
SurvivorsNoStatus(me, s, freed) ==
  [i \in Used \ freed |->
     IF i \in Children(me) THEN [items[i] EXCEPT !.parentId = -1]
     ELSE IF i = me THEN [items[i] EXCEPT !.hasExited = TRUE, !.waitingRoom = {}]
     ELSE items[i]]

\* What ProcIsDone leaves of the table, entry me being done with status s.
Survivors(me, s, freed) ==
  [i \in Used \ freed |->
     IF i \in Children(me) THEN [items[i] EXCEPT !.parentId = -1]
     ELSE IF i = me THEN [items[i] EXCEPT !.hasExited = TRUE, !.exitStatus = s,
                                          !.waitingRoom = {}]
     ELSE items[i]]

ReapedChildren(me) == {c \in Children(me) : items[c].hasExited}

\* Mutation: a process whose parent has exited is not removed.
RecordAlways(p, s) ==
  /\ phase[p] = "running"
  /\ LET me == id[p]
     IN /\ items' = Survivors(me, s, ReapedChildren(me))
        /\ phase' = [q \in Procs |-> IF q = p THEN "dying"
                                     ELSE IF q \in items[me].waitingRoom THEN "woken"
                                     ELSE phase[q]]
  /\ exitCode' = [exitCode EXCEPT ![p] = s]
  /\ UNCHANGED <<frameMap, pages, id, child, joining, parent, joined>>

\* Mutation: nobody waiting for the exit is woken.
DoneSilently(p, s) ==
  /\ phase[p] = "running"
  /\ LET me == id[p]
         orphan == items[me].parentId < 0
     IN items' = Survivors(me, s, ReapedChildren(me) \cup (IF orphan THEN {me} ELSE {}))
  /\ Goes(p, "dying")
  /\ exitCode' = [exitCode EXCEPT ![p] = s]
  /\ UNCHANGED <<frameMap, pages, id, child, joining, parent, joined>>

\* ProcIsDone: children that have exited are removed, the others become
\* orphans; the process itself is removed if it is one, or recorded as exited,
\* and then the parent is woken if it waits.
ProcIsDone(p, s) ==
  /\ phase[p] = "running"
  /\ LET me == id[p]
         orphan == items[me].parentId < 0
     IN /\ items' = Survivors(me, s, ReapedChildren(me) \cup (IF orphan THEN {me} ELSE {}))
        /\ phase' = [q \in Procs |-> IF q = p THEN "dying"
                                     ELSE IF ~orphan /\ q \in items[me].waitingRoom
                                       THEN "woken"
                                     ELSE phase[q]]
  /\ exitCode' = [exitCode EXCEPT ![p] = s]
  /\ UNCHANGED <<frameMap, pages, id, child, joining, parent, joined>>

\* The destructor of an address space clears one frame, any one of those left.
ClearFrame(q) ==
  /\ phase[q] \in {"dying", "stillborn"}
  /\ \E f \in pages[q] :
       /\ frameMap' = frameMap \ {f}
       /\ pages' = [pages EXCEPT ![q] = @ \ {f}]
  /\ UNCHANGED <<items, id, phase, child, joining, history>>

\* Terminator comes to Finish.
Finish(p) ==
  /\ phase[p] = "dying" /\ pages[p] = {}
  /\ Goes(p, "dead")
  /\ UNCHANGED <<items, frameMap, pages, id, child, joining, history>>

-----------------------------------------------------------------------------

\* The rest of a system call.
KernelStep(p) ==
  \/ FindAndSet(p) \/ LoadFails(p) \/ ExecForks(p) \/ ExecFails(p)
  \/ JoinWoken(p) \/ ClearFrame(p) \/ Finish(p)

ProcNext ==
  \E p \in Procs :
    \/ KernelStep(p)
    \/ \E q \in Procs : GetNewProcId(p, q)
    \/ \E c \in Ids : JoinExited(p, c) \/ JoinWaits(p, c)
    \/ \E s \in ExitStatuses(p) : ProcIsDone(p, s)

ProcSpec == ProcInit /\ [][ProcNext]_vars

(***************************************************************************)
(* A thread in the kernel gets through (Scheduler, SynchList).  A user     *)
(* program need not make any system call.                                  *)
(***************************************************************************)
FairProcSpec == ProcSpec /\ \A p \in Procs : WF_vars(KernelStep(p))

-----------------------------------------------------------------------------
(***************************************************************************)
(* Properties.                                                             *)
(***************************************************************************)

Alive(p) == phase[p] \in {"running", "exec", "waiting", "woken"}

Done(p) == phase[p] \in {"dying", "dead"}

\* The promise of proctable.h: the entry of a process is kept until it has
\* exited and its parent has exited or taken the status, and no longer.  A live
\* process has an entry of its own under its identifier: none is removed under a
\* process, and no identifier is given out twice, though those of dying
\* processes are used again.
EntryKept ==
  /\ \A p \in Procs :
       Alive(p) \/ phase[p] = "loading" =>
         id[p] \in Used /\ items[id[p]].owner = p /\ ~items[id[p]].hasExited
  /\ \A p \in Procs :
       Alive(p) \/ Done(p) =>
         ((\E i \in Used : items[i].owner = p) <=>
            \/ Alive(p)
            \/ parent[p] # None /\ ~Done(parent[p]) /\ joined[p] = None)

\* The list of a live process's children is sound: the walk ends, and passes
\* exactly the entries that name the process as their parent, whatever was
\* reaped and added in between.  The asserts of GetProcStatus and ProcIsDone
\* hold on the way.
ChildrenExact ==
  \A p \in Procs : Alive(p) =>
    /\ Walk(id[p])[MaxNumProcesses] = -1
    /\ Children(id[p]) = {i \in Used : items[i].parentId = id[p]}

\* Join returns, to the parent alone, what the child exited with.  After Wait it
\* finds its child exited and still linked behind the entry it remembers from
\* before: Wait was called once, without a loop.
JoinExact ==
  /\ \A p \in Procs : joined[p] # None => joined[p] = <<parent[p], exitCode[p]>>
  /\ \A p \in Procs : phase[p] = "woken" =>
       LET j == joining[p]
       IN /\ j.id \in Used /\ items[j.id].hasExited
          /\ j.id \in Children(id[p])
          /\ j.prev = Previous(id[p], j.id)

\* A frame belongs to one address space at most, and the bitmap says which
\* frames belong to one: none is leaked and none is shared.
FramesExact ==
  /\ frameMap = UNION {pages[p] : p \in Procs}
  /\ \A p, q \in Procs : p # q => pages[p] \cap pages[q] = {}

\* A parent that waits for a child in Join is told when the child exits.
JoinReturns ==
  \A q \in Procs :
    /\ \E p \in Procs : /\ phase[p] \in {"waiting", "woken"}
                        /\ joining[p].id = id[q] /\ parent[q] = p
    /\ Done(q)
    ~> joined[q] # None

\* "Identifiers are eventually re-used" (proctable.h): when every process has
\* exited there is room in the table again.
IdsReused ==
  (\A p \in Procs : ~Alive(p)) ~> Used = {}
=============================================================================
