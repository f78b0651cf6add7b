----------------------------- MODULE FileSystem -----------------------------
(***************************************************************************)
(* The file system (filesys.cpp, directory.cpp, filehdr.cpp, pbitmap.cpp): *)
(* Create, Open and Remove fetch the directory, and the free map or a      *)
(* header, sector by sector, change them in memory, and write the changed  *)
(* sectors back one by one; an open file is written through its cached     *)
(* header.  Another user's operation may come between any two accesses;    *)
(* and the machine may stop between them, and boot again from what is on   *)
(* the disk.                                                               *)
(***************************************************************************)
EXTENDS Integers, Sequences, FiniteSets, SequencesExt, FiniteSetsExt

CONSTANTS Users,          \* the threads that call the file system
          Names,
          NoName,         \* what the name of an entry never used reads as
          NumDirEntries,
          Straddle,       \* the entry that lies across the directory's two sectors
          FreeSectors,    \* how many sectors formatting leaves free
          NumDirect,      \* the data sectors a header has room for
          MaxOpen,        \* bound: the files open at a time
          Garbage         \* what a sector of data may read as, taken for a header

\* Formatting takes the two headers, the free map's sector and the directory's two.
System == 0 .. 4
DiskSectors == 0 .. 4 + FreeSectors

ASSUME FileSystemAssumption ==
  /\ NumDirEntries \in Nat \ {0} /\ Straddle \in Nat /\ FreeSectors \in Nat /\ NumDirect \in Nat
  /\ Garbage \subseteq Seq(DiskSectors)

VARIABLES
  marked,     \* the free map on the disk: the sectors in use
  table,      \* the directory on the disk: [inUse, sector, name] by entry
  header,     \* the file headers on the disk: the data sectors, by sector
  op,         \* the operation of each user, with its copies and what is left to write
  opened,     \* open files: [slot, sector, data], with the entry and the cached header
  hurt,       \* history: entries that a crash has left half-written, and those since reached
  crashed,    \* history: a crash has happened
  corrupt,    \* history: a hurt file has reached the system's own sectors
  created     \* history: [name, slot] of each Create that returned TRUE, no Remove called since

fsVars == <<marked, table, header, op, opened, hurt, crashed, corrupt, created>>
history == <<hurt, crashed, corrupt, created>>

Slots == 0 .. NumDirEntries - 1
NoOp == [kind |-> "none", alone |-> FALSE]

FsInit ==
  /\ marked = System
  /\ table = [s \in Slots |-> [inUse |-> FALSE, sector |-> 0, name |-> NoName]]
  /\ header = [s \in DiskSectors |-> <<>>]
  /\ op = [u \in Users |-> NoOp]
  /\ opened = {}
  /\ hurt = {} /\ crashed = FALSE /\ corrupt = FALSE /\ created = {}

-----------------------------------------------------------------------------
(***************************************************************************)
(* Directories, bitmaps and headers, in memory.                            *)
(***************************************************************************)

\* FindIndex: the first entry in use with that name, -1 if there is none.
FindIndex(dir, name) ==
  LET found == {s \in Slots : dir[s].inUse /\ dir[s].name = name}
  IN IF found = {} THEN -1 ELSE Min(found)

\* Mutation: Add does not look at inUse.
AllEntries(dir) == Slots

FreeEntries(dir) == {s \in Slots : ~dir[s].inUse}

\* A directory of which the first sector comes from one image and the second, which
\* begins with the name of the entry that straddles, from another.
Sectors(first, second) ==
  [s \in Slots |-> IF s = Straddle THEN [first[s] EXCEPT !.name = second[s].name]
                   ELSE IF s < Straddle THEN first[s] ELSE second[s]]

NumClear(map) == Cardinality(DiskSectors \ map)

\* The bits that n calls of FindAndSet find, when there are as many clear ones: each is
\* the lowest of those that are clear by then.
Lowest(clear, n) ==
  CHOOSE f \in [1 .. n -> clear] :
    \A i \in 1 .. n : f[i] = Min(clear \ {f[j] : j \in 1 .. i - 1})

\* Mutation: bits are found, but not set.
FindAndForget(map, n) == [found |-> Lowest(DiskSectors \ map, n), map |-> map]

\* n calls of FindAndSet.
FindAndSet(map, n) ==
  LET found == Lowest(DiskSectors \ map, n)
  IN [found |-> found, map |-> map \cup ToSet(found)]

WriteBack(dir) == <<[to |-> "directory1", dir |-> dir], [to |-> "directory2", dir |-> dir]>>
WriteMap(map) == [to |-> "map", map |-> map]
WriteHeader(sector, data) == [to |-> "header", sector |-> sector, data |-> data]

-----------------------------------------------------------------------------
(***************************************************************************)
(* Create, Open and Remove: the directory is fetched first, by all three.  *)
(***************************************************************************)

\* -r and -cp, which alone remove a file or create one with a size, act when the
\* machine boots, before any program has a file open.
Begin(u, kind, name, size) ==
  LET alone == kind = "remove" \/ size > 0
  IN /\ op[u] = NoOp
     /\ alone => opened = {}
     /\ \A v \in Users : IF alone THEN op[v] = NoOp ELSE ~op[v].alone
     /\ op' = [op EXCEPT ![u] = [kind |-> kind, name |-> name, size |-> size, alone |-> alone,
                                 at |-> "directory1", dir |-> table]]
     /\ UNCHANGED <<marked, table, header, opened, history>>

At(u, place) == op[u] # NoOp /\ op[u].at = place

FetchFirst(u) ==
  /\ At(u, "directory1")
  /\ op' = [op EXCEPT ![u].dir = table, ![u].at = "directory2"]
  /\ UNCHANGED <<marked, table, header, opened, history>>

\* Then the name is looked up: Create ends if it is there, Open and Remove if it is not.
FetchSecond(u) ==
  LET dir == Sectors(op[u].dir, table)
      present == FindIndex(dir, op[u].name) # -1
      next == IF op[u].kind = "create" THEN "map" ELSE "header"
  IN /\ At(u, "directory2")
     /\ op' = [op EXCEPT ![u] = IF present = (op[u].kind = "create") THEN NoOp
                                ELSE [@ EXCEPT !.dir = dir, !.at = next]]
     /\ UNCHANGED <<marked, table, header, opened, history>>

HeaderOf(u) == op[u].dir[FindIndex(op[u].dir, op[u].name)].sector

\* The constructor of OpenNaFile keeps the header as long as the file is open.
OpenFile(u) ==
  /\ At(u, "header") /\ op[u].kind = "open" /\ Cardinality(opened) < MaxOpen
  /\ opened' = opened \cup {[slot |-> FindIndex(op[u].dir, op[u].name), sector |-> HeaderOf(u),
                               data |-> header[HeaderOf(u)]]}
  /\ op' = [op EXCEPT ![u] = NoOp]
  /\ UNCHANGED <<marked, table, header, history>>

FetchHeader(u) ==
  /\ At(u, "header") /\ op[u].kind = "remove"
  /\ op' = [op EXCEPT ![u] = [kind |-> @.kind, name |-> @.name, alone |-> @.alone, at |-> "map", dir |-> @.dir,
                               data |-> header[HeaderOf(u)]]]
  /\ UNCHANGED <<marked, table, header, opened, history>>

Writes(u, slot, todo) ==
  op' = [op EXCEPT ![u] = [kind |-> @.kind, name |-> @.name, alone |-> @.alone, at |-> "writes", slot |-> slot, todo |-> todo]]

\* Create, with the free map just read: a sector for the header, an entry, and sectors
\* for the data, or nothing is written at all.
Create(u) ==
  LET o == op[u]
      first == FindAndSet(marked, 1)
      slot == Min(FreeEntries(o.dir))
      entry == [inUse |-> TRUE, sector |-> first.found[1], name |-> o.name]
      data == FindAndSet(first.map, o.size)
  IN /\ At(u, "map") /\ o.kind = "create"
     /\ IF NumClear(marked) = 0 \/ FreeEntries(o.dir) = {} \/ NumClear(first.map) < o.size
        THEN op' = [op EXCEPT ![u] = NoOp] /\ UNCHANGED hurt
        ELSE /\ Writes(u, slot, <<WriteHeader(entry.sector, data.found)>>
                                  \o WriteBack([o.dir EXCEPT ![slot] = entry])
                                  \o <<WriteMap(data.map)>>)
             /\ hurt' = hurt \ {slot}
     /\ UNCHANGED <<marked, table, header, opened, crashed, corrupt, created>>

\* The sectors of a file: its header's and those that its header lists.
Own(s) == {table[s].sector} \cup ToSet(header[table[s].sector])

\* To remove or to write through a hurt file harms every other in use that has one of the
\* sectors: then these are hurt in their turn.  A file that is not hurt harms nobody.
Reached(slot, sectors) ==
  IF slot \in hurt THEN {s \in Slots \ {slot} : table[s].inUse /\ Own(s) \cap sectors # {}} ELSE {}

\* Mutation: the header's own sector stays marked.
RemoveData(u) ==
  LET o == op[u]
      slot == FindIndex(o.dir, o.name)
  IN /\ At(u, "map") /\ o.kind = "remove"
     /\ ToSet(o.data) \subseteq marked /\ IsInjective(o.data)
     /\ Writes(u, slot, <<WriteMap(marked \ ToSet(o.data))>> \o WriteBack([o.dir EXCEPT ![slot].inUse = FALSE]))
     /\ hurt' = (hurt \cup Reached(slot, Own(slot))) \ {slot}
     /\ corrupt' = (slot \in hurt /\ Own(slot) \cap System # {})
     /\ created' = {c \in created : c.name # o.name}
     /\ UNCHANGED <<marked, table, header, opened, crashed>>

\* Remove, with the free map just read.  Deallocate clears each
\* sector of the data after it has asserted that it is marked.
RemoveFile(u) ==
  LET o == op[u]
      slot == FindIndex(o.dir, o.name)
  IN /\ At(u, "map") /\ o.kind = "remove"
     /\ ToSet(o.data) \subseteq marked /\ IsInjective(o.data)
     /\ Writes(u, slot, <<WriteMap(marked \ (ToSet(o.data) \cup {HeaderOf(u)}))>>
                          \o WriteBack([o.dir EXCEPT ![slot].inUse = FALSE]))
     /\ hurt' = (hurt \cup Reached(slot, Own(slot))) \ {slot}
     /\ corrupt' = (slot \in hurt /\ Own(slot) \cap System # {})
     /\ created' = {c \in created : c.name # o.name}
     /\ UNCHANGED <<marked, table, header, opened, crashed>>

\* The next WriteSector of an operation.
WriteNext(u) ==
  LET w == Head(op[u].todo)
      rest == Tail(op[u].todo)
  IN /\ At(u, "writes")
     /\ header' = IF w.to = "header" THEN [header EXCEPT ![w.sector] = w.data] ELSE header
     /\ table' = CASE w.to = "directory1" -> Sectors(w.dir, table)
                   [] w.to = "directory2" -> Sectors(table, w.dir)
                   [] OTHER -> table
     /\ marked' = IF w.to = "map" THEN w.map ELSE marked
     /\ op' = [op EXCEPT ![u] = IF rest = <<>> THEN NoOp ELSE [@ EXCEPT !.todo = rest]]
     /\ created' = IF rest = <<>> /\ op[u].kind = "create" THEN created \cup {[name |-> op[u].name, slot |-> op[u].slot]}
                   ELSE created
     /\ UNCHANGED <<opened, hurt, crashed, corrupt>>

\* A sector of an open file is overwritten (SysWrite, or the contents that -cp copies).  If
\* it holds the header of an entry in use, that file's header reads as anything from now on.
Write(u, f) ==
  /\ op[u] = NoOp
  /\ \E sector \in ToSet(f.data) :
       /\ IF \E s \in Slots : table[s].inUse /\ table[s].sector = sector
          THEN \E data \in Garbage : header' = [header EXCEPT ![sector] = data]
          ELSE UNCHANGED header
       /\ hurt' = hurt \cup Reached(f.slot, {sector})
       /\ corrupt' = (f.slot \in hurt /\ sector \in System)
  /\ UNCHANGED <<marked, table, op, opened, crashed, created>>

\* SysClose, or the end of the program, deletes the open file.
Close(f) ==
  /\ opened' = opened \ {f}
  /\ UNCHANGED <<marked, table, header, op, history>>

Changing == {op[u].slot : u \in {v \in Users : At(v, "writes")}}

\* The machine stops in the middle of an operation, once, and boots from the disk
\* without -f: the constructor of FileSystem opens the two files and reads nothing else.
Crash ==
  /\ ~crashed /\ Changing # {}
  /\ crashed' = TRUE
  /\ op' = [u \in Users |-> NoOp]
  /\ hurt' = hurt \cup Changing
  /\ opened' = {}
  /\ UNCHANGED <<marked, table, header, corrupt, created>>

\* What becomes of a disk whose free map or directory has been freed or overwritten as if
\* it were data is not modelled: nothing follows.
FsNext ==
  /\ ~corrupt
  /\ \/ \E u \in Users :
          \/ \E name \in Names : \/ Begin(u, "open", name, 0) \/ Begin(u, "remove", name, 0)
                                 \/ \E n \in 0 .. NumDirect : Begin(u, "create", name, n)
          \/ FetchFirst(u) \/ FetchSecond(u) \/ OpenFile(u) \/ FetchHeader(u)
          \/ Create(u) \/ RemoveFile(u) \/ WriteNext(u)
          \/ \E f \in opened : Write(u, f)
     \/ \E f \in opened : Close(f)
     \/ Crash

FsSpec == FsInit /\ [][FsNext]_fsVars

-----------------------------------------------------------------------------
(***************************************************************************)
(* Properties.                                                             *)
(***************************************************************************)

\* The files that no operation is changing and no crash has harmed, itself or through another.
Healthy == {s \in Slots \ (hurt \cup Changing) : table[s].inUse}

\* Operations one at a time, and a crash in the middle of one, harm no file but the one they
\* are about.  Every other has a name of its own; its sectors are marked in the map and of no
\* other healthy file; and whoever has it open reaches these sectors, and through the header
\* that is on the disk.  A file that a crash has caught half-written is another matter: its
\* sectors may be clear in the map, and so be given to a file made after, header and all.  As
\* long as nobody removes it or writes through it, both names lead to the new file; when
\* somebody does, the new file is harmed with no part in it (it is "reached"), and may harm
\* others in its turn.  If the system's own sectors are reached, nothing is claimed any more:
\* "it may corrupt the disk", as filesys.cpp:38-40 says.
FilesIntact ==
  ~corrupt =>
    /\ \A s \in Healthy :
         /\ Own(s) \subseteq marked \ System /\ table[s].sector \notin ToSet(header[table[s].sector])
         /\ \A r \in Healthy \ {s} : table[r].name # table[s].name /\ Own(r) \cap Own(s) = {}
    /\ \A f \in opened : f.slot \notin hurt =>
         f.slot \in Healthy /\ f.sector = table[f.slot].sector /\ f.data = header[f.sector]
    /\ System \subseteq marked

\* Between operations, and without a crash, the sectors marked are those of the
\* system and of the files: none is lost, whatever is created and removed.
NoSectorLost ==
  ~crashed /\ (\A u \in Users : op[u] = NoOp) =>
    marked = System \cup UNION {Own(s) : s \in {r \in Slots : table[r].inUse}}

\* A file whose Create has returned TRUE is the one found by its name until it is removed,
\* whatever one user at a time creates and removes, and whatever a crash leaves half-written,
\* stale names included; but not once a hurt file has reached the directory's own sectors.
CreatedFound ==
  ~corrupt => \A c \in created : FindIndex(table, c.name) = c.slot
=============================================================================
