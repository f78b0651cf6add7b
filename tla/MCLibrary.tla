----------------------------- MODULE MCLibrary -----------------------------
(***************************************************************************)
(* Instances of the library's containers and of the machine for TLC.  They *)
(* share no state, and so one behaviour exercises one of them, chosen at   *)
(* the start, while the others stay as they are.                           *)
(***************************************************************************)
EXTENDS Containers, Machine

VARIABLE part

libraryVars == <<part, listVars, hashVars, bitmapVars, machVars>>

\* Two items have the same priority; the keys go round the buckets.
MCPriority(x) == x \div 2
MCHash(key) == key

\* A page of code that is read-only, in the second frame, and a page of data.
MCPageTable ==
  << [valid |-> TRUE, readOnly |-> TRUE, physicalPage |-> 1],
     [valid |-> TRUE, readOnly |-> FALSE, physicalPage |-> 0] >>
MCCodes == 0 .. 63

\* One step of a part, after which it is the turn of another, or of nothing.
Only(p, after) ==
  /\ part = p /\ part' = after
  /\ p # "list" => UNCHANGED listVars
  /\ p # "hash" => UNCHANGED hashVars
  /\ p # "bitmap" => UNCHANGED bitmapVars
  /\ p # "machine" => UNCHANGED machVars

LibraryInit ==
  /\ part \in {"list", "hash", "bitmap", "machine"}
  /\ SortedListInit /\ HashInit /\ BitmapInit /\ MachInit
  /\ part = "machine" \/ \A r \in {1, 2, PCReg, LoadReg} : registers[r] = 0   \* one state for the others

LibraryNext ==
  \/ Only("list", "list") /\ SortedListNext
  \/ Only("hash", "hash") /\ HashNext
  \/ Only("bitmap", "bitmap") /\ BitmapNext
  \/ Only("machine", "done") /\ MachNext      \* bound: one instruction

LibrarySpec == LibraryInit /\ [][LibraryNext]_libraryVars
=============================================================================
