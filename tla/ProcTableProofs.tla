-------------------------- MODULE ProcTableProofs --------------------------
(***************************************************************************)
(* The process table, for every number of processes, size of the table, of *)
(* memory and of the programs, be processes started, refused, joined,      *)
(* orphaned and torn down in any order: the bitmap of the frames is exact, *)
(* and so are the entries, the lists of children and what Join returns.    *)
(***************************************************************************)
EXTENDS ProcTable, FiniteSetTheorems, WellFoundedInduction, TLAPS

Phases == {"unborn", "loading", "stillborn", "running", "exec", "waiting", "woken",
           "dying", "dead"}

\* Frames are given to a process that exists: the one its parent is making.
FrameInv ==
  /\ pages \in [Procs -> SUBSET Frames]
  /\ phase \in [Procs -> Phases]
  /\ child \in [Procs -> Procs \cup {None}]
  /\ \A p \in Procs : phase[p] = "exec" => child[p] \in Procs
  /\ FramesExact

\* FindAndSet takes a frame that was free.
LEMMA LowestFree ==
  ASSUME NEW S, S \subseteq Nat, S # {}
  PROVE  Min(S) \in S
<1>1. PICK n \in S : \A k \in S : ~ (<<k, n>> \in OpToRel(<, Nat))
  BY NatLessThanWellFounded, WFMin, Zenon
<1>2. ASSUME NEW k \in S, ~(n <= k)
      PROVE  FALSE
  <2>1. <<k, n>> \in Nat \X Nat /\ k < n
    BY <1>2
  <2>2. <<k, n>> \in OpToRel(<, Nat)
    BY <2>1 DEF OpToRel
  <2> QED  BY <2>2, <1>1
<1> QED  BY <1>2 DEF Min

\* At the start the first process has its frames and the others have none.
LEMMA FrameInitInv == ProcInit => FrameInv
<1> SUFFICES ASSUME ProcInit PROVE FrameInv
  OBVIOUS
<1>1. frameMap \subseteq Frames /\ First \in Procs
  BY ProcAssumption DEF ProcInit
<1>2. /\ pages = [p \in Procs |-> IF p = First THEN frameMap ELSE {}]
      /\ phase = [p \in Procs |-> IF p = First THEN "running" ELSE "unborn"]
      /\ child = [p \in Procs |-> None]
  BY DEF ProcInit
<1>3. frameMap = UNION {pages[p] : p \in Procs}
  BY <1>1, <1>2
<1>4. \A p, q \in Procs : p # q => pages[p] \cap pages[q] = {}
  BY <1>2
<1>5. phase \in [Procs -> Phases] /\ \A p \in Procs : phase[p] # "exec"
  BY <1>2 DEF Phases
<1>6. pages \in [Procs -> SUBSET Frames] /\ child \in [Procs -> Procs \cup {None}]
  BY <1>1, <1>2
<1> QED  BY <1>3, <1>4, <1>5, <1>6 DEF FrameInv, FramesExact

\* The steps that take or clear a frame.
LEMMA TakeFrame ==
  ASSUME FrameInv, NEW q \in Procs, NEW f \in Frames, f \notin frameMap,
         frameMap' = frameMap \cup {f}, pages' = [pages EXCEPT ![q] = @ \cup {f}]
  PROVE  FramesExact' /\ pages' \in [Procs -> SUBSET Frames]
<1> USE DEF FrameInv
<1>1. \A p \in Procs : f \notin pages[p]
  BY DEF FramesExact
<1>2. \A p \in Procs : pages'[p] = IF p = q THEN pages[q] \cup {f} ELSE pages[p]
  OBVIOUS
<1>3. frameMap' = UNION {pages'[p] : p \in Procs}
  <2>1. frameMap = UNION {pages[p] : p \in Procs}
    BY DEF FramesExact
  <2>2. \A g : g \in frameMap' <=> \E p \in Procs : g \in pages'[p]
    BY <1>2, <2>1
  <2> QED  BY <2>2
<1>4. \A p, r \in Procs : p # r => pages'[p] \cap pages'[r] = {}
  BY <1>1, <1>2 DEF FramesExact
<1> QED  BY <1>3, <1>4 DEF FramesExact

\* A process that gives one frame back leaves the others with their owners.
LEMMA GiveFrameBack ==
  ASSUME FrameInv, NEW q \in Procs, NEW f \in pages[q],
         frameMap' = frameMap \ {f}, pages' = [pages EXCEPT ![q] = @ \ {f}]
  PROVE  FramesExact' /\ pages' \in [Procs -> SUBSET Frames]
<1> USE DEF FrameInv
<1>1. \A p \in Procs : p # q => f \notin pages[p]
  BY DEF FramesExact
<1>2. \A p \in Procs : pages'[p] = IF p = q THEN pages[q] \ {f} ELSE pages[p]
  OBVIOUS
<1>3. frameMap' = UNION {pages'[p] : p \in Procs}
  <2>1. frameMap = UNION {pages[p] : p \in Procs}
    BY DEF FramesExact
  <2>2. \A g : g \in frameMap' <=> \E p \in Procs : g \in pages'[p]
    BY <1>1, <1>2, <2>1
  <2> QED  BY <2>2
<1>4. \A p, r \in Procs : p # r => pages'[p] \cap pages'[r] = {}
  BY <1>2 DEF FramesExact
<1> QED  BY <1>3, <1>4 DEF FramesExact

\* The parts of the invariant that only name what processes do.
LEMMA OtherStepsInv ==
  ASSUME FrameInv, UNCHANGED <<frameMap, pages>>,
         phase' \in [Procs -> Phases], child' \in [Procs -> Procs \cup {None}],
         \A p \in Procs : phase'[p] = "exec" => child'[p] \in Procs
  PROVE  FrameInv'
BY DEF FrameInv, FramesExact

\* Every step preserves the invariant.
LEMMA FrameNextInv == FrameInv /\ [ProcNext]_vars => FrameInv'
<1> SUFFICES ASSUME FrameInv, [ProcNext]_vars PROVE FrameInv'
  OBVIOUS
<1>0. /\ pages \in [Procs -> SUBSET Frames] /\ phase \in [Procs -> Phases]
      /\ child \in [Procs -> Procs \cup {None}]
      /\ \A p \in Procs : phase[p] = "exec" => child[p] \in Procs
  BY DEF FrameInv
<1>1. ASSUME NEW p \in Procs, FindAndSet(p)
      PROVE  FrameInv'
  <2> DEFINE f == Min(Frames \ frameMap)
  <2>1. child[p] \in Procs /\ UNCHANGED <<phase, child>>
    BY <1>0, <1>1 DEF FindAndSet, Loading
  <2>2. frameMap \subseteq Frames
    BY <1>0 DEF FrameInv, FramesExact
  <2>3. f \in Frames \ frameMap
    <3>1. Frames \ frameMap # {} /\ Frames \ frameMap \subseteq Nat
      BY <1>1, <2>2, ProcAssumption DEF FindAndSet
    <3> HIDE DEF f
    <3>2. Min(Frames \ frameMap) \in Frames \ frameMap
      BY <3>1, LowestFree
    <3> QED  BY <3>2 DEF f
  <2>4. /\ frameMap' = frameMap \cup {f}
        /\ pages' = [pages EXCEPT ![child[p]] = @ \cup {f}]
    BY <1>1 DEF FindAndSet
  <2> HIDE DEF f
  <2>5. FramesExact' /\ pages' \in [Procs -> SUBSET Frames]
    BY <2>1, <2>3, <2>4, TakeFrame
  <2> QED  BY <1>0, <2>1, <2>5 DEF FrameInv
<1>2. ASSUME NEW q \in Procs, ClearFrame(q)
      PROVE  FrameInv'
  <2>1. UNCHANGED <<phase, child>>
    BY <1>2 DEF ClearFrame
  <2>2. FramesExact' /\ pages' \in [Procs -> SUBSET Frames]
    BY <1>2, GiveFrameBack DEF ClearFrame
  <2> QED  BY <1>0, <2>1, <2>2 DEF FrameInv
<1>3. ASSUME NEW p \in Procs, NEW q \in Procs, GetNewProcId(p, q)
      PROVE  FrameInv'
  <2>1. /\ UNCHANGED <<frameMap, pages>> /\ p # q
        /\ phase' = [phase EXCEPT ![p] = "exec", ![q] = "loading"]
        /\ child' = [child EXCEPT ![p] = q]
    BY <1>3 DEF GetNewProcId
  <2> QED  BY <1>0, <2>1, OtherStepsInv DEF Phases
<1>4. ASSUME NEW p \in Procs, LoadFails(p)
      PROVE  FrameInv'
  <2>1. /\ UNCHANGED <<frameMap, pages, child>>
        /\ phase' = [phase EXCEPT ![child[p]] = "stillborn"]
    BY <1>4 DEF LoadFails, Goes
  <2> QED  BY <1>0, <2>1, OtherStepsInv DEF Phases
<1>5. ASSUME NEW p \in Procs, ExecForks(p) \/ ExecFails(p)
      PROVE  FrameInv'
  <2>1. /\ UNCHANGED <<frameMap, pages>>
        /\ child' = [child EXCEPT ![p] = None]
        /\ \/ phase' = [phase EXCEPT ![p] = "running", ![child[p]] = "running"]
           \/ phase' = [phase EXCEPT ![p] = "running"]
    BY <1>5 DEF ExecForks, ExecFails, Goes
  <2> QED  BY <1>0, <2>1, OtherStepsInv DEF Phases
<1>6. ASSUME NEW p \in Procs, NEW c \in Ids,
             JoinExited(p, c) \/ JoinWaits(p, c) \/ JoinWoken(p) \/ Finish(p)
      PROVE  FrameInv'
  <2>1. /\ UNCHANGED <<frameMap, pages, child>>
        /\ \/ phase' = phase
           \/ \E ph \in {"waiting", "running", "dead"} : phase' = [phase EXCEPT ![p] = ph]
    BY <1>6 DEF JoinExited, JoinWaits, JoinWoken, Finish, Goes
  <2> QED  BY <1>0, <2>1, OtherStepsInv DEF Phases
<1>7. ASSUME NEW p \in Procs, NEW s, ProcIsDone(p, s)
      PROVE  FrameInv'
  <2>1. UNCHANGED <<frameMap, pages, child>>
    BY <1>7 DEF ProcIsDone
  <2>2. /\ phase' \in [Procs -> Phases]
        /\ \A q \in Procs : phase'[q] = "exec" => phase[q] = "exec"
    BY <1>0, <1>7 DEF ProcIsDone, Phases
  <2> QED  BY <1>0, <2>1, <2>2, OtherStepsInv DEF Phases
<1>8. CASE UNCHANGED vars
  BY <1>0, <1>8, OtherStepsInv DEF vars
<1>9. 0 \in Ids
  BY ProcAssumption DEF Ids
<1> QED
  BY <1>1, <1>2, <1>3, <1>4, <1>5, <1>6, <1>7, <1>8, <1>9 DEF ProcNext, KernelStep

\* No frame is shared by two processes and none is leaked: the bitmap always
\* marks exactly the frames that some address space maps, also while address
\* spaces are being built, given up half-built, or torn down.
THEOREM ProcFrames == ProcSpec => []FramesExact
<1>1. FrameInv => FramesExact
  BY DEF FrameInv
<1> QED  BY <1>1, FrameInitInv, FrameNextInv, PTL DEF ProcSpec

-----------------------------------------------------------------------------
(***************************************************************************)
(* The table: who has an entry, and the lists of children.                 *)
(***************************************************************************)

Statuses == UNION {ExitStatuses(p) : p \in Procs}
NoId == -1

Entries ==
  [hasExited : BOOLEAN, exitStatus : Statuses \cup {None}, parentId : Ids \cup {NoId},
   firstChildId : Ids \cup {NoId}, siblingId : Ids \cup {NoId}, waitingRoom : SUBSET Procs,
   owner : Procs]

TableTypes ==
  /\ Used \subseteq Ids /\ items \in [Used -> Entries]
  /\ id \in [Procs -> Ids \cup {NoId}]
  /\ phase \in [Procs -> Phases]
  /\ child \in [Procs -> Procs \cup {None}]
  /\ parent \in [Procs -> Procs \cup {None}]
  /\ exitCode \in [Procs -> Statuses \cup {None}]
  /\ DOMAIN joining = Procs /\ DOMAIN joined = Procs

\* A process that has an identifier.
Registered(p) == Alive(p) \/ phase[p] = "loading"

\* Who made whom, and what is not yet.
Ancestry ==
  \A p \in Procs :
    /\ parent[p] # p
    /\ parent[p] # None => Alive(parent[p]) \/ Done(parent[p])
    /\ phase[p] = "unborn" => parent[p] = None
    /\ phase[p] = "exec" =>
         /\ child[p] \in Procs /\ parent[child[p]] = p
         /\ phase[child[p]] \in {"loading", "stillborn"}
    /\ joined[p] # None => Done(p) /\ joined[p] = <<parent[p], exitCode[p]>>
    /\ Done(p) => exitCode[p] # None

\* An entry in use: whose it is, whether it is to be kept, and whose child it is.
EntrySound(i) ==
  LET q == items[i].owner
  IN /\ IF items[i].hasExited
        THEN Done(q) /\ items[i].exitStatus = exitCode[q] /\ items[i].parentId # NoId
        ELSE phase[q] = "stillborn" \/ (Registered(q) /\ id[q] = i)
     /\ joined[q] = None
     /\ items[i].parentId = IF parent[q] # None /\ Alive(parent[q]) THEN id[parent[q]] ELSE NoId

Owned ==
  /\ \A i \in Used : EntrySound(i)
  /\ \A i, j \in Used : items[i].owner = items[j].owner => i = j
  /\ \A p \in Procs : Registered(p) =>
       id[p] \in Used /\ items[id[p]].owner = p /\ ~items[id[p]].hasExited
  /\ \A p \in Procs : Done(p) /\ parent[p] # None /\ ~Done(parent[p]) /\ joined[p] = None =>
       \E i \in Used : items[i].owner = p

\* The entries that name entry i as their parent's.
Kids(i) == {c \in Used : items[c].parentId = i}

\* The children of entry i are f[1], ..., f[n], in the order of the list.
Chain(i, n, f) ==
  LET at(k) == IF k <= n THEN f[k] ELSE NoId
  IN /\ {f[k] : k \in 1 .. n} = Kids(i)
     /\ \A k, m \in 1 .. n : f[k] = f[m] => k = m
     /\ items[i].firstChildId = at(1)
     /\ \A k \in 1 .. n : items[f[k]].siblingId = at(k + 1)

Chained(i) == \E n \in Nat : \E f \in [1 .. n -> Ids] : Chain(i, n, f)

Chains == \A p \in Procs : Registered(p) => Chained(id[p])

\* A process in Join waits for an entry of a child of its own, and the entry before it
\* in the list is the one it remembers.
JoinSound(p) ==
  LET j == joining[p]
  IN /\ j \in [id : Ids, prev : Ids \cup {NoId}]
     /\ j.id \in Used /\ items[j.id].parentId = id[p]
     /\ items[j.id].hasExited <=> phase[p] = "woken"
     /\ phase[p] = "waiting" => p \in items[j.id].waitingRoom
     /\ IF j.prev = NoId THEN items[id[p]].firstChildId = j.id
        ELSE j.prev \in Used /\ items[j.prev].parentId = id[p] /\ items[j.prev].siblingId = j.id

Joins ==
  /\ \A p \in Procs : phase[p] \in {"waiting", "woken"} => JoinSound(p)
  /\ \A i \in Used : \A p \in items[i].waitingRoom : phase[p] = "waiting" /\ joining[p].id = i

TableInv == TableTypes /\ Ancestry /\ Owned /\ Chains /\ Joins

\* The identifiers, of which NoId is none.
LEMMA IdFacts ==
  /\ MaxNumProcesses \in Nat \ {0} /\ Ids = 0 .. MaxNumProcesses - 1 /\ Ids \subseteq Nat /\ 0 \in Ids
  /\ NoId = -1 /\ NoId \notin Ids
  /\ First \in Procs /\ None \notin Procs
  BY ProcAssumption DEF Ids, NoId

\* A list of children has no more than the table.
LEMMA ChainLength ==
  ASSUME NEW n \in Nat, NEW f \in [1 .. n -> Ids], \A k, m \in 1 .. n : f[k] = f[m] => k = m
  PROVE  n <= MaxNumProcesses
<1>1. IsFiniteSet(Ids) /\ Cardinality(Ids) = MaxNumProcesses
  <2>1. /\ IsFiniteSet(0 .. MaxNumProcesses - 1)
        /\ Cardinality(0 .. MaxNumProcesses - 1)
             = IF 0 > MaxNumProcesses - 1 THEN 0 ELSE MaxNumProcesses - 1 - 0 + 1
    <3>1. 0 \in Int /\ MaxNumProcesses - 1 \in Int
      BY IdFacts
    <3> QED  BY <3>1, FS_Interval
  <2> QED  BY <2>1, IdFacts
<1>2. IsFiniteSet(1 .. n) /\ Cardinality(1 .. n) = n
  <2>1. IsFiniteSet(1 .. n) /\ Cardinality(1 .. n) = IF 1 > n THEN 0 ELSE n - 1 + 1
    BY FS_Interval
  <2> QED  BY <2>1
<1>3. f \in Injection(1 .. n, Ids)
  BY DEF Injection, IsInjective
<1>4. Cardinality(1 .. n) <= Cardinality(Ids)
  BY <1>1, <1>2, <1>3, FS_Injection
<1> QED  BY <1>1, <1>2, <1>4

\* The walk of GetProcStatus and ProcIsDone passes the children one by one.
LEMMA WalkPasses ==
  ASSUME TableTypes, NEW i, NEW n \in Nat, NEW f \in [1 .. n -> Ids], Chain(i, n, f)
  PROVE  /\ n <= MaxNumProcesses
         /\ Walk(i) = [k \in 0 .. MaxNumProcesses |-> IF k < n THEN f[k + 1] ELSE -1]
<1> DEFINE Next(k, g) == IF k = 0 THEN items[i].firstChildId
                         ELSE IF g[k - 1] \in Used THEN items[g[k - 1]].siblingId ELSE -1
           h == [k \in Nat |-> IF k < n THEN f[k + 1] ELSE -1]
           step == CHOOSE g : g = [k \in Nat |-> Next(k, g)]
<1>1. n <= MaxNumProcesses
  BY ChainLength DEF Chain
<1>2. /\ items[i].firstChildId = IF 1 <= n THEN f[1] ELSE -1
      /\ \A k \in 1 .. n : f[k] \in Used /\ items[f[k]].siblingId = IF k + 1 <= n THEN f[k + 1] ELSE -1
  BY DEF Chain, Kids, NoId
<1>3. -1 \notin Used
  BY IdFacts DEF TableTypes
<1>4. h = [k \in Nat |-> Next(k, h)]
  <2> SUFFICES ASSUME NEW k \in Nat PROVE h[k] = Next(k, h)
    OBVIOUS
  <2>1. CASE k = 0
    BY <2>1, <1>2
  <2>2. CASE k # 0 /\ k <= n
    <3>1. k - 1 \in Nat /\ k \in 1 .. n /\ h[k - 1] = f[k]
      BY <2>2
    <3>2. Next(k, h) = items[f[k]].siblingId
      BY <3>1, <2>2, <1>2
    <3> QED  BY <3>1, <3>2, <2>2, <1>2
  <2>3. CASE ~(k <= n)
    <3>1. k - 1 \in Nat /\ k # 0 /\ h[k - 1] = -1 /\ h[k] = -1
      BY <2>3
    <3> QED  BY <3>1, <1>3
  <2> QED  BY <2>1, <2>2, <2>3
<1>5. step = [k \in Nat |-> Next(k, step)]
  <2> HIDE DEF h
  <2>1. \E g : g = [k \in Nat |-> Next(k, g)]
    BY <1>4
  <2> QED  BY <2>1
<1>6. \A k \in Nat : step[k] = Next(k, step) /\ h[k] = Next(k, h)
  <2> HIDE DEF step, h, Next
  <2> QED  BY <1>4, <1>5
<1>7. \A k \in Nat : step[k] = h[k]
  <2> DEFINE differ == {k \in Nat : step[k] # h[k]}
  <2> HIDE DEF step, h
  <2>1. ASSUME differ # {}
        PROVE  FALSE
    <3>1. PICK k \in differ : \A m \in differ : ~ (<<m, k>> \in OpToRel(<, Nat))
      <4>1. differ \subseteq Nat
        OBVIOUS
      <4> HIDE DEF differ
      <4> QED  BY <2>1, <4>1, NatLessThanWellFounded, WFMin, Zenon
    <3>2. k \in Nat /\ step[k] # h[k]
      BY <3>1
    <3>3. k # 0
      BY <3>2, <1>6
    <3>4. k - 1 \in Nat /\ k - 1 < k
      BY <3>2, <3>3
    <3>5. <<k - 1, k>> \in OpToRel(<, Nat)
      BY <3>2, <3>4 DEF OpToRel
    <3>6. step[k - 1] = h[k - 1]
      BY <3>1, <3>4, <3>5
    <3>7. Next(k, step) = Next(k, h)
      BY <3>6
    <3> HIDE DEF Next
    <3> QED  BY <3>2, <3>7, <1>6
  <2> QED  BY <2>1
<1>8. Walk(i) = [k \in 0 .. MaxNumProcesses |-> step[k]]
  BY DEF Walk
<1> HIDE DEF step, h
<1>9. \A k \in 0 .. MaxNumProcesses : step[k] = IF k < n THEN f[k + 1] ELSE -1
  BY <1>7, IdFacts DEF h
<1> QED  BY <1>1, <1>8, <1>9

\* An entry of the list has one entry before it, or is the first.
LEMMA ChainLinks ==
  ASSUME TableTypes, NEW i, NEW n \in Nat, NEW f \in [1 .. n -> Ids], Chain(i, n, f),
         NEW c \in Kids(i)
  PROVE  /\ items[i].firstChildId = c \/ \E b \in Kids(i) : items[b].siblingId = c
         /\ \A b \in Kids(i) : items[b].siblingId = c => b # c /\ items[i].firstChildId # c
         /\ \A a, b \in Kids(i) : items[a].siblingId = c /\ items[b].siblingId = c => a = b
<1>1. /\ Kids(i) = {f[k] : k \in 1 .. n}
      /\ \A k, m \in 1 .. n : f[k] = f[m] => k = m
      /\ items[i].firstChildId = IF 1 <= n THEN f[1] ELSE NoId
      /\ \A k \in 1 .. n : items[f[k]].siblingId = IF k + 1 <= n THEN f[k + 1] ELSE NoId
  BY DEF Chain, Kids
<1>2. PICK m \in 1 .. n : c = f[m]
  BY <1>1
<1>3. c \in Ids /\ c # NoId
  BY <1>2, IdFacts
<1>4. \A b \in Kids(i) : items[b].siblingId = c => m # 1 /\ b = f[m - 1]
  <2> SUFFICES ASSUME NEW k \in 1 .. n, items[f[k]].siblingId = c
               PROVE  m # 1 /\ f[k] = f[m - 1]
    BY <1>1
  <2>1. k + 1 <= n /\ f[k + 1] = f[m]
    BY <1>1, <1>2, <1>3
  <2>2. k + 1 \in 1 .. n
    BY <2>1
  <2>3. k + 1 = m
    BY <2>1, <2>2, <1>1
  <2> QED  BY <2>3
<1>5. CASE m = 1
  BY <1>1, <1>2, <1>4, <1>5
<1>6. CASE m # 1
  <2>1. m - 1 \in 1 .. n /\ 1 \in 1 .. n /\ 1 <= n
    BY <1>6
  <2>2. f[m - 1] \in Kids(i) /\ items[f[m - 1]].siblingId = c
    BY <2>1, <1>1, <1>2
  <2>3. f[m - 1] # c /\ f[1] # c
    BY <2>1, <1>6, <1>1, <1>2
  <2> QED  BY <2>1, <2>2, <2>3, <1>1, <1>4
<1> QED  BY <1>5, <1>6

\* What the walk finds in the list of a registered process.
LEMMA ListFacts ==
  ASSUME TableTypes, NEW i, Chained(i)
  PROVE  /\ Walk(i)[MaxNumProcesses] = -1
         /\ Children(i) = Kids(i)
         /\ \A c \in Kids(i) :
              /\ Previous(i, c) = NoId => items[i].firstChildId = c
              /\ Previous(i, c) # NoId =>
                   Previous(i, c) \in Kids(i) /\ items[Previous(i, c)].siblingId = c
              /\ items[i].firstChildId = c => Previous(i, c) = NoId
              /\ \A b \in Kids(i) : items[b].siblingId = c => Previous(i, c) = b
<1>0. PICK n \in Nat : \E f \in [1 .. n -> Ids] : Chain(i, n, f)
  BY DEF Chained
<1>1. PICK f \in [1 .. n -> Ids] : Chain(i, n, f)
  BY <1>0
<1>2. /\ n <= MaxNumProcesses
      /\ Walk(i) = [k \in 0 .. MaxNumProcesses |-> IF k < n THEN f[k + 1] ELSE -1]
  BY <1>1, WalkPasses
<1>3. MaxNumProcesses \in Nat
  BY IdFacts
<1>4. Walk(i)[MaxNumProcesses] = -1
  BY <1>2, <1>3
<1>5. Kids(i) = {f[k] : k \in 1 .. n} /\ Kids(i) \subseteq Ids
  BY <1>1 DEF Chain, Kids, TableTypes
<1>6. Children(i) = Kids(i)
  <2>1. Children(i) = {Walk(i)[k] : k \in 0 .. MaxNumProcesses} \ {-1}
    BY <1>2 DEF Children
  <2>2. ASSUME NEW c \in Kids(i)
        PROVE  c \in Children(i)
    <3>1. PICK k \in 1 .. n : c = f[k]
      BY <1>5
    <3>2. k - 1 \in 0 .. MaxNumProcesses /\ k - 1 < n /\ (k - 1) + 1 = k
      BY <1>2, <1>3
    <3>3. Walk(i)[k - 1] = c
      BY <3>1, <3>2, <1>2
    <3>4. c # -1
      BY <1>5, IdFacts
    <3> QED  BY <2>1, <3>2, <3>3, <3>4
  <2>3. ASSUME NEW k \in 0 .. MaxNumProcesses, Walk(i)[k] # -1
        PROVE  Walk(i)[k] \in Kids(i)
    <3>1. k < n /\ Walk(i)[k] = f[k + 1] /\ k + 1 \in 1 .. n
      BY <2>3, <1>2, <1>3
    <3> QED  BY <3>1, <1>5
  <2> QED  BY <2>1, <2>2, <2>3
<1>7. ASSUME NEW c \in Kids(i)
      PROVE  /\ Previous(i, c) = NoId => items[i].firstChildId = c
             /\ Previous(i, c) # NoId =>
                  Previous(i, c) \in Kids(i) /\ items[Previous(i, c)].siblingId = c
             /\ items[i].firstChildId = c => Previous(i, c) = NoId
             /\ \A b \in Kids(i) : items[b].siblingId = c => Previous(i, c) = b
  <2>1. /\ items[i].firstChildId = c \/ \E b \in Kids(i) : items[b].siblingId = c
        /\ \A b \in Kids(i) : items[b].siblingId = c => b # c /\ items[i].firstChildId # c
        /\ \A a, b \in Kids(i) : items[a].siblingId = c /\ items[b].siblingId = c => a = b
    BY <1>1, ChainLinks
  <2>2. \A b \in Kids(i) : b # NoId
    BY <1>5, IdFacts
  <2>3. CASE items[i].firstChildId = c
    BY <2>1, <2>3, IdFacts DEF Previous
  <2>4. CASE items[i].firstChildId # c
    <3>1. PICK b \in Kids(i) : items[b].siblingId = c
      BY <2>1, <2>4
    <3>2. Previous(i, c) = CHOOSE a \in Kids(i) : items[a].siblingId = c
      BY <2>4, <1>6 DEF Previous
    <3>3. Previous(i, c) \in Kids(i) /\ items[Previous(i, c)].siblingId = c
      <4> HIDE DEF Kids
      <4> QED  BY <3>1, <3>2
    <3> QED  BY <3>3, <2>1, <2>2, <2>4
  <2> QED  BY <2>3, <2>4
<1> QED  BY <1>4, <1>6, <1>7

-----------------------------------------------------------------------------
(***************************************************************************)
(* The lists from one state to the next.                                   *)
(***************************************************************************)

\* A list whose entries, order and first child stay stays.
LEMMA ChainStays ==
  ASSUME NEW i, Chained(i), Kids(i)' = Kids(i),
         items'[i].firstChildId = items[i].firstChildId,
         \A c \in Kids(i) : items'[c].siblingId = items[c].siblingId
  PROVE  Chained(i)'
<1>1. PICK n \in Nat : \E f \in [1 .. n -> Ids] : Chain(i, n, f)
  BY DEF Chained
<1>2. PICK f \in [1 .. n -> Ids] : Chain(i, n, f)
  BY <1>1
<1>3. \A k \in 1 .. n : f[k] \in Kids(i)
  BY <1>2 DEF Chain
<1>4. Chain(i, n, f)'
  <2> HIDE DEF Kids
  <2> QED  BY <1>2, <1>3 DEF Chain
<1> QED  BY <1>4 DEF Chained

\* GetNewProcId puts the new entry in front.
LEMMA ChainGrows ==
  ASSUME NEW i, Chained(i), NEW new \in Ids, new \notin Kids(i),
         Kids(i)' = Kids(i) \cup {new},
         items'[i].firstChildId = new, items'[new].siblingId = items[i].firstChildId,
         \A c \in Kids(i) : items'[c].siblingId = items[c].siblingId
  PROVE  Chained(i)'
<1>1. PICK n \in Nat : \E f \in [1 .. n -> Ids] : Chain(i, n, f)
  BY DEF Chained
<1>2. PICK f \in [1 .. n -> Ids] : Chain(i, n, f)
  BY <1>1
<1>3. /\ Kids(i) = {f[k] : k \in 1 .. n}
      /\ \A k, m \in 1 .. n : f[k] = f[m] => k = m
      /\ items[i].firstChildId = IF 1 <= n THEN f[1] ELSE NoId
      /\ \A k \in 1 .. n : items[f[k]].siblingId = IF k + 1 <= n THEN f[k + 1] ELSE NoId
  BY <1>2 DEF Chain
<1>4. PICK g \in [1 .. n + 1 -> Ids] : g = [k \in 1 .. n + 1 |-> IF k = 1 THEN new ELSE f[k - 1]]
  <2>1. \A k \in 1 .. n + 1 : k # 1 => f[k - 1] \in Ids
    OBVIOUS
  <2>2. [k \in 1 .. n + 1 |-> IF k = 1 THEN new ELSE f[k - 1]] \in [1 .. n + 1 -> Ids]
    BY <2>1
  <2> QED  BY <2>2
<1>5. g[1] = new /\ \A k \in 2 .. n + 1 : k - 1 \in 1 .. n /\ g[k] = f[k - 1] /\ g[k] \in Kids(i)
  BY <1>3, <1>4
<1>6. {g[k] : k \in 1 .. n + 1} = Kids(i)'
  <2>1. \A k \in 1 .. n : k + 1 \in 2 .. n + 1 /\ g[k + 1] = f[k]
    BY <1>4
  <2>2. \A c \in Kids(i) : \E k \in 1 .. n + 1 : c = g[k]
    BY <2>1, <1>3
  <2>3. 1 \in 1 .. n + 1 /\ \A k \in 1 .. n + 1 : k = 1 \/ k \in 2 .. n + 1
    OBVIOUS
  <2>4. \A k \in 1 .. n + 1 : g[k] \in Kids(i)'
    BY <2>3, <1>5
  <2> HIDE DEF Kids
  <2>5. \A c \in Kids(i)' : \E k \in 1 .. n + 1 : c = g[k]
    BY <2>2, <2>3, <1>5
  <2> QED  BY <2>4, <2>5
<1>7. \A k, m \in 1 .. n + 1 : g[k] = g[m] => k = m
  <2> SUFFICES ASSUME NEW k \in 1 .. n + 1, NEW m \in 1 .. n + 1, g[k] = g[m] PROVE k = m
    OBVIOUS
  <2>1. CASE k = 1 \/ m = 1
    BY <2>1, <1>5
  <2>2. CASE k # 1 /\ m # 1
    <3>1. k \in 2 .. n + 1 /\ m \in 2 .. n + 1
      BY <2>2
    <3>2. k - 1 = m - 1
      BY <3>1, <1>5, <1>3
    <3> QED  BY <3>2
  <2> QED  BY <2>1, <2>2
<1>8. \A k \in 1 .. n + 1 :
         items'[g[k]].siblingId = IF k + 1 <= n + 1 THEN g[k + 1] ELSE NoId
  <2> SUFFICES ASSUME NEW k \in 1 .. n + 1
               PROVE  items'[g[k]].siblingId = IF k + 1 <= n + 1 THEN g[k + 1] ELSE NoId
    OBVIOUS
  <2>1. CASE k = 1
    <3>1. 1 <= n => g[2] = f[1]
      BY <1>4
    <3> QED  BY <3>1, <2>1, <1>3, <1>5
  <2>2. CASE k # 1
    <3>1. k - 1 \in 1 .. n /\ g[k] = f[k - 1] /\ g[k] \in Kids(i)
      BY <2>2, <1>5
    <3>2. items'[g[k]].siblingId = IF k - 1 + 1 <= n THEN f[k - 1 + 1] ELSE NoId
      BY <3>1, <1>3
    <3>3. k + 1 <= n + 1 => g[k + 1] = f[k]
      BY <3>1, <1>4
    <3> QED  BY <3>2, <3>3
  <2> QED  BY <2>1, <2>2
<1>9. Chain(i, n + 1, g)'
  <2> HIDE DEF Kids
  <2> QED  BY <1>5, <1>6, <1>7, <1>8 DEF Chain
<1> QED  BY <1>9 DEF Chained

\* GetProcStatus takes one entry out of the list.
LEMMA ChainShrinks ==
  ASSUME NEW i, Chained(i), NEW c \in Kids(i), c # NoId, NEW prev,
         IF prev = NoId THEN items[i].firstChildId = c
         ELSE prev \in Kids(i) /\ items[prev].siblingId = c,
         Kids(i)' = Kids(i) \ {c},
         items'[i].firstChildId = IF prev = NoId THEN items[c].siblingId ELSE items[i].firstChildId,
         \A b \in Kids(i) \ {c} :
           items'[b].siblingId = IF b = prev THEN items[c].siblingId ELSE items[b].siblingId
  PROVE  Chained(i)'
<1>1. PICK n \in Nat : \E f \in [1 .. n -> Ids] : Chain(i, n, f)
  BY DEF Chained
<1>2. PICK f \in [1 .. n -> Ids] : Chain(i, n, f)
  BY <1>1
<1>3. /\ Kids(i) = {f[k] : k \in 1 .. n}
      /\ \A k, m \in 1 .. n : f[k] = f[m] => k = m
      /\ items[i].firstChildId = IF 1 <= n THEN f[1] ELSE NoId
      /\ \A k \in 1 .. n : items[f[k]].siblingId = IF k + 1 <= n THEN f[k + 1] ELSE NoId
  BY <1>2 DEF Chain
<1> HIDE DEF Kids
<1>4. PICK m \in 1 .. n : c = f[m]
  BY <1>3
<1>5. IF m = 1 THEN prev = NoId ELSE prev # NoId /\ prev = f[m - 1]
  <2>1. CASE prev = NoId
    <3>1. 1 \in 1 .. n /\ f[1] = f[m]
      BY <2>1, <1>3, <1>4
    <3> QED  BY <3>1, <2>1, <1>3
  <2>2. CASE prev # NoId
    <3>1. PICK k \in 1 .. n : prev = f[k]
      BY <2>2, <1>3
    <3>2. k + 1 <= n /\ f[k + 1] = f[m]
      BY <3>1, <2>2, <1>3, <1>4
    <3>3. k + 1 = m
      BY <3>2, <1>3
    <3> QED  BY <3>1, <3>3, <2>2
  <2> QED  BY <2>1, <2>2
<1>6. PICK l \in Nat : l = n - 1
  BY <1>4
<1>7. PICK g \in [1 .. l -> Ids] : g = [k \in 1 .. l |-> IF k < m THEN f[k] ELSE f[k + 1]]
  <2>1. \A k \in 1 .. l : f[k] \in Ids /\ f[k + 1] \in Ids
    BY <1>6
  <2>2. [k \in 1 .. l |-> IF k < m THEN f[k] ELSE f[k + 1]] \in [1 .. l -> Ids]
    BY <2>1
  <2> QED  BY <2>2
<1> DEFINE old(k) == IF k < m THEN k ELSE k + 1
<1>8. \A k \in 1 .. l : old(k) \in 1 .. n /\ old(k) # m /\ g[k] = f[old(k)]
  BY <1>6, <1>7
<1>9. \A k \in 1 .. n : k # m => \E j \in 1 .. l : old(j) = k
  <2> SUFFICES ASSUME NEW k \in 1 .. n, k # m PROVE \E j \in 1 .. l : old(j) = k
    OBVIOUS
  <2>1. CASE k < m
    <3>1. k \in 1 .. l /\ old(k) = k
      BY <2>1, <1>6
    <3> QED  BY <3>1
  <2>2. CASE ~(k < m)
    <3>1. k - 1 \in 1 .. l /\ old(k - 1) = k
      BY <2>2, <1>6
    <3> QED  BY <3>1
  <2> QED  BY <2>1, <2>2
<1>10. \A j, k \in 1 .. l : old(j) = old(k) => j = k
  OBVIOUS
<1> HIDE DEF old
<1>11. {g[k] : k \in 1 .. l} = Kids(i)'
  <2>1. \A k \in 1 .. l : g[k] \in Kids(i)'
    BY <1>3, <1>4, <1>8
  <2>2. \A b \in Kids(i)' : \E k \in 1 .. l : b = g[k]
    <3> SUFFICES ASSUME NEW k \in 1 .. n, f[k] # c PROVE \E j \in 1 .. l : f[k] = g[j]
      BY <1>3
    <3> QED  BY <1>4, <1>8, <1>9
  <2> QED  BY <2>1, <2>2
<1>12. \A j, k \in 1 .. l : g[j] = g[k] => j = k
  BY <1>3, <1>8, <1>10
<1>13. items'[i].firstChildId = IF 1 <= l THEN g[1] ELSE NoId
  <2>1. CASE m = 1
    <3>1. items'[i].firstChildId = IF 2 <= n THEN f[2] ELSE NoId
      BY <2>1, <1>3, <1>4, <1>5
    <3> QED  BY <3>1, <2>1, <1>6, <1>7
  <2>2. CASE m # 1
    BY <2>2, <1>3, <1>5, <1>6, <1>7
  <2> QED  BY <2>1, <2>2
<1>14. \A k \in 1 .. l : items'[g[k]].siblingId = IF k + 1 <= l THEN g[k + 1] ELSE NoId
  <2> SUFFICES ASSUME NEW k \in 1 .. l
               PROVE  items'[g[k]].siblingId = IF k + 1 <= l THEN g[k + 1] ELSE NoId
    OBVIOUS
  <2>1. g[k] \in Kids(i) \ {c}
    BY <1>11
  <2>2. /\ k < m => g[k] = f[k] /\ k \in 1 .. n
        /\ ~(k < m) => g[k] = f[k + 1] /\ k + 1 \in 1 .. n
        /\ k + 1 <= l /\ k + 1 < m => g[k + 1] = f[k + 1]
        /\ k + 1 <= l /\ ~(k + 1 < m) => g[k + 1] = f[k + 2]
    BY <1>6, <1>7
  <2>3. CASE k + 1 = m
    <3>1. g[k] = prev
      BY <2>3, <1>5, <2>2
    <3>2. items'[g[k]].siblingId = IF m + 1 <= n THEN f[m + 1] ELSE NoId
      BY <3>1, <2>1, <1>3, <1>4
    <3> QED  BY <3>2, <2>2, <2>3, <1>6
  <2>4. CASE k + 1 # m
    <3>1. g[k] # prev
      <4>1. CASE m = 1
        BY <4>1, <1>5, <2>1, <1>8, IdFacts
      <4>2. CASE m # 1
        <5>1. m - 1 \in 1 .. n /\ prev = f[m - 1] /\ old(k) # m - 1
          BY <4>2, <1>5, <2>4 DEF old
        <5> QED  BY <5>1, <1>3, <1>8
      <4> QED  BY <4>1, <4>2
    <3>2. items'[g[k]].siblingId = items[g[k]].siblingId
      BY <3>1, <2>1
    <3>3. CASE k < m
      <4>1. items[f[k]].siblingId = IF k + 1 <= n THEN f[k + 1] ELSE NoId
        BY <3>3, <2>2, <1>3
      <4> QED  BY <4>1, <3>2, <3>3, <2>2, <2>4, <1>6
    <3>4. CASE ~(k < m)
      <4>1. items[f[k + 1]].siblingId = IF k + 1 + 1 <= n THEN f[k + 1 + 1] ELSE NoId
        BY <3>4, <2>2, <1>3
      <4> QED  BY <4>1, <3>2, <3>4, <2>2, <2>4, <1>6
    <3> QED  BY <3>3, <3>4
  <2> QED  BY <2>3, <2>4
<1>15. Chain(i, l, g)'
  BY <1>11, <1>12, <1>13, <1>14 DEF Chain
<1> QED  BY <1>15 DEF Chained

-----------------------------------------------------------------------------
(***************************************************************************)
(* The table from one state to the next.                                   *)
(***************************************************************************)

\* An identifier leads to its process, and the name of a parent to the parent.
LEMMA IdsLead ==
  ASSUME TableTypes, Ancestry, Owned
  PROVE  /\ \A p, q \in Procs : Registered(p) /\ Registered(q) /\ id[p] = id[q] => p = q
         /\ \A p \in Procs : Registered(p) => id[p] \in Ids /\ id[p] \in Used
         /\ \A i \in Used : items[i].parentId # NoId =>
              LET r == parent[items[i].owner]
              IN r \in Procs /\ Alive(r) /\ Registered(r) /\ items[i].parentId = id[r]
         /\ \A i \in Used : items[i].parentId \in Used \cup {NoId}
         /\ \A p \in Procs : Registered(p) => items[id[p]].parentId # id[p]
<1>1. \A p, q \in Procs : Registered(p) /\ Registered(q) /\ id[p] = id[q] => p = q
  BY DEF Owned
<1>2. \A p \in Procs : Registered(p) => id[p] \in Ids /\ id[p] \in Used
  BY DEF Owned, TableTypes
<1>3. ASSUME NEW i \in Used, items[i].parentId # NoId
      PROVE  LET r == parent[items[i].owner]
             IN r \in Procs /\ Alive(r) /\ Registered(r) /\ items[i].parentId = id[r]
  <2>1. items[i].owner \in Procs
    BY DEF TableTypes, Entries
  <2>2. parent[items[i].owner] \in Procs \cup {None}
    BY <2>1 DEF TableTypes
  <2>3. EntrySound(i)
    BY DEF Owned
  <2> QED  BY <1>3, <2>2, <2>3 DEF EntrySound, Registered
<1>4. \A i \in Used : items[i].parentId \in Used \cup {NoId}
  BY <1>2, <1>3
<1>5. ASSUME NEW p \in Procs, Registered(p), items[id[p]].parentId = id[p]
      PROVE  FALSE
  <2>1. id[p] \in Used /\ id[p] # NoId /\ items[id[p]].owner = p
    BY <1>2, <1>5, IdFacts DEF Owned
  <2>2. parent[p] \in Procs /\ Registered(parent[p]) /\ id[p] = id[parent[p]]
    BY <1>3, <1>5, <2>1
  <2> QED  BY <1>1, <1>5, <2>2 DEF Ancestry
<1> QED  BY <1>1, <1>2, <1>3, <1>4, <1>5

\* At the start the process table has the first process and nobody else.
LEMMA TableInitInv == ProcInit => TableInv
<1> SUFFICES ASSUME ProcInit PROVE TableInv
  OBVIOUS
<1>1. /\ First \in Procs /\ None \notin Procs /\ 0 \in Ids
      /\ items = [i \in {0} |-> NewEntry(First, -1, -1)]
      /\ id = [p \in Procs |-> IF p = First THEN 0 ELSE -1]
      /\ phase = [p \in Procs |-> IF p = First THEN "running" ELSE "unborn"]
      /\ child = [p \in Procs |-> None] /\ joining = [p \in Procs |-> None]
      /\ parent = [p \in Procs |-> None] /\ exitCode = [p \in Procs |-> None]
      /\ joined = [p \in Procs |-> None]
  BY IdFacts DEF ProcInit
<1>a. Used = {0} /\ items[0] = NewEntry(First, -1, -1)
  BY <1>1 DEF Used
<1>2. /\ items[0].hasExited = FALSE /\ items[0].parentId = NoId
      /\ items[0].firstChildId = NoId /\ items[0].owner = First
      /\ items[0].waitingRoom = {}
  BY <1>a DEF NewEntry, NoId
<1>3. TableTypes
  <2>1. NewEntry(First, -1, -1) \in Entries
    BY <1>1 DEF NewEntry, Entries, NoId
  <2>2. items \in [Used -> Entries]
    BY <1>1, <1>a, <2>1
  <2>3. phase \in [Procs -> Phases] /\ id \in [Procs -> Ids \cup {NoId}]
    BY <1>1 DEF Phases, NoId
  <2> QED  BY <1>1, <1>a, <2>2, <2>3 DEF TableTypes
<1>4. \A p \in Procs : phase[p] = IF p = First THEN "running" ELSE "unborn"
  BY <1>1
<1>5. Ancestry
  BY <1>1, <1>4 DEF Ancestry, Done
<1>6. Owned
  BY <1>1, <1>a, <1>2, <1>4 DEF Owned, EntrySound, Registered, Alive, Done
<1>7. Chains
  <2>1. Kids(0) = {}
    BY <1>a, <1>2, IdFacts DEF Kids
  <2>2. \A f \in [1 .. 0 -> Ids] : Chain(0, 0, f)
    BY <2>1, <1>2 DEF Chain
  <2>3. [k \in 1 .. 0 |-> 0] \in [1 .. 0 -> Ids]
    BY <1>1
  <2>4. Chained(0)
    BY <2>2, <2>3 DEF Chained
  <2> QED  BY <2>4, <1>1, <1>4 DEF Chains, Registered, Alive
<1>8. Joins
  BY <1>1, <1>a, <1>2, <1>4 DEF Joins
<1> QED  BY <1>3, <1>5, <1>6, <1>7, <1>8 DEF TableInv

\* A step that leaves the entries, and nobody's identifier, as they are.
LEMMA QuietStep ==
  ASSUME TableInv, UNCHANGED <<items, id, joining, parent, exitCode, joined>>,
         phase' \in [Procs -> Phases], child' \in [Procs -> Procs \cup {None}],
         \A p \in Procs :
           /\ Registered(p)' <=> Registered(p)
           /\ Done(p)' <=> Done(p)
           /\ Alive(p) => Alive(p)'
           /\ Alive(p)' => Alive(p) \/ phase[p] = "loading"
           /\ \A ph \in {"unborn", "stillborn", "waiting", "woken"} : phase'[p] = ph <=> phase[p] = ph
           /\ phase'[p] = "exec" =>
                phase[p] = "exec" /\ child'[p] = child[p] /\ phase'[child[p]] = phase[child[p]]
  PROVE  TableInv'
<1>0. TableTypes /\ Ancestry /\ Owned /\ Chains /\ Joins
  BY DEF TableInv
<1>1. TableTypes'
  BY <1>0 DEF TableTypes, Used
<1>2. \A p \in Procs : parent[p] \in Procs \cup {None}
  BY <1>0 DEF TableTypes
<1>3. \A p \in Procs : parent[p] # None => parent[p] \in Procs /\ (Alive(parent[p]) <=> Alive(parent[p])')
  <2> SUFFICES ASSUME NEW p \in Procs, parent[p] # None
               PROVE  parent[p] \in Procs /\ (Alive(parent[p]) <=> Alive(parent[p])')
    OBVIOUS
  <2>1. parent[p] \in Procs /\ (Alive(parent[p]) \/ Done(parent[p]))
    BY <1>0, <1>2 DEF Ancestry
  <2>2. phase[parent[p]] # "loading"
    BY <2>1 DEF Alive, Done
  <2> QED  BY <2>1, <2>2
<1>4. Ancestry'
  <2> SUFFICES ASSUME NEW p \in Procs
               PROVE  /\ parent[p] # p
                      /\ parent[p] # None => Alive(parent[p])' \/ Done(parent[p])'
                      /\ phase'[p] = "unborn" => parent[p] = None
                      /\ phase'[p] = "exec" =>
                           /\ child'[p] \in Procs /\ parent[child'[p]] = p
                           /\ phase'[child'[p]] \in {"loading", "stillborn"}
                      /\ joined[p] # None => Done(p)' /\ joined[p] = <<parent[p], exitCode[p]>>
                      /\ Done(p)' => exitCode[p] # None
    BY DEF Ancestry, Alive, Done
  <2>1. parent[p] # None => Alive(parent[p])' \/ Done(parent[p])'
    BY <1>0, <1>3 DEF Ancestry
  <2> QED  BY <1>0, <2>1 DEF Ancestry
<1>5. Owned'
  <2>1. \A i \in Used : items[i].owner \in Procs
    BY <1>0 DEF TableTypes, Entries
  <2>2. ASSUME NEW i \in Used PROVE EntrySound(i)'
    <3>1. EntrySound(i)
      BY <1>0 DEF Owned
    <3>2. items[i].owner \in Procs
      BY <2>1
    <3>3. /\ Done(items[i].owner) => Done(items[i].owner)'
          /\ phase[items[i].owner] = "stillborn" => phase'[items[i].owner] = "stillborn"
          /\ Registered(items[i].owner) => Registered(items[i].owner)'
      BY <3>2
    <3>4. parent[items[i].owner] # None =>
            (Alive(parent[items[i].owner]) <=> Alive(parent[items[i].owner])')
      BY <3>2, <1>3
    <3> QED  BY <3>1, <3>3, <3>4 DEF EntrySound, Registered, Alive, Done
  <2>3. \A p \in Procs : Registered(p)' =>
           id[p] \in Used /\ items[id[p]].owner = p /\ ~items[id[p]].hasExited
    BY <1>0 DEF Owned
  <2>4. \A p \in Procs : Done(p)' /\ parent[p] # None /\ ~Done(parent[p])' /\ joined[p] = None =>
          \E i \in Used : items[i].owner = p
    BY <1>0, <1>2 DEF Owned
  <2> QED  BY <2>2, <2>3, <2>4, <1>0 DEF Owned, Used
<1>6. Chains'
  <2>1. \A p \in Procs : Registered(p)' => Chained(id[p])
    BY <1>0 DEF Chains
  <2>2. ASSUME NEW i, Chained(i) PROVE Chained(i)'
    <3>1. Kids(i)' = Kids(i)
      BY DEF Kids, Used
    <3> QED  BY <2>2, <3>1, ChainStays
  <2>3. \A p \in Procs : Registered(p)' => Chained(id[p])'
    <3> SUFFICES ASSUME NEW p \in Procs, Registered(p)' PROVE Chained(id[p])'
      OBVIOUS
    <3>1. PICK i : i = id[p]
      OBVIOUS
    <3>2. Chained(i)' /\ i = id'[p]
      BY <2>1, <2>2, <3>1
    <3> QED  BY <3>2
  <2> QED  BY <2>3 DEF Chains
<1>7. Joins'
  <2>1. /\ \A p \in Procs : phase'[p] = "waiting" <=> phase[p] = "waiting"
        /\ \A p \in Procs : phase'[p] = "woken" <=> phase[p] = "woken"
    OBVIOUS
  <2>2. \A p \in Procs : JoinSound(p) => JoinSound(p)'
    BY <2>1 DEF JoinSound, Used
  <2>3. \A p \in Procs : phase'[p] \in {"waiting", "woken"} => JoinSound(p)'
    BY <1>0, <2>1, <2>2 DEF Joins
  <2>4. \A i \in Used : items[i].waitingRoom \subseteq Procs
    BY <1>0 DEF TableTypes, Entries
  <2>5. \A i \in Used : \A p \in items[i].waitingRoom : phase'[p] = "waiting" /\ joining[p].id = i
    BY <1>0, <2>1, <2>4 DEF Joins
  <2> QED  BY <2>3, <2>5 DEF Joins, Used
<1> QED  BY <1>1, <1>4, <1>5, <1>6, <1>7 DEF TableInv

\* Alive, Done and Registered in the next state.
AliveNext(p) == phase'[p] \in {"running", "exec", "waiting", "woken"}
DoneNext(p) == phase'[p] \in {"dying", "dead"}
RegisteredNext(p) == AliveNext(p) \/ phase'[p] = "loading"

\* The phases of the processes after a step.
LEMMA NextPhases ==
  /\ \A p \in Procs : Alive(p)' <=> AliveNext(p)
  /\ \A p \in Procs : Done(p)' <=> DoneNext(p)
  /\ \A p \in Procs : Registered(p)' <=> RegisteredNext(p)
BY DEF Alive, AliveNext, Done, DoneNext, Registered, RegisteredNext

\* The parts of the invariant in the next state.
LEMMA NextAncestry ==
  ASSUME \A p \in Procs :
           /\ parent'[p] # p
           /\ parent'[p] # None => AliveNext(parent'[p]) \/ DoneNext(parent'[p])
           /\ phase'[p] = "unborn" => parent'[p] = None
           /\ phase'[p] = "exec" =>
                /\ child'[p] \in Procs /\ parent'[child'[p]] = p
                /\ phase'[child'[p]] \in {"loading", "stillborn"}
           /\ joined'[p] # None => DoneNext(p) /\ joined'[p] = <<parent'[p], exitCode'[p]>>
           /\ DoneNext(p) => exitCode'[p] # None
  PROVE  Ancestry'
BY DEF Ancestry, Alive, AliveNext, Done, DoneNext

\* EntrySound in the next state.
SoundNext(i) ==
  LET q == items'[i].owner
  IN /\ IF items'[i].hasExited
        THEN DoneNext(q) /\ items'[i].exitStatus = exitCode'[q] /\ items'[i].parentId # NoId
        ELSE phase'[q] = "stillborn" \/ (RegisteredNext(q) /\ id'[q] = i)
     /\ joined'[q] = None
     /\ items'[i].parentId =
          IF parent'[q] # None /\ AliveNext(parent'[q]) THEN id'[parent'[q]] ELSE NoId

\* Entries after a step have one owner each, when each of them is sound and no two are of the same.
LEMMA NextOwned ==
  ASSUME \A i \in Used' : SoundNext(i),
         \A i, j \in Used' : items'[i].owner = items'[j].owner => i = j,
         \A p \in Procs : RegisteredNext(p) =>
           id'[p] \in Used' /\ items'[id'[p]].owner = p /\ ~items'[id'[p]].hasExited,
         \A p \in Procs :
           DoneNext(p) /\ parent'[p] # None /\ ~DoneNext(parent'[p]) /\ joined'[p] = None =>
             \E i \in Used' : items'[i].owner = p
  PROVE  Owned'
<1>1. \A i \in Used' : EntrySound(i)'
  BY DEF EntrySound, SoundNext, Registered, RegisteredNext, Alive, AliveNext, Done, DoneNext
<1>2. \A p \in Procs : Registered(p)' =>
        id'[p] \in Used' /\ items'[id'[p]].owner = p /\ ~items'[id'[p]].hasExited
  BY NextPhases
<1>3. \A p \in Procs :
        Done(p)' /\ parent'[p] # None /\ ~Done(parent[p])' /\ joined'[p] = None =>
          \E i \in Used' : items'[i].owner = p
  BY DEF Done, DoneNext
<1> QED  BY <1>1, <1>2, <1>3 DEF Owned

\* GetNewProcId.
LEMMA NewEntryInv ==
  ASSUME TableInv, NEW p \in Procs, NEW q \in Procs, GetNewProcId(p, q)
  PROVE  TableInv'
<1>0. TableTypes /\ Ancestry /\ Owned /\ Chains /\ Joins
  BY DEF TableInv
<1>1. PICK new \in Ids \ Used : new = NewId
  <2>1. Ids \ Used # {} /\ Ids \ Used \subseteq Nat
    BY <1>0, IdFacts DEF GetNewProcId, TableTypes
  <2> QED  BY <2>1, LowestFree DEF NewId
<1>2. PICK i : i = id[p]
  OBVIOUS
<1>3. /\ phase[p] = "running" /\ phase[q] = "unborn" /\ p # q
      /\ items' = [j \in Used \cup {new} |->
                     IF j = new THEN NewEntry(q, i, items[i].firstChildId)
                     ELSE IF j = i THEN [items[j] EXCEPT !.firstChildId = new]
                     ELSE items[j]]
      /\ id' = [id EXCEPT ![q] = new]
      /\ phase' = [phase EXCEPT ![p] = "exec", ![q] = "loading"]
      /\ child' = [child EXCEPT ![p] = q]
      /\ parent' = [parent EXCEPT ![q] = p]
      /\ UNCHANGED <<joining, exitCode, joined>>
  BY <1>1, <1>2 DEF GetNewProcId
<1>4. Alive(p) /\ Registered(p) /\ i \in Used /\ i \in Ids
  BY <1>0, <1>2, <1>3, IdsLead DEF Alive, Registered
<1>5. /\ \A x \in Procs : phase'[x] = IF x = p THEN "exec" ELSE IF x = q THEN "loading" ELSE phase[x]
      /\ \A x \in Procs : id'[x] = IF x = q THEN new ELSE id[x]
      /\ \A x \in Procs : parent'[x] = IF x = q THEN p ELSE parent[x]
      /\ \A x \in Procs : child'[x] = IF x = p THEN q ELSE child[x]
  BY <1>0, <1>3 DEF TableTypes
<1>6. /\ \A x \in Procs : DoneNext(x) <=> Done(x)
      /\ \A x \in Procs : AliveNext(x) <=> Alive(x)
      /\ \A x \in Procs : RegisteredNext(x) <=> Registered(x) \/ x = q
      /\ ~Registered(q) /\ ~Done(q) /\ ~Alive(q)
  <2>1. \A x \in Procs : phase'[x] = phase[x] \/ x = p \/ x = q
    BY <1>5
  <2>2. /\ phase'[p] = "exec" /\ phase'[q] = "loading"
        /\ phase[p] = "running" /\ phase[q] = "unborn"
    BY <1>3, <1>5
  <2> QED  BY <2>1, <2>2 DEF Done, Alive, Registered, DoneNext, AliveNext, RegisteredNext
<1>7. /\ Used' = Used \cup {new}
      /\ items'[new] = NewEntry(q, i, items[i].firstChildId)
      /\ \A j \in Used : items'[j] = IF j = i THEN [items[j] EXCEPT !.firstChildId = new] ELSE items[j]
  BY <1>1, <1>3 DEF Used
<1>8. /\ items'[new].hasExited = FALSE /\ items'[new].parentId = i
      /\ items'[new].firstChildId = NoId /\ items'[new].siblingId = items[i].firstChildId
      /\ items'[new].waitingRoom = {} /\ items'[new].owner = q
  BY <1>7 DEF NewEntry, NoId
<1>9. \A j \in Used :
        /\ items[j] \in Entries
        /\ items'[j].hasExited = items[j].hasExited /\ items'[j].exitStatus = items[j].exitStatus
        /\ items'[j].parentId = items[j].parentId /\ items'[j].siblingId = items[j].siblingId
        /\ items'[j].waitingRoom = items[j].waitingRoom /\ items'[j].owner = items[j].owner
        /\ items'[j].firstChildId = IF j = i THEN new ELSE items[j].firstChildId
  <2>1. \A j \in Used : items[j] \in Entries
    BY <1>0 DEF TableTypes
  <2> QED  BY <2>1, <1>7 DEF Entries
<1>10. TableTypes'
  <2>1. items'[new] \in Entries
    BY <1>0, <1>4, <1>7 DEF NewEntry, Entries, TableTypes, NoId
  <2>2. \A j \in Used : items'[j] \in Entries
    BY <1>1, <1>7, <1>9 DEF Entries
  <2>3. Used' \subseteq Ids /\ items' \in [Used' -> Entries]
    <3>1. items' = [j \in Used' |-> items'[j]]
      BY <1>3, <1>7
    <3>2. \A j \in Used' : items'[j] \in Entries
      BY <2>1, <2>2, <1>7
    <3>3. Used' \subseteq Ids
      BY <1>0, <1>1, <1>7 DEF TableTypes
    <3> QED  BY <3>1, <3>2, <3>3
  <2>4. phase' \in [Procs -> Phases]
    BY <1>0, <1>3 DEF TableTypes, Phases
  <2> QED  BY <2>3, <2>4, <1>0, <1>1, <1>3 DEF TableTypes
<1>11. \A x \in Procs : parent[x] # q /\ (parent[x] # None => parent[x] \in Procs)
  BY <1>0, <1>6, IdFacts DEF Ancestry, TableTypes
<1>12. Ancestry'
  <2> SUFFICES ASSUME NEW x \in Procs
               PROVE  /\ parent'[x] # x
                      /\ parent'[x] # None => AliveNext(parent'[x]) \/ DoneNext(parent'[x])
                      /\ phase'[x] = "unborn" => parent'[x] = None
                      /\ phase'[x] = "exec" =>
                           /\ child'[x] \in Procs /\ parent'[child'[x]] = x
                           /\ phase'[child'[x]] \in {"loading", "stillborn"}
                      /\ joined'[x] # None => DoneNext(x) /\ joined'[x] = <<parent'[x], exitCode'[x]>>
                      /\ DoneNext(x) => exitCode'[x] # None
    BY NextAncestry
  <2>1. CASE x = q
    <3>1. parent'[x] = p /\ joined[x] = None /\ ~DoneNext(x) /\ phase'[x] = "loading"
      BY <2>1, <1>0, <1>3, <1>5, <1>6 DEF Ancestry
    <3>2. AliveNext(p)
      BY <1>4, <1>6
    <3>3. AliveNext(parent'[x])
      BY <3>1, <3>2
    <3> QED  BY <2>1, <1>3, <3>1, <3>3
  <2>2. CASE x # q
    <3>1. parent'[x] = parent[x] /\ (DoneNext(x) <=> Done(x))
      BY <2>2, <1>5, <1>6
    <3>2. parent[x] # None => AliveNext(parent[x]) \/ DoneNext(parent[x])
      BY <1>0, <1>6, <1>11 DEF Ancestry
    <3>3. parent'[x] # None => AliveNext(parent'[x]) \/ DoneNext(parent'[x])
      BY <3>1, <3>2
    <3>4. phase'[x] = "exec" =>
            /\ child'[x] \in Procs /\ parent'[child'[x]] = x
            /\ phase'[child'[x]] \in {"loading", "stillborn"}
      <4>1. CASE x = p
        <5>1. child'[p] = q /\ parent'[q] = p /\ phase'[q] = "loading"
          BY <1>3, <1>5
        <5>2. child'[p] \in Procs /\ parent'[child'[p]] = p /\ phase'[child'[p]] = "loading"
          BY <5>1
        <5> QED  BY <4>1, <5>2
      <4>2. CASE x # p
        <5> SUFFICES ASSUME phase'[x] = "exec"
                     PROVE  /\ child'[x] \in Procs /\ parent'[child'[x]] = x
                            /\ phase'[child'[x]] \in {"loading", "stillborn"}
          OBVIOUS
        <5>1. /\ phase[x] = "exec" /\ child'[x] = child[x] /\ child[x] \in Procs
              /\ parent[child[x]] = x /\ phase[child[x]] \in {"loading", "stillborn"}
          BY <4>2, <2>2, <1>0, <1>5 DEF Ancestry
        <5>2. child[x] # p /\ child[x] # q
          BY <5>1, <1>3
        <5> QED  BY <5>1, <5>2, <1>5
      <4> QED  BY <4>1, <4>2
    <3>5. /\ parent[x] # x
          /\ phase[x] = "unborn" => parent[x] = None
          /\ joined[x] # None => Done(x) /\ joined[x] = <<parent[x], exitCode[x]>>
          /\ Done(x) => exitCode[x] # None
      BY <1>0 DEF Ancestry
    <3>6. phase'[x] = "unborn" => phase[x] = "unborn"
      BY <1>5
    <3>7. joined' = joined /\ exitCode' = exitCode
      BY <1>3
    <3> QED  BY <3>1, <3>3, <3>4, <3>5, <3>6, <3>7
  <2> QED  BY <2>1, <2>2
<1>13. \A j \in Used : items[j].owner \in Procs /\ items[j].owner # q
  <2> SUFFICES ASSUME NEW j \in Used PROVE items[j].owner \in Procs /\ items[j].owner # q
    OBVIOUS
  <2>1. items[j].owner \in Procs /\ EntrySound(j)
    BY <1>0, <1>9 DEF Entries, Owned
  <2>2. Done(items[j].owner) \/ phase[items[j].owner] = "stillborn" \/ Registered(items[j].owner)
    BY <2>1 DEF EntrySound
  <2> QED  BY <2>1, <2>2, <1>3, <1>6
<1>14. Owned'
  <2>1. ASSUME NEW j \in Used PROVE SoundNext(j)
    <3>1. PICK x \in Procs : x = items[j].owner /\ x # q
      BY <1>13
    <3>2. EntrySound(j)
      BY <1>0 DEF Owned
    <3>3. /\ IF items[j].hasExited
             THEN Done(x) /\ items[j].exitStatus = exitCode[x] /\ items[j].parentId # NoId
             ELSE phase[x] = "stillborn" \/ (Registered(x) /\ id[x] = j)
          /\ joined[x] = None
          /\ items[j].parentId = IF parent[x] # None /\ Alive(parent[x]) THEN id[parent[x]] ELSE NoId
      BY <3>1, <3>2 DEF EntrySound
    <3>4. /\ DoneNext(x) <=> Done(x)
          /\ RegisteredNext(x) <=> Registered(x)
          /\ phase[x] = "stillborn" => phase'[x] = "stillborn"
          /\ id'[x] = id[x] /\ parent'[x] = parent[x]
      BY <3>1, <1>3, <1>5, <1>6
    <3>5. parent[x] # None => (AliveNext(parent[x]) <=> Alive(parent[x])) /\ id'[parent[x]] = id[parent[x]]
      BY <1>5, <1>6, <1>11
    <3>6. items[j].parentId = IF parent'[x] # None /\ AliveNext(parent'[x]) THEN id'[parent'[x]] ELSE NoId
      <4>1. CASE parent[x] = None
        BY <4>1, <3>3, <3>4
      <4>2. CASE parent[x] # None
        BY <4>2, <3>3, <3>4, <3>5
      <4> QED  BY <4>1, <4>2
    <3> QED  BY <3>1, <3>3, <3>4, <3>6, <1>3, <1>9 DEF SoundNext
  <2>2. SoundNext(new)
    <3>1. parent'[q] = p /\ p # None /\ AliveNext(p) /\ id'[p] = i /\ joined'[q] = None
      BY <1>0, <1>2, <1>3, <1>4, <1>5, <1>6, IdFacts DEF Ancestry
    <3>2. RegisteredNext(q) /\ id'[q] = new
      BY <1>5, <1>6
    <3>3. AliveNext(parent'[q])
      BY <3>1
    <3> QED  BY <3>1, <3>2, <3>3, <1>8 DEF SoundNext
  <2>3. \A j, k \in Used' : items'[j].owner = items'[k].owner => j = k
    BY <1>0, <1>7, <1>8, <1>9, <1>13 DEF Owned
  <2>4. \A x \in Procs : RegisteredNext(x) =>
          id'[x] \in Used' /\ items'[id'[x]].owner = x /\ ~items'[id'[x]].hasExited
    BY <1>0, <1>5, <1>6, <1>7, <1>8, <1>9 DEF Owned
  <2>5. ASSUME NEW x \in Procs, DoneNext(x), parent'[x] # None, ~DoneNext(parent'[x]), joined'[x] = None
        PROVE  \E j \in Used' : items'[j].owner = x
    <3>1. Done(x) /\ x # q /\ parent'[x] = parent[x] /\ joined[x] = None
      BY <2>5, <1>3, <1>5, <1>6
    <3>2. ~Done(parent[x])
      BY <2>5, <3>1, <1>6, <1>11
    <3>3. PICK j \in Used : items[j].owner = x
      BY <2>5, <3>1, <3>2, <1>0 DEF Owned
    <3> QED  BY <3>3, <1>7, <1>9
  <2>6. \A j \in Used' : SoundNext(j)
    BY <2>1, <2>2, <1>7
  <2> QED  BY <2>3, <2>4, <2>5, <2>6, NextOwned
<1>15. /\ \A x \in Procs : Registered(x) /\ x # p => id[x] # i
       /\ \A x \in Procs : Registered(x) => id[x] \in Used /\ id[x] # new
  BY <1>0, <1>1, <1>2, <1>4, IdsLead
<1>16. \A j \in Used : items[j].parentId # new
  BY <1>0, <1>1, IdsLead, IdFacts
<1>17. /\ Kids(i)' = Kids(i) \cup {new}
       /\ \A k : k # i => Kids(k)' = Kids(k)
  BY <1>7, <1>8, <1>9 DEF Kids
<1>18. Chains'
  <2>1. Chained(i)'
    <3>1. Chained(i)
      BY <1>0, <1>2, <1>4 DEF Chains
    <3>2. new \notin Kids(i) /\ \A c \in Kids(i) : items'[c].siblingId = items[c].siblingId
      BY <1>1, <1>9 DEF Kids
    <3>3. items'[i].firstChildId = new /\ items'[new].siblingId = items[i].firstChildId
      BY <1>4, <1>8, <1>9
    <3>4. new \in Ids
      BY <1>1
    <3>5. Kids(i)' = Kids(i) \cup {new}
      BY <1>17
    <3> QED  BY <3>1, <3>2, <3>3, <3>4, <3>5, ChainGrows
  <2>2. Chained(new)'
    <3>1. Kids(new)' = {} /\ items'[new].firstChildId = NoId
      BY <1>4, <1>8, <1>1, <1>16, <1>17 DEF Kids
    <3>2. PICK f \in [1 .. 0 -> Ids] : TRUE
      <4>1. [k \in 1 .. 0 |-> new] \in [1 .. 0 -> Ids]
        OBVIOUS
      <4> QED  BY <4>1
    <3>3. Chain(new, 0, f)'
      BY <3>1 DEF Chain
    <3> QED  BY <3>3 DEF Chained
  <2>3. ASSUME NEW x \in Procs, RegisteredNext(x), NEW k, k = id'[x]
        PROVE  Chained(k)'
    <3>1. CASE x = q
      BY <2>2, <2>3, <3>1, <1>5
    <3>2. CASE x = p
      BY <2>1, <2>3, <3>2, <1>2, <1>3, <1>5
    <3>3. CASE x # p /\ x # q
      <4>1. Registered(x) /\ k = id[x] /\ k \in Used /\ k # i
        BY <2>3, <3>3, <1>5, <1>6, <1>15
      <4>2. Chained(k)
        BY <4>1, <1>0 DEF Chains
      <4>3. items'[k].firstChildId = items[k].firstChildId
        BY <4>1, <1>9
      <4>4. \A c \in Kids(k) : items'[c].siblingId = items[c].siblingId
        BY <1>9 DEF Kids
      <4>5. Kids(k)' = Kids(k)
        BY <4>1, <1>17
      <4> QED  BY <4>2, <4>3, <4>4, <4>5, ChainStays
    <3> QED  BY <3>1, <3>2, <3>3
  <2> QED  BY <2>3, NextPhases DEF Chains
<1>19. Joins'
  <2>1. ASSUME NEW x \in Procs, phase'[x] \in {"waiting", "woken"}
        PROVE  JoinSound(x)'
    <3>1. x # p /\ x # q /\ phase'[x] = phase[x] /\ id'[x] = id[x] /\ joining'[x] = joining[x]
      <4>1. phase'[p] = "exec" /\ phase'[q] = "loading"
        BY <1>3, <1>5
      <4>2. x # p /\ x # q
        BY <4>1, <2>1
      <4> QED  BY <4>2, <1>3, <1>5
    <3>2. JoinSound(x) /\ Registered(x)
      BY <2>1, <3>1, <1>0 DEF Joins, Registered, Alive
    <3>3. id[x] \in Used /\ id[x] # i
      BY <3>1, <3>2, <1>15
    <3> QED  BY <3>1, <3>2, <3>3, <1>7, <1>9 DEF JoinSound
  <2>2. ASSUME NEW j \in Used', NEW x \in items'[j].waitingRoom
        PROVE  phase'[x] = "waiting" /\ joining'[x].id = j
    <3>1. j \in Used /\ x \in items[j].waitingRoom
      BY <2>2, <1>7, <1>8, <1>9
    <3>2. phase[x] = "waiting" /\ joining[x].id = j /\ x \in Procs
      BY <3>1, <1>0, <1>9 DEF Joins, Entries
    <3> QED  BY <3>2, <1>3, <1>5
  <2> QED  BY <2>1, <2>2 DEF Joins
<1> QED  BY <1>10, <1>12, <1>14, <1>18, <1>19 DEF TableInv

\* LoadFails.
LEMMA StillbornInv ==
  ASSUME TableInv, NEW p \in Procs, LoadFails(p)
  PROVE  TableInv'
<1>0. TableTypes /\ Ancestry /\ Owned /\ Chains /\ Joins
  BY DEF TableInv
<1>1. PICK q \in Procs : q = child[p] /\ phase[q] = "loading" /\ parent[q] = p
  BY <1>0 DEF LoadFails, Loading, Ancestry
<1>2. /\ phase[p] = "exec" /\ p # q
      /\ phase' = [phase EXCEPT ![q] = "stillborn"] /\ id' = [id EXCEPT ![q] = -1]
      /\ UNCHANGED <<items, child, joining, parent, exitCode, joined>>
  BY <1>1 DEF LoadFails, Loading, Goes, history
<1>3. /\ \A x \in Procs : phase'[x] = IF x = q THEN "stillborn" ELSE phase[x]
      /\ \A x \in Procs : id'[x] = IF x = q THEN -1 ELSE id[x]
      /\ Used' = Used
  BY <1>0, <1>2 DEF TableTypes, Used
<1>4. /\ \A x \in Procs : DoneNext(x) <=> Done(x)
      /\ \A x \in Procs : AliveNext(x) <=> Alive(x)
      /\ \A x \in Procs : RegisteredNext(x) <=> Registered(x) /\ x # q
      /\ Registered(q) /\ ~Done(q) /\ ~Alive(q)
  <2>1. /\ \A x \in Procs : phase'[x] = phase[x] \/ x = q
        /\ phase'[q] = "stillborn" /\ phase[q] = "loading"
    BY <1>1, <1>3
  <2> QED  BY <2>1 DEF Done, Alive, Registered, DoneNext, AliveNext, RegisteredNext
<1>5. TableTypes'
  BY <1>0, <1>2, <1>3 DEF TableTypes, Phases, NoId
<1>6. \A x \in Procs : parent[x] # q /\ (parent[x] # None => parent[x] \in Procs)
  BY <1>0, <1>4, IdFacts DEF Ancestry, TableTypes
<1>7. Ancestry'
  <2> SUFFICES ASSUME NEW x \in Procs
               PROVE  /\ parent'[x] # x
                      /\ parent'[x] # None => AliveNext(parent'[x]) \/ DoneNext(parent'[x])
                      /\ phase'[x] = "unborn" => parent'[x] = None
                      /\ phase'[x] = "exec" =>
                           /\ child'[x] \in Procs /\ parent'[child'[x]] = x
                           /\ phase'[child'[x]] \in {"loading", "stillborn"}
                      /\ joined'[x] # None => DoneNext(x) /\ joined'[x] = <<parent'[x], exitCode'[x]>>
                      /\ DoneNext(x) => exitCode'[x] # None
    BY NextAncestry
  <2>1. parent[x] # None => AliveNext(parent[x]) \/ DoneNext(parent[x])
    BY <1>0, <1>4, <1>6 DEF Ancestry
  <2>2. phase'[x] = "exec" => phase[x] = "exec"
    BY <1>3
  <2>3. phase'[x] = "unborn" => phase[x] = "unborn"
    BY <1>3
  <2>4. phase[x] = "exec" =>
           /\ child[x] \in Procs /\ parent[child[x]] = x
           /\ phase'[child[x]] \in {"loading", "stillborn"}
    BY <1>0, <1>3 DEF Ancestry
  <2>5. /\ parent[x] # x
        /\ phase[x] = "unborn" => parent[x] = None
        /\ joined[x] # None => Done(x) /\ joined[x] = <<parent[x], exitCode[x]>>
        /\ Done(x) => exitCode[x] # None
    BY <1>0 DEF Ancestry
  <2> QED  BY <1>2, <1>4, <2>1, <2>2, <2>3, <2>4, <2>5
<1>8. Owned'
  <2>1. ASSUME NEW j \in Used PROVE SoundNext(j)
    <3>1. PICK x \in Procs : x = items[j].owner
      BY <1>0 DEF TableTypes, Entries
    <3>2. /\ IF items[j].hasExited
             THEN Done(x) /\ items[j].exitStatus = exitCode[x] /\ items[j].parentId # NoId
             ELSE phase[x] = "stillborn" \/ (Registered(x) /\ id[x] = j)
          /\ joined[x] = None
          /\ items[j].parentId = IF parent[x] # None /\ Alive(parent[x]) THEN id[parent[x]] ELSE NoId
      BY <3>1, <1>0 DEF Owned, EntrySound
    <3>3. phase'[x] = "stillborn" \/ (phase[x] # "stillborn" /\ x # q /\ id'[x] = id[x])
      BY <1>3
    <3>4. parent[x] # None => (AliveNext(parent[x]) <=> Alive(parent[x])) /\ id'[parent[x]] = id[parent[x]]
      BY <1>3, <1>4, <1>6
    <3>5. items[j].parentId = IF parent[x] # None /\ AliveNext(parent[x]) THEN id'[parent[x]] ELSE NoId
      <4>1. CASE parent[x] = None
        BY <4>1, <3>2
      <4>2. CASE parent[x] # None
        BY <4>2, <3>2, <3>4
      <4> QED  BY <4>1, <4>2
    <3> QED  BY <3>1, <3>2, <3>3, <3>5, <1>2, <1>4 DEF SoundNext
  <2>2. \A j, k \in Used' : items'[j].owner = items'[k].owner => j = k
    BY <1>0, <1>2, <1>3 DEF Owned
  <2>3. \A x \in Procs : RegisteredNext(x) =>
          id'[x] \in Used' /\ items'[id'[x]].owner = x /\ ~items'[id'[x]].hasExited
    BY <1>0, <1>2, <1>3, <1>4 DEF Owned
  <2>4. ASSUME NEW x \in Procs, DoneNext(x), parent'[x] # None, ~DoneNext(parent'[x]), joined'[x] = None
        PROVE  \E j \in Used' : items'[j].owner = x
    <3>1. Done(x) /\ parent[x] # None /\ ~Done(parent[x]) /\ joined[x] = None
      BY <2>4, <1>2, <1>4, <1>6
    <3> QED  BY <3>1, <1>0, <1>2, <1>3 DEF Owned
  <2>5. \A j \in Used' : SoundNext(j)
    BY <2>1, <1>3
  <2> QED  BY <2>2, <2>3, <2>4, <2>5, NextOwned
<1>9. Chains'
  <2>1. ASSUME NEW x \in Procs, RegisteredNext(x), NEW k, k = id'[x]
        PROVE  Chained(k)'
    <3>1. Chained(k)
      BY <2>1, <1>0, <1>3, <1>4 DEF Chains
    <3>2. Kids(k)' = Kids(k)
      BY <1>2, <1>3 DEF Kids
    <3> QED  BY <3>1, <3>2, <1>2, ChainStays
  <2> QED  BY <2>1, NextPhases DEF Chains
<1>10. Joins'
  <2>1. \A x \in Procs : phase[x] \in {"waiting", "woken"} =>
          phase'[x] = phase[x] /\ id'[x] = id[x]
    BY <1>1, <1>3
  <2>2. \A x \in Procs : phase'[x] \in {"waiting", "woken"} => phase[x] \in {"waiting", "woken"}
    BY <1>3
  <2>3. ASSUME NEW x \in Procs, phase'[x] \in {"waiting", "woken"}
        PROVE  JoinSound(x)'
    <3>1. JoinSound(x) /\ phase'[x] = phase[x] /\ id'[x] = id[x]
      BY <2>1, <2>2, <2>3, <1>0 DEF Joins
    <3> QED  BY <3>1, <1>2, <1>3 DEF JoinSound
  <2>4. \A j \in Used : items[j].waitingRoom \subseteq Procs
    BY <1>0 DEF TableTypes, Entries
  <2>5. \A j \in Used : \A x \in items[j].waitingRoom : phase'[x] = "waiting" /\ joining[x].id = j
    BY <1>0, <2>1, <2>4 DEF Joins
  <2> QED  BY <2>3, <2>5, <1>2, <1>3 DEF Joins
<1> QED  BY <1>5, <1>7, <1>8, <1>9, <1>10 DEF TableInv

\* JoinWaits.
LEMMA WaitingInv ==
  ASSUME TableInv, NEW p \in Procs, NEW c \in Ids, JoinWaits(p, c)
  PROVE  TableInv'
<1>0. TableTypes /\ Ancestry /\ Owned /\ Chains /\ Joins
  BY DEF TableInv
<1>1. PICK i : i = id[p]
  OBVIOUS
<1>2. PICK prev : prev = Previous(i, c)
  OBVIOUS
<1>3. /\ phase[p] = "running" /\ c \in Children(i) /\ ~items[c].hasExited
      /\ items' = [items EXCEPT ![c].waitingRoom = @ \cup {p}]
      /\ joining' = [joining EXCEPT ![p] = [id |-> c, prev |-> prev]]
      /\ phase' = [phase EXCEPT ![p] = "waiting"]
      /\ UNCHANGED <<id, child, parent, exitCode, joined>>
  BY <1>1, <1>2 DEF JoinWaits, Goes, history
<1>4. Registered(p) /\ Chained(i)
  BY <1>0, <1>1, <1>3 DEF Registered, Alive, Chains
<1>5. /\ c \in Kids(i) /\ c \in Used /\ items[c].parentId = i
      /\ prev = NoId => items[i].firstChildId = c
      /\ prev # NoId => prev \in Kids(i) /\ items[prev].siblingId = c
  BY <1>0, <1>2, <1>3, <1>4, ListFacts DEF Kids
<1>6. /\ Used' = Used /\ \A j \in Used : items[j] \in Entries
      /\ \A j \in Used :
           /\ items'[j].hasExited = items[j].hasExited /\ items'[j].exitStatus = items[j].exitStatus
           /\ items'[j].parentId = items[j].parentId /\ items'[j].siblingId = items[j].siblingId
           /\ items'[j].firstChildId = items[j].firstChildId /\ items'[j].owner = items[j].owner
           /\ items'[j].waitingRoom = IF j = c THEN items[c].waitingRoom \cup {p}
                                      ELSE items[j].waitingRoom
  <2>1. \A j \in Used : items[j] \in Entries
    BY <1>0 DEF TableTypes
  <2>2. \A j \in Used : items'[j] = IF j = c
                                    THEN [items[c] EXCEPT !.waitingRoom = @ \cup {p}] ELSE items[j]
    BY <1>0, <1>3 DEF TableTypes
  <2>3. Used' = Used
    BY <1>3 DEF Used
  <2> QED  BY <2>1, <2>2, <2>3 DEF Entries
<1>7. /\ \A x \in Procs : phase'[x] = IF x = p THEN "waiting" ELSE phase[x]
      /\ \A x \in Procs : joining'[x] = IF x = p THEN [id |-> c, prev |-> prev] ELSE joining[x]
  BY <1>0, <1>3 DEF TableTypes
<1>8. /\ \A x \in Procs : DoneNext(x) <=> Done(x)
      /\ \A x \in Procs : AliveNext(x) <=> Alive(x)
      /\ \A x \in Procs : RegisteredNext(x) <=> Registered(x)
  <2>1. /\ \A x \in Procs : phase'[x] = phase[x] \/ x = p
        /\ phase'[p] = "waiting" /\ phase[p] = "running"
    BY <1>3, <1>7
  <2> QED  BY <2>1 DEF Done, Alive, Registered, DoneNext, AliveNext, RegisteredNext
<1>9. TableTypes'
  <2>1. [items[c] EXCEPT !.waitingRoom = @ \cup {p}] \in Entries
    BY <1>5, <1>6 DEF Entries
  <2>2. items' \in [Used -> Entries]
    BY <2>1, <1>0, <1>3 DEF TableTypes
  <2>3. phase' \in [Procs -> Phases]
    BY <1>0, <1>3 DEF TableTypes, Phases
  <2> QED  BY <2>2, <2>3, <1>0, <1>3, <1>6 DEF TableTypes
<1>10. Ancestry'
  <2> SUFFICES ASSUME NEW x \in Procs
               PROVE  /\ parent'[x] # x
                      /\ parent'[x] # None => AliveNext(parent'[x]) \/ DoneNext(parent'[x])
                      /\ phase'[x] = "unborn" => parent'[x] = None
                      /\ phase'[x] = "exec" =>
                           /\ child'[x] \in Procs /\ parent'[child'[x]] = x
                           /\ phase'[child'[x]] \in {"loading", "stillborn"}
                      /\ joined'[x] # None => DoneNext(x) /\ joined'[x] = <<parent'[x], exitCode'[x]>>
                      /\ DoneNext(x) => exitCode'[x] # None
    BY NextAncestry
  <2>1. parent[x] # None => AliveNext(parent[x]) \/ DoneNext(parent[x])
    BY <1>0, <1>8, IdFacts DEF Ancestry, TableTypes
  <2>2. /\ phase'[x] = "exec" => phase[x] = "exec"
        /\ phase'[x] = "unborn" => phase[x] = "unborn"
    BY <1>7
  <2>3. phase[x] = "exec" =>
           /\ child[x] \in Procs /\ parent[child[x]] = x
           /\ phase'[child[x]] \in {"loading", "stillborn"}
    BY <1>0, <1>3, <1>7 DEF Ancestry
  <2>4. /\ parent[x] # x
        /\ phase[x] = "unborn" => parent[x] = None
        /\ joined[x] # None => Done(x) /\ joined[x] = <<parent[x], exitCode[x]>>
        /\ Done(x) => exitCode[x] # None
    BY <1>0 DEF Ancestry
  <2> QED  BY <1>3, <1>8, <2>1, <2>2, <2>3, <2>4
<1>11. Owned'
  <2>1. ASSUME NEW j \in Used PROVE SoundNext(j)
    <3>1. PICK x \in Procs : x = items[j].owner
      BY <1>6 DEF Entries
    <3>2. EntrySound(j)
      BY <1>0 DEF Owned
    <3>3. phase[x] = "stillborn" => phase'[x] = "stillborn"
      BY <1>3, <1>7
    <3>4. parent[x] # None => (AliveNext(parent[x]) <=> Alive(parent[x]))
      BY <1>0, <1>8, IdFacts DEF TableTypes
    <3> QED  BY <3>1, <3>2, <3>3, <3>4, <1>3, <1>6, <1>8 DEF SoundNext, EntrySound
  <2>2. \A j, k \in Used' : items'[j].owner = items'[k].owner => j = k
    BY <1>0, <1>6 DEF Owned
  <2>3. \A x \in Procs : RegisteredNext(x) =>
          id'[x] \in Used' /\ items'[id'[x]].owner = x /\ ~items'[id'[x]].hasExited
    BY <1>0, <1>3, <1>6, <1>8 DEF Owned
  <2>4. ASSUME NEW x \in Procs, DoneNext(x), parent'[x] # None, ~DoneNext(parent'[x]), joined'[x] = None
        PROVE  \E j \in Used' : items'[j].owner = x
    <3>1. Done(x) /\ parent[x] # None /\ ~Done(parent[x]) /\ joined[x] = None
      BY <2>4, <1>0, <1>3, <1>8, IdFacts DEF TableTypes
    <3> QED  BY <3>1, <1>0, <1>6 DEF Owned
  <2>5. \A j \in Used' : SoundNext(j)
    BY <2>1, <1>6
  <2> QED  BY <2>2, <2>3, <2>4, <2>5, NextOwned
<1>12. Chains'
  <2>1. ASSUME NEW x \in Procs, RegisteredNext(x), NEW k, k = id'[x]
        PROVE  Chained(k)'
    <3>1. Chained(k) /\ k \in Used
      BY <2>1, <1>0, <1>3, <1>8 DEF Chains, Owned
    <3>2. Kids(k)' = Kids(k)
      BY <1>6 DEF Kids
    <3>3. /\ items'[k].firstChildId = items[k].firstChildId
          /\ \A b \in Kids(k) : items'[b].siblingId = items[b].siblingId
      BY <3>1, <1>6 DEF Kids
    <3> QED  BY <3>1, <3>2, <3>3, ChainStays
  <2> QED  BY <2>1, NextPhases DEF Chains
<1>13. Joins'
  <2>1. i \in Used /\ i \in Ids
    BY <1>0, <1>1, <1>4 DEF Owned, TableTypes
  <2>2. JoinSound(p)'
    <3>1. /\ joining'[p].id = c /\ joining'[p].prev = prev
          /\ joining'[p] \in [id : Ids, prev : Ids \cup {NoId}]
      BY <1>0, <1>5, <1>7 DEF Kids, TableTypes
    <3>2. /\ phase'[p] = "waiting" /\ id'[p] = i
          /\ p \in items'[c].waitingRoom /\ ~items'[c].hasExited
          /\ c \in Used' /\ items'[c].parentId = i
      BY <1>1, <1>3, <1>5, <1>6, <1>7
    <3>3. IF prev = NoId THEN items'[i].firstChildId = c
          ELSE prev \in Used' /\ items'[prev].parentId = i /\ items'[prev].siblingId = c
      BY <2>1, <1>5, <1>6 DEF Kids
    <3> QED  BY <3>1, <3>2, <3>3 DEF JoinSound
  <2>3. ASSUME NEW x \in Procs, phase'[x] \in {"waiting", "woken"}, x # p
        PROVE  JoinSound(x)'
    <3>1. phase'[x] = phase[x] /\ joining'[x] = joining[x] /\ id'[x] = id[x]
      BY <2>3, <1>3, <1>7
    <3>2. JoinSound(x) /\ Registered(x)
      BY <2>3, <3>1, <1>0 DEF Joins, Registered, Alive
    <3>3. id[x] \in Used
      BY <3>2, <1>0 DEF Owned
    <3> QED  BY <3>1, <3>2, <3>3, <1>6 DEF JoinSound
  <2>4. ASSUME NEW j \in Used, NEW x \in items'[j].waitingRoom
        PROVE  phase'[x] = "waiting" /\ joining'[x].id = j
    <3>1. CASE x = p /\ j = c
      BY <3>1, <1>7
    <3>2. CASE x \in items[j].waitingRoom
      <4>1. phase[x] = "waiting" /\ joining[x].id = j /\ x \in Procs
        BY <3>2, <1>0, <1>6 DEF Joins, Entries
      <4> QED  BY <4>1, <1>3, <1>7
    <3> QED  BY <2>4, <3>1, <3>2, <1>6
  <2> QED  BY <2>2, <2>3, <2>4, <1>6 DEF Joins
<1> QED  BY <1>9, <1>10, <1>11, <1>12, <1>13 DEF TableInv

\* The end of GetProcStatus: Unlink, for a child that has exited.
LEMMA UnlinkInv ==
  ASSUME TableInv, NEW p \in Procs, phase[p] \in {"running", "woken"},
         NEW c \in Used, items[c].parentId = id[p], items[c].hasExited,
         NEW prev \in Used \cup {NoId},
         IF prev = NoId THEN items[id[p]].firstChildId = c
         ELSE items[prev].parentId = id[p] /\ items[prev].siblingId = c,
         Unlink(p, c, prev), UNCHANGED <<id, child>>,
         phase' = [phase EXCEPT ![p] = "running"],
         DOMAIN joining' = Procs, \A x \in Procs \ {p} : joining'[x] = joining[x]
  PROVE  TableInv'
<1>0. TableTypes /\ Ancestry /\ Owned /\ Chains /\ Joins
  BY DEF TableInv
<1>1. PICK i : i = id[p]
  OBVIOUS
<1>2. Registered(p) /\ Alive(p) /\ i \in Used /\ i \in Ids /\ Chained(i)
  BY <1>0, <1>1, IdsLead DEF Registered, Alive, Chains
<1>3. c \in Kids(i) /\ c \in Ids /\ items[i].parentId # i /\ c # i
  BY <1>0, <1>1, <1>2, IdsLead DEF Kids, TableTypes
<1>4. PICK o \in Procs : o = items[c].owner
  BY <1>0 DEF TableTypes, Entries
<1>5. /\ Done(o) /\ items[c].exitStatus = exitCode[o] /\ joined[o] = None
      /\ parent[o] = p /\ exitCode[o] # None
  <2>1. EntrySound(c)
    BY <1>0 DEF Owned
  <2>2. Done(o) /\ items[c].exitStatus = exitCode[o] /\ items[c].parentId # NoId /\ joined[o] = None
    BY <2>1, <1>4 DEF EntrySound
  <2>3. parent[o] \in Procs /\ Registered(parent[o]) /\ id[p] = id[parent[o]]
    BY <2>2, <1>0, <1>4, IdsLead
  <2>4. parent[o] = p
    BY <2>3, <1>0, <1>2, IdsLead
  <2> QED  BY <2>2, <2>4, <1>0 DEF Ancestry
<1>6. prev # NoId => prev \in Kids(i) /\ prev # i /\ prev # c
  <2> SUFFICES ASSUME prev # NoId PROVE prev \in Kids(i) /\ prev # i /\ prev # c
    OBVIOUS
  <2>1. prev \in Kids(i) /\ items[prev].siblingId = c /\ prev # i
    BY <1>1, <1>3 DEF Kids
  <2>2. PICK n \in Nat : \E f \in [1 .. n -> Ids] : Chain(i, n, f)
    BY <1>2 DEF Chained
  <2>3. PICK f \in [1 .. n -> Ids] : Chain(i, n, f)
    BY <2>2
  <2>4. prev # c
    BY <2>1, <2>3, <1>0, <1>3, ChainLinks
  <2> QED  BY <2>1, <2>4
<1>7. /\ Used' = Used \ {c}
      /\ \A j \in Used \ {c} :
           items'[j] = IF prev = NoId /\ j = i
                         THEN [items[j] EXCEPT !.firstChildId = items[c].siblingId]
                       ELSE IF j = prev
                         THEN [items[j] EXCEPT !.siblingId = items[c].siblingId]
                       ELSE items[j]
      /\ items' = [j \in Used' |-> items'[j]]
  BY <1>1 DEF Unlink, Used, NoId
<1>8. /\ \A j \in Used : items[j] \in Entries
      /\ \A j \in Used \ {c} :
           /\ items'[j].hasExited = items[j].hasExited /\ items'[j].exitStatus = items[j].exitStatus
           /\ items'[j].parentId = items[j].parentId /\ items'[j].owner = items[j].owner
           /\ items'[j].waitingRoom = items[j].waitingRoom
           /\ items'[j].firstChildId = IF prev = NoId /\ j = i THEN items[c].siblingId
                                       ELSE items[j].firstChildId
           /\ items'[j].siblingId = IF j = prev THEN items[c].siblingId ELSE items[j].siblingId
  <2>1. \A j \in Used : items[j] \in Entries
    BY <1>0 DEF TableTypes
  <2>2. i # NoId
    BY <1>2, IdFacts
  <2> QED  BY <2>1, <2>2, <1>6, <1>7 DEF Entries
<1>9. /\ joined' = [joined EXCEPT ![o] = <<p, exitCode[o]>>]
      /\ UNCHANGED <<parent, exitCode>>
  BY <1>4, <1>5 DEF Unlink
<1>10. /\ \A x \in Procs : phase'[x] = IF x = p THEN "running" ELSE phase[x]
       /\ \A x \in Procs : joined'[x] = IF x = o THEN <<p, exitCode[o]>> ELSE joined[x]
       /\ joined'[o] # None
  <2>1. <<p, exitCode[o]>> # None
    <3>1. exitCode[o] \in UNION {ExitStatuses(x) : x \in Procs}
      BY <1>0, <1>5 DEF TableTypes, Statuses
    <3>2. <<p, exitCode[o]>> \in Procs \X UNION {ExitStatuses(x) : x \in Procs}
      BY <3>1
    <3> QED  BY <3>2, ProcAssumption
  <2> QED  BY <2>1, <1>0, <1>9 DEF TableTypes
<1>11. /\ \A x \in Procs : DoneNext(x) <=> Done(x)
       /\ \A x \in Procs : AliveNext(x) <=> Alive(x)
       /\ \A x \in Procs : RegisteredNext(x) <=> Registered(x)
  <2>1. /\ \A x \in Procs : phase'[x] = phase[x] \/ x = p
        /\ phase'[p] = "running" /\ phase[p] \in {"running", "woken"}
    BY <1>10
  <2> QED  BY <2>1 DEF Done, Alive, Registered, DoneNext, AliveNext, RegisteredNext
<1>12. \A x \in Procs : parent[x] # None => parent[x] \in Procs
  BY <1>0 DEF TableTypes
<1>13. TableTypes'
  <2>1. \A j \in Used \ {c} : items'[j] \in Entries
    BY <1>7, <1>8 DEF Entries
  <2>2. items' \in [Used' -> Entries]
    BY <2>1, <1>7
  <2>3. phase' \in [Procs -> Phases]
    BY <1>0 DEF TableTypes, Phases
  <2>4. DOMAIN joined' = Procs
    BY <1>0, <1>9 DEF TableTypes
  <2> QED  BY <2>2, <2>3, <2>4, <1>0, <1>7, <1>9 DEF TableTypes
<1>14. Ancestry'
  <2> SUFFICES ASSUME NEW x \in Procs
               PROVE  /\ parent'[x] # x
                      /\ parent'[x] # None => AliveNext(parent'[x]) \/ DoneNext(parent'[x])
                      /\ phase'[x] = "unborn" => parent'[x] = None
                      /\ phase'[x] = "exec" =>
                           /\ child'[x] \in Procs /\ parent'[child'[x]] = x
                           /\ phase'[child'[x]] \in {"loading", "stillborn"}
                      /\ joined'[x] # None => DoneNext(x) /\ joined'[x] = <<parent'[x], exitCode'[x]>>
                      /\ DoneNext(x) => exitCode'[x] # None
    BY NextAncestry
  <2>1. parent[x] # None => AliveNext(parent[x]) \/ DoneNext(parent[x])
    BY <1>0, <1>11, <1>12 DEF Ancestry
  <2>2. /\ phase'[x] = "exec" => phase[x] = "exec"
        /\ phase'[x] = "unborn" => phase[x] = "unborn"
    BY <1>10
  <2>3. phase[x] = "exec" =>
           /\ child[x] \in Procs /\ parent[child[x]] = x
           /\ phase'[child[x]] \in {"loading", "stillborn"}
    BY <1>0, <1>10 DEF Ancestry
  <2>4. /\ parent[x] # x
        /\ phase[x] = "unborn" => parent[x] = None
        /\ joined[x] # None => Done(x) /\ joined[x] = <<parent[x], exitCode[x]>>
        /\ Done(x) => exitCode[x] # None
    BY <1>0 DEF Ancestry
  <2>5. joined'[x] # None => DoneNext(x) /\ joined'[x] = <<parent[x], exitCode[x]>>
    BY <2>4, <1>5, <1>10, <1>11
  <2> QED  BY <1>9, <1>11, <2>1, <2>2, <2>3, <2>4, <2>5
<1>15. Owned'
  <2>1. ASSUME NEW j \in Used \ {c} PROVE SoundNext(j)
    <3>1. PICK x \in Procs : x = items[j].owner
      BY <1>8 DEF Entries
    <3>2. EntrySound(j) /\ x # o
      BY <3>1, <1>0, <1>4 DEF Owned
    <3>3. phase[x] = "stillborn" => phase'[x] = "stillborn"
      BY <1>10
    <3>4. parent[x] # None => (AliveNext(parent[x]) <=> Alive(parent[x]))
      BY <1>11, <1>12
    <3>5. joined'[x] = joined[x]
      BY <3>2, <1>10
    <3> QED  BY <3>1, <3>2, <3>3, <3>4, <3>5, <1>8, <1>9, <1>11 DEF SoundNext, EntrySound
  <2>2. \A j, k \in Used' : items'[j].owner = items'[k].owner => j = k
    BY <1>0, <1>7, <1>8 DEF Owned
  <2>3. \A x \in Procs : RegisteredNext(x) =>
          id'[x] \in Used' /\ items'[id'[x]].owner = x /\ ~items'[id'[x]].hasExited
    <3>1. \A x \in Procs : Registered(x) => id[x] \in Used \ {c} /\ items[id[x]].owner = x
                                            /\ ~items[id[x]].hasExited
      BY <1>0 DEF Owned
    <3> QED  BY <3>1, <1>7, <1>8, <1>11
  <2>4. ASSUME NEW x \in Procs, DoneNext(x), parent'[x] # None, ~DoneNext(parent'[x]), joined'[x] = None
        PROVE  \E j \in Used' : items'[j].owner = x
    <3>1. Done(x) /\ parent[x] # None /\ ~Done(parent[x]) /\ x # o /\ joined[x] = None
      BY <2>4, <1>9, <1>10, <1>11, <1>12
    <3>2. PICK j \in Used : items[j].owner = x
      BY <3>1, <1>0 DEF Owned
    <3>3. j # c
      BY <3>1, <3>2, <1>4
    <3> QED  BY <3>2, <3>3, <1>7, <1>8
  <2>5. \A j \in Used' : SoundNext(j)
    BY <2>1, <1>7
  <2> QED  BY <2>2, <2>3, <2>4, <2>5, NextOwned
<1>16. /\ Kids(i)' = Kids(i) \ {c}
       /\ \A k : k # i => Kids(k)' = Kids(k)
  <2>1. items[c].parentId = i
    BY <1>1
  <2> QED  BY <2>1, <1>7, <1>8 DEF Kids
<1>17. Chains'
  <2>1. Chained(i)'
    <3>1. c # NoId
      BY <1>3, IdFacts
    <3>2. IF prev = NoId THEN items[i].firstChildId = c
          ELSE prev \in Kids(i) /\ items[prev].siblingId = c
      BY <1>1, <1>6
    <3>3. items'[i].firstChildId = IF prev = NoId THEN items[c].siblingId ELSE items[i].firstChildId
      BY <1>2, <1>3, <1>8
    <3>4. \A b \in Kids(i) \ {c} :
            items'[b].siblingId = IF b = prev THEN items[c].siblingId ELSE items[b].siblingId
      BY <1>8 DEF Kids
    <3>5. Kids(i)' = Kids(i) \ {c}
      BY <1>16
    <3> QED  BY <3>1, <3>2, <3>3, <3>4, <3>5, <1>2, <1>3, ChainShrinks
  <2>2. ASSUME NEW x \in Procs, RegisteredNext(x), NEW k, k = id'[x]
        PROVE  Chained(k)'
    <3>1. CASE k = i
      BY <2>1, <3>1
    <3>2. CASE k # i
      <4>1. Chained(k) /\ k \in Used \ {c}
        BY <2>2, <1>0, <1>11 DEF Chains, Owned
      <4>2. Kids(k)' = Kids(k)
        BY <3>2, <1>16
      <4>3. items'[k].firstChildId = items[k].firstChildId
        BY <3>2, <4>1, <1>8
      <4>4. \A b \in Kids(k) : items'[b].siblingId = items[b].siblingId
        <5> SUFFICES ASSUME NEW b \in Kids(k) PROVE items'[b].siblingId = items[b].siblingId
          OBVIOUS
        <5>1. b \in Used /\ items[b].parentId = k
          BY DEF Kids
        <5>2. b # c /\ b # prev
          BY <5>1, <3>2, <1>1, IdFacts, <1>0 DEF TableTypes
        <5> QED  BY <5>1, <5>2, <1>8
      <4> QED  BY <4>1, <4>2, <4>3, <4>4, ChainStays
    <3> QED  BY <3>1, <3>2
  <2> QED  BY <2>2, NextPhases DEF Chains
<1>18. Joins'
  <2>1. ASSUME NEW x \in Procs, phase'[x] \in {"waiting", "woken"}
        PROVE  JoinSound(x)'
    <3>0. phase'[p] = "running"
      BY <1>10
    <3>1. x # p
      BY <2>1, <3>0
    <3>2. phase'[x] = phase[x] /\ joining'[x] = joining[x] /\ id'[x] = id[x]
      BY <3>1, <1>10
    <3>3. JoinSound(x) /\ Registered(x)
      BY <2>1, <3>2, <1>0 DEF Joins, Registered, Alive
    <3>4. id[x] # i /\ id[x] \in Used /\ id[x] # c /\ id[x] # NoId
      BY <3>1, <3>3, <1>0, <1>1, <1>2, IdsLead, IdFacts DEF Owned
    <3>5. PICK j : j = joining[x]
      OBVIOUS
    <3>6. /\ j \in [id : Ids, prev : Ids \cup {NoId}]
          /\ j.id \in Used /\ items[j.id].parentId = id[x]
          /\ items[j.id].hasExited <=> phase[x] = "woken"
          /\ phase[x] = "waiting" => x \in items[j.id].waitingRoom
          /\ IF j.prev = NoId THEN items[id[x]].firstChildId = j.id
             ELSE j.prev \in Used /\ items[j.prev].parentId = id[x] /\ items[j.prev].siblingId = j.id
      BY <3>3, <3>5 DEF JoinSound
    <3>7. /\ j.id # c
          /\ j.prev # NoId => j.prev # c /\ j.prev # prev
      BY <3>4, <3>6, <1>1
    <3>8. /\ items'[j.id].parentId = items[j.id].parentId
          /\ items'[j.id].hasExited = items[j.id].hasExited
          /\ items'[j.id].waitingRoom = items[j.id].waitingRoom
          /\ j.id \in Used'
      BY <3>6, <3>7, <1>7, <1>8
    <3>9. IF j.prev = NoId THEN items'[id[x]].firstChildId = j.id
          ELSE j.prev \in Used' /\ items'[j.prev].parentId = id[x] /\ items'[j.prev].siblingId = j.id
      BY <3>4, <3>6, <3>7, <1>7, <1>8
    <3> QED  BY <3>2, <3>5, <3>6, <3>8, <3>9 DEF JoinSound
  <2>2. ASSUME NEW j \in Used', NEW x \in items'[j].waitingRoom
        PROVE  phase'[x] = "waiting" /\ joining'[x].id = j
    <3>1. j \in Used /\ x \in items[j].waitingRoom
      BY <2>2, <1>7, <1>8
    <3>2. phase[x] = "waiting" /\ joining[x].id = j /\ x \in Procs
      BY <3>1, <1>0, <1>8 DEF Joins, Entries
    <3>3. x # p
      BY <3>2
    <3> QED  BY <3>2, <3>3, <1>10
  <2> QED  BY <2>1, <2>2 DEF Joins
<1> QED  BY <1>13, <1>14, <1>15, <1>17, <1>18 DEF TableInv

\* ProcIsDone.
LEMMA DoneInv ==
  ASSUME TableInv, NEW p \in Procs, NEW s \in ExitStatuses(p), ProcIsDone(p, s)
  PROVE  TableInv'
<1>0. TableTypes /\ Ancestry /\ Owned /\ Chains /\ Joins
  BY DEF TableInv
<1>1. PICK me : me = id[p]
  OBVIOUS
<1>2. /\ phase[p] = "running" /\ Alive(p) /\ Registered(p) /\ ~Done(p)
      /\ me \in Used /\ me \in Ids /\ Chained(me)
      /\ items[me].owner = p /\ ~items[me].hasExited /\ items[me].parentId # me
  <2>1. phase[p] = "running"
    BY DEF ProcIsDone
  <2>2. Alive(p) /\ Registered(p) /\ ~Done(p)
    BY <2>1 DEF Registered, Alive, Done
  <2> QED  BY <2>1, <2>2, <1>0, <1>1, IdsLead DEF Chains, Owned
<1>3. \A j \in Used : items[j] \in Entries /\ items[j].owner \in Procs
  BY <1>0 DEF TableTypes, Entries
<1>4. PICK orphan \in BOOLEAN : orphan <=> items[me].parentId = NoId
  OBVIOUS
<1>5. PICK freed : freed = {c \in Kids(me) : items[c].hasExited} \cup (IF orphan THEN {me} ELSE {})
  OBVIOUS
<1>6. /\ items' = [j \in Used \ freed |->
                     IF j \in Kids(me) THEN [items[j] EXCEPT !.parentId = -1]
                     ELSE IF j = me THEN [items[j] EXCEPT !.hasExited = TRUE, !.exitStatus = s,
                                                          !.waitingRoom = {}]
                     ELSE items[j]]
      /\ phase' = [q \in Procs |-> IF q = p THEN "dying"
                                   ELSE IF ~orphan /\ q \in items[me].waitingRoom THEN "woken"
                                   ELSE phase[q]]
      /\ exitCode' = [exitCode EXCEPT ![p] = s]
      /\ UNCHANGED <<id, child, joining, parent, joined>>
  <2>1. Children(me) = Kids(me)
    BY <1>0, <1>2, ListFacts
  <2>2. items[me].parentId < 0 <=> orphan
    <3>1. items[me].parentId \in Ids \cup {NoId}
      BY <1>2, <1>3 DEF Entries
    <3>2. \A n \in Ids \cup {NoId} : n < 0 <=> n = NoId
      BY IdFacts
    <3> QED  BY <3>1, <3>2, <1>4
  <2>3. ReapedChildren(me) \cup (IF items[me].parentId < 0 THEN {me} ELSE {}) = freed
    BY <2>1, <2>2, <1>5 DEF ReapedChildren
  <2>4. items' = Survivors(me, s, freed)
    BY <1>1, <2>3 DEF ProcIsDone
  <2>5. phase' = [q \in Procs |-> IF q = p THEN "dying"
                                  ELSE IF ~orphan /\ q \in items[me].waitingRoom THEN "woken"
                                  ELSE phase[q]]
    BY <1>1, <2>2 DEF ProcIsDone
  <2>6. items' = [j \in Used \ freed |->
                    IF j \in Kids(me) THEN [items[j] EXCEPT !.parentId = -1]
                    ELSE IF j = me THEN [items[j] EXCEPT !.hasExited = TRUE, !.exitStatus = s,
                                                         !.waitingRoom = {}]
                    ELSE items[j]]
    BY <2>1, <2>4, Zenon DEF Survivors
  <2>7. exitCode' = [exitCode EXCEPT ![p] = s] /\ UNCHANGED <<id, child, joining, parent, joined>>
    BY DEF ProcIsDone
  <2> QED  BY <2>5, <2>6, <2>7
<1>7. \A j \in Used : j \in freed <=> \/ items[j].parentId = me /\ items[j].hasExited
                                      \/ orphan /\ j = me
  BY <1>5 DEF Kids
<1>8. Used' = Used \ freed
  BY <1>6 DEF Used
<1>9. \A j \in Used \ freed :
         /\ items'[j].hasExited = IF j = me THEN TRUE ELSE items[j].hasExited
         /\ items'[j].exitStatus = IF j = me THEN s ELSE items[j].exitStatus
         /\ items'[j].parentId = IF items[j].parentId = me THEN NoId ELSE items[j].parentId
         /\ items'[j].waitingRoom = IF j = me THEN {} ELSE items[j].waitingRoom
         /\ items'[j].owner = items[j].owner
         /\ items'[j].firstChildId = items[j].firstChildId
         /\ items'[j].siblingId = items[j].siblingId
  <2> SUFFICES ASSUME NEW j \in Used \ freed
               PROVE  /\ items'[j].hasExited = IF j = me THEN TRUE ELSE items[j].hasExited
                      /\ items'[j].exitStatus = IF j = me THEN s ELSE items[j].exitStatus
                      /\ items'[j].parentId = IF items[j].parentId = me THEN NoId
                                              ELSE items[j].parentId
                      /\ items'[j].waitingRoom = IF j = me THEN {} ELSE items[j].waitingRoom
                      /\ items'[j].owner = items[j].owner
                      /\ items'[j].firstChildId = items[j].firstChildId
                      /\ items'[j].siblingId = items[j].siblingId
    OBVIOUS
  <2>1. items[j] \in Entries
    BY <1>3
  <2>2. CASE items[j].parentId = me
    <3>1. items'[j] = [items[j] EXCEPT !.parentId = NoId] /\ j # me
      BY <2>2, <1>2, <1>6 DEF Kids, NoId
    <3> QED  BY <3>1, <2>1, <2>2 DEF Entries
  <2>3. CASE items[j].parentId # me /\ j = me
    <3>1. items'[j] = [items[j] EXCEPT !.hasExited = TRUE, !.exitStatus = s, !.waitingRoom = {}]
      BY <2>3, <1>6 DEF Kids
    <3> QED  BY <3>1, <2>1, <2>3 DEF Entries
  <2>4. CASE items[j].parentId # me /\ j # me
    BY <2>4, <1>6 DEF Kids
  <2> QED  BY <2>2, <2>3, <2>4
<1>10. \A x \in Procs : x \in items[me].waitingRoom =>
          phase[x] = "waiting" /\ joining[x].id = me /\ ~orphan /\ x # p
  <2> SUFFICES ASSUME NEW x \in Procs, x \in items[me].waitingRoom
               PROVE  phase[x] = "waiting" /\ joining[x].id = me /\ ~orphan /\ x # p
    OBVIOUS
  <2>1. phase[x] = "waiting" /\ joining[x].id = me
    BY <1>0, <1>2 DEF Joins
  <2>2. items[me].parentId = id[x] /\ Registered(x)
    BY <2>1, <1>0 DEF Joins, JoinSound, Registered, Alive
  <2>3. id[x] # NoId
    BY <2>2, <1>0, IdsLead, IdFacts
  <2> QED  BY <2>1, <2>2, <2>3, <1>2, <1>4
<1>11. /\ phase'[p] = "dying"
       /\ \A x \in Procs \ {p} : phase'[x] = IF x \in items[me].waitingRoom THEN "woken" ELSE phase[x]
  BY <1>6, <1>10
<1>12. /\ \A x \in Procs : DoneNext(x) <=> Done(x) \/ x = p
       /\ \A x \in Procs : AliveNext(x) <=> Alive(x) /\ x # p
       /\ \A x \in Procs : RegisteredNext(x) <=> Registered(x) /\ x # p
       /\ \A x \in Procs : x # p => /\ phase'[x] = "stillborn" <=> phase[x] = "stillborn"
                                    /\ phase'[x] = "exec" <=> phase[x] = "exec"
                                    /\ phase'[x] = "loading" <=> phase[x] = "loading"
                                    /\ phase'[x] = "unborn" <=> phase[x] = "unborn"
  <2>1. \A x \in Procs \ {p} : phase'[x] = phase[x] \/ (phase[x] = "waiting" /\ phase'[x] = "woken")
    BY <1>10, <1>11
  <2>2. phase'[p] = "dying" /\ phase[p] = "running"
    BY <1>2, <1>11
  <2> QED  BY <2>1, <2>2 DEF Done, Alive, Registered, DoneNext, AliveNext, RegisteredNext
<1>13. /\ \A x \in Procs : parent[x] # None => parent[x] \in Procs
       /\ \A x \in Procs : exitCode'[x] = IF x = p THEN s ELSE exitCode[x]
       /\ s \in Statuses /\ s # None
  <2>1. s \in UNION {ExitStatuses(x) : x \in Procs}
    OBVIOUS
  <2> QED  BY <2>1, <1>0, <1>6, ProcAssumption DEF TableTypes, Statuses
<1>14. TableTypes'
  <2>1. ASSUME NEW j \in Used \ freed PROVE items'[j] \in Entries
    <3>1. items[j] \in Entries
      BY <1>3
    <3>2. CASE items[j].parentId = me
      <4>1. items'[j] = [items[j] EXCEPT !.parentId = NoId]
        BY <3>2, <1>6 DEF Kids, NoId
      <4> QED  BY <4>1, <3>1 DEF Entries
    <3>3. CASE items[j].parentId # me /\ j = me
      <4>1. items'[j] = [items[j] EXCEPT !.hasExited = TRUE, !.exitStatus = s, !.waitingRoom = {}]
        BY <3>3, <1>6 DEF Kids
      <4> QED  BY <4>1, <3>1, <1>13 DEF Entries
    <3>4. CASE items[j].parentId # me /\ j # me
      BY <3>1, <3>4, <1>6 DEF Kids
    <3> QED  BY <3>2, <3>3, <3>4
  <2>2. items' = [j \in Used' |-> items'[j]]
    BY <1>6, <1>8
  <2>3. items' \in [Used' -> Entries] /\ Used' \subseteq Ids
    BY <2>1, <2>2, <1>0, <1>8 DEF TableTypes
  <2>4. phase' \in [Procs -> Phases]
    BY <1>0, <1>6 DEF TableTypes, Phases
  <2> QED  BY <2>3, <2>4, <1>0, <1>6, <1>13 DEF TableTypes
<1>15. Ancestry'
  <2> SUFFICES ASSUME NEW x \in Procs
               PROVE  /\ parent'[x] # x
                      /\ parent'[x] # None => AliveNext(parent'[x]) \/ DoneNext(parent'[x])
                      /\ phase'[x] = "unborn" => parent'[x] = None
                      /\ phase'[x] = "exec" =>
                           /\ child'[x] \in Procs /\ parent'[child'[x]] = x
                           /\ phase'[child'[x]] \in {"loading", "stillborn"}
                      /\ joined'[x] # None => DoneNext(x) /\ joined'[x] = <<parent'[x], exitCode'[x]>>
                      /\ DoneNext(x) => exitCode'[x] # None
    BY NextAncestry
  <2>1. parent[x] # None => AliveNext(parent[x]) \/ DoneNext(parent[x])
    BY <1>0, <1>12, <1>13 DEF Ancestry
  <2>2. x # p => /\ phase'[x] = "exec" => phase[x] = "exec"
                 /\ phase'[x] = "unborn" => phase[x] = "unborn"
    BY <1>12
  <2>3. x # p /\ phase[x] = "exec" =>
           /\ child[x] \in Procs /\ parent[child[x]] = x
           /\ phase'[child[x]] \in {"loading", "stillborn"}
    <3> SUFFICES ASSUME x # p, phase[x] = "exec"
                 PROVE  /\ child[x] \in Procs /\ parent[child[x]] = x
                        /\ phase'[child[x]] \in {"loading", "stillborn"}
      OBVIOUS
    <3>1. child[x] \in Procs /\ parent[child[x]] = x /\ phase[child[x]] \in {"loading", "stillborn"}
      BY <1>0 DEF Ancestry
    <3>2. child[x] # p
      BY <3>1, <1>2
    <3> QED  BY <3>1, <3>2, <1>12
  <2>4. /\ parent[x] # x
        /\ phase[x] = "unborn" => parent[x] = None
        /\ joined[x] # None => Done(x) /\ joined[x] = <<parent[x], exitCode[x]>>
        /\ Done(x) => exitCode[x] # None
    BY <1>0 DEF Ancestry
  <2>5. joined[x] # None => x # p
    BY <2>4, <1>2
  <2>6. CASE x = p
    BY <2>6, <2>1, <2>4, <2>5, <1>6, <1>11, <1>12, <1>13
  <2>7. CASE x # p
    BY <2>7, <2>1, <2>2, <2>3, <2>4, <1>6, <1>12, <1>13
  <2> QED  BY <2>6, <2>7
<1>16. \A j \in Used : items[j].parentId = me => parent[items[j].owner] = p
  <2>1. me # NoId
    BY <1>2, IdFacts
  <2> QED  BY <2>1, <1>0, <1>1, <1>2, IdsLead
<1>17. Owned'
  <2>1. ASSUME NEW j \in Used \ freed PROVE SoundNext(j)
    <3>1. PICK x \in Procs : x = items[j].owner
      BY <1>3
    <3>2. /\ IF items[j].hasExited
             THEN Done(x) /\ items[j].exitStatus = exitCode[x] /\ items[j].parentId # NoId
             ELSE phase[x] = "stillborn" \/ (Registered(x) /\ id[x] = j)
          /\ joined[x] = None
          /\ items[j].parentId = IF parent[x] # None /\ Alive(parent[x]) THEN id[parent[x]] ELSE NoId
      BY <3>1, <1>0 DEF Owned, EntrySound
    <3>3. x = p <=> j = me
      BY <3>1, <1>0, <1>2 DEF Owned
    <3>4. items'[j].parentId = IF parent[x] # None /\ AliveNext(parent[x]) THEN id[parent[x]] ELSE NoId
      <4>1. CASE items[j].parentId = me
        <5>1. parent[x] = p
          BY <4>1, <3>1, <1>16
        <5> QED  BY <5>1, <4>1, <1>9, <1>12
      <4>2. CASE items[j].parentId # me
        <5>1. parent[x] # p
          <6>1. p # None
            BY IdFacts
          <6> QED  BY <6>1, <4>2, <3>2, <1>1, <1>2
        <5>2. items'[j].parentId = items[j].parentId
          BY <4>2, <1>9
        <5>3. parent[x] # None => (AliveNext(parent[x]) <=> Alive(parent[x]))
          BY <5>1, <1>12, <1>13
        <5> QED  BY <5>2, <5>3, <3>2
      <4> QED  BY <4>1, <4>2
    <3>5. parent' = parent /\ id' = id
      BY <1>6
    <3>6. items'[j].parentId = IF parent'[x] # None /\ AliveNext(parent'[x]) THEN id'[parent'[x]] ELSE NoId
      BY <3>4, <3>5
    <3>7. CASE j = me
      <4>1. /\ items'[j].hasExited /\ items'[j].exitStatus = exitCode'[x] /\ DoneNext(x)
            /\ items'[j].owner = x /\ joined'[x] = None
        <5>1. x = p /\ exitCode'[x] = s /\ DoneNext(x) /\ joined'[x] = joined[x]
          BY <3>3, <3>7, <1>6, <1>12, <1>13
        <5>2. items'[j].hasExited = TRUE /\ items'[j].exitStatus = s /\ items'[j].owner = items[j].owner
          BY <3>7, <1>9
        <5> QED  BY <5>1, <5>2, <3>1, <3>2
      <4>2. items'[j].parentId # NoId
        BY <3>7, <1>2, <1>4, <1>7, <1>9
      <4> QED  BY <4>1, <4>2, <3>6 DEF SoundNext
    <3>8. CASE j # me
      <4>1. /\ items'[j].hasExited = items[j].hasExited /\ items'[j].exitStatus = items[j].exitStatus
            /\ items'[j].owner = x /\ joined'[x] = None /\ x # p
        BY <3>1, <3>2, <3>3, <3>8, <1>6, <1>9
      <4>2. items[j].hasExited => items'[j].parentId # NoId
        BY <3>2, <3>8, <1>7, <1>9
      <4>3. IF items[j].hasExited
            THEN DoneNext(x) /\ items[j].exitStatus = exitCode'[x]
            ELSE phase'[x] = "stillborn" \/ (RegisteredNext(x) /\ id[x] = j)
        BY <3>2, <4>1, <1>12, <1>13
      <4> QED  BY <4>1, <4>2, <4>3, <3>5, <3>6 DEF SoundNext
    <3> QED  BY <3>7, <3>8
  <2>2. \A j, k \in Used' : items'[j].owner = items'[k].owner => j = k
    <3>1. \A j \in Used \ freed : items'[j].owner = items[j].owner
      BY <1>9
    <3> QED  BY <3>1, <1>0, <1>8 DEF Owned
  <2>3. ASSUME NEW x \in Procs, RegisteredNext(x)
        PROVE  id'[x] \in Used' /\ items'[id'[x]].owner = x /\ ~items'[id'[x]].hasExited
    <3>1. /\ id[x] \in Used /\ items[id[x]].owner = x /\ ~items[id[x]].hasExited
          /\ x # p
      BY <2>3, <1>0, <1>12 DEF Owned
    <3>2. id[x] # me
      BY <3>1, <1>2
    <3>3. id[x] \in Used \ freed
      BY <3>1, <3>2, <1>7
    <3> QED  BY <3>1, <3>2, <3>3, <1>6, <1>8, <1>9
  <2>4. ASSUME NEW x \in Procs, DoneNext(x), parent'[x] # None, ~DoneNext(parent'[x]), joined'[x] = None
        PROVE  \E j \in Used' : items'[j].owner = x
    <3>1. /\ parent[x] # None /\ parent[x] \in Procs /\ parent[x] # p /\ ~Done(parent[x])
          /\ joined[x] = None
      BY <2>4, <1>6, <1>12, <1>13
    <3>2. CASE x = p
      <4>1. Alive(parent[p])
        BY <3>1, <3>2, <1>0 DEF Ancestry
      <4>2. items[me].parentId = id[parent[p]]
        BY <4>1, <3>1, <3>2, <1>0, <1>2 DEF Owned, EntrySound
      <4>3. id[parent[p]] # NoId
        BY <3>1, <3>2, <4>1, <1>0, IdsLead, IdFacts DEF Registered
      <4>4. me \in Used \ freed
        BY <4>2, <4>3, <1>2, <1>4, <1>7
      <4> QED  BY <4>4, <3>2, <1>2, <1>8, <1>9
    <3>3. CASE x # p
      <4>1. PICK j \in Used : items[j].owner = x
        BY <2>4, <3>1, <3>3, <1>0, <1>12 DEF Owned
      <4>2. j # me /\ items[j].parentId # me
        BY <4>1, <3>1, <3>3, <1>2, <1>16
      <4>3. j \in Used \ freed
        BY <4>2, <1>7
      <4> QED  BY <4>1, <4>3, <1>8, <1>9
    <3> QED  BY <3>2, <3>3
  <2>5. \A j \in Used' : SoundNext(j)
    BY <2>1, <1>8
  <2> QED  BY <2>2, <2>3, <2>4, <2>5, NextOwned
<1>18. Chains'
  <2>1. ASSUME NEW x \in Procs, RegisteredNext(x), NEW k, k = id'[x]
        PROVE  Chained(k)'
    <3>1. /\ Registered(x) /\ x # p /\ k = id[x]
      BY <2>1, <1>6, <1>12
    <3>2. Chained(k) /\ k \in Used /\ k # me /\ k # NoId /\ ~items[k].hasExited
      BY <3>1, <1>0, <1>1, <1>2, IdsLead, IdFacts DEF Chains, Owned
    <3>3. \A c \in Kids(k) : c \in Used \ freed
      BY <3>2, <1>4, <1>7 DEF Kids
    <3>4. Kids(k)' = Kids(k)
      <4>1. Kids(k)' = {c \in Used \ freed : items'[c].parentId = k}
        BY <1>8 DEF Kids
      <4>2. \A c \in Used \ freed : items'[c].parentId = k <=> items[c].parentId = k
        BY <3>2, <1>9
      <4> QED  BY <4>1, <4>2, <3>3 DEF Kids
    <3>5. /\ items'[k].firstChildId = items[k].firstChildId
          /\ \A c \in Kids(k) : items'[c].siblingId = items[c].siblingId
      BY <3>2, <3>3, <1>7, <1>9
    <3> QED  BY <3>2, <3>4, <3>5, ChainStays
  <2> QED  BY <2>1, NextPhases DEF Chains
<1>19. Joins'
  <2>1. ASSUME NEW x \in Procs, phase'[x] \in {"waiting", "woken"}
        PROVE  JoinSound(x)'
    <3>1. x # p /\ phase[x] \in {"waiting", "woken"}
      BY <2>1, <1>10, <1>11
    <3>2. JoinSound(x) /\ Registered(x)
      BY <3>1, <1>0 DEF Joins, Registered, Alive
    <3>3. id[x] # me /\ id[x] \in Used /\ id[x] # NoId /\ ~items[id[x]].hasExited
      BY <3>1, <3>2, <1>0, <1>1, <1>2, IdsLead, IdFacts DEF Owned
    <3>4. PICK j : j = joining[x]
      OBVIOUS
    <3>5. /\ j \in [id : Ids, prev : Ids \cup {NoId}]
          /\ j.id \in Used /\ items[j.id].parentId = id[x]
          /\ items[j.id].hasExited <=> phase[x] = "woken"
          /\ phase[x] = "waiting" => x \in items[j.id].waitingRoom
          /\ IF j.prev = NoId THEN items[id[x]].firstChildId = j.id
             ELSE j.prev \in Used /\ items[j.prev].parentId = id[x] /\ items[j.prev].siblingId = j.id
      BY <3>2, <3>4 DEF JoinSound
    <3>6. j.id \in Used \ freed /\ items'[j.id].parentId = id[x]
      BY <3>3, <3>5, <1>4, <1>7, <1>9
    <3>7. IF j.prev = NoId THEN items'[id[x]].firstChildId = j.id
          ELSE j.prev \in Used' /\ items'[j.prev].parentId = id[x] /\ items'[j.prev].siblingId = j.id
      <4>1. CASE j.prev = NoId
        <5>1. id[x] \in Used \ freed
          <6>1. items[id[x]].hasExited = FALSE
            BY <3>3, <1>3 DEF Entries
          <6> QED  BY <6>1, <3>3, <1>7
        <5> QED  BY <5>1, <4>1, <3>5, <1>9
      <4>2. CASE j.prev # NoId
        <5>1. j.prev \in Used \ freed
          BY <4>2, <3>3, <3>5, <1>4, <1>7
        <5> QED  BY <5>1, <4>2, <3>3, <3>5, <1>8, <1>9
      <4> QED  BY <4>1, <4>2
    <3>8. /\ items'[j.id].hasExited <=> phase'[x] = "woken"
          /\ phase'[x] = "waiting" => x \in items'[j.id].waitingRoom
      <4>1. CASE j.id = me
        <5>1. phase[x] = "waiting" /\ x \in items[me].waitingRoom
          BY <4>1, <3>1, <3>5, <1>2
        <5> QED  BY <5>1, <4>1, <3>1, <3>6, <1>9, <1>11
      <4>2. CASE j.id # me
        <5>1. x \notin items[me].waitingRoom
          BY <4>2, <3>4, <1>10
        <5> QED  BY <5>1, <4>2, <3>1, <3>5, <3>6, <1>9, <1>11
      <4> QED  BY <4>1, <4>2
    <3> QED  BY <3>4, <3>5, <3>6, <3>7, <3>8, <1>6, <1>8 DEF JoinSound
  <2>2. ASSUME NEW j \in Used', NEW x \in items'[j].waitingRoom
        PROVE  phase'[x] = "waiting" /\ joining'[x].id = j
    <3>1. j \in Used /\ j # me /\ x \in items[j].waitingRoom
      BY <2>2, <1>8, <1>9
    <3>2. phase[x] = "waiting" /\ joining[x].id = j /\ x \in Procs
      BY <3>1, <1>0, <1>3 DEF Joins, Entries
    <3>3. x # p /\ x \notin items[me].waitingRoom
      BY <3>1, <3>2, <1>2, <1>10
    <3> QED  BY <3>2, <3>3, <1>6, <1>11
  <2> QED  BY <2>1, <2>2 DEF Joins
<1> QED  BY <1>14, <1>15, <1>17, <1>18, <1>19 DEF TableInv

\* Every step of a process keeps the table's invariant.
LEMMA TableNextInv == TableInv /\ [ProcNext]_vars => TableInv'
<1> SUFFICES ASSUME TableInv, [ProcNext]_vars PROVE TableInv'
  OBVIOUS
<1>0. TableTypes /\ Ancestry /\ Owned /\ Chains /\ Joins
  BY DEF TableInv
<1>1. ASSUME UNCHANGED <<items, id, phase, child, joining, history>>
      PROVE  TableInv'
  <2>1. UNCHANGED <<items, id, phase, child, joining, parent, exitCode, joined>>
    BY <1>1 DEF history
  <2>2. phase' \in [Procs -> Phases] /\ child' \in [Procs -> Procs \cup {None}]
    BY <2>1, <1>0 DEF TableTypes
  <2>3. \A p \in Procs : (Registered(p)' <=> Registered(p)) /\ (Done(p)' <=> Done(p))
                         /\ (Alive(p)' <=> Alive(p))
    BY <2>1 DEF Registered, Done, Alive
  <2> QED  BY <2>1, <2>2, <2>3, QuietStep
<1>2. ASSUME NEW p \in Procs, ExecForks(p)
      PROVE  TableInv'
  <2>1. PICK q \in Procs : q = child[p] /\ phase[q] = "loading" /\ parent[q] = p
    BY <1>0, <1>2 DEF ExecForks, Loading, Ancestry
  <2>2. /\ phase[p] = "exec" /\ p # q
        /\ phase' = [phase EXCEPT ![p] = "running", ![q] = "running"]
        /\ child' = [child EXCEPT ![p] = None]
        /\ UNCHANGED <<items, id, joining, parent, exitCode, joined>>
    BY <1>2, <2>1 DEF ExecForks, Loading, history
  <2>3. /\ \A x \in Procs : phase'[x] = IF x = p \/ x = q THEN "running" ELSE phase[x]
        /\ \A x \in Procs : child'[x] = IF x = p THEN None ELSE child[x]
    BY <1>0, <2>2 DEF TableTypes
  <2>4. phase' \in [Procs -> Phases] /\ child' \in [Procs -> Procs \cup {None}]
    BY <1>0, <2>2 DEF TableTypes, Phases
  <2>5. \A x \in Procs :
          /\ RegisteredNext(x) <=> Registered(x)
          /\ DoneNext(x) <=> Done(x)
          /\ Alive(x) => AliveNext(x)
          /\ AliveNext(x) => Alive(x) \/ phase[x] = "loading"
          /\ \A ph \in {"unborn", "stillborn", "waiting", "woken"} : phase'[x] = ph <=> phase[x] = ph
    <3>1. \A x \in Procs : phase'[x] = phase[x] \/ x = p \/ x = q
      BY <2>3
    <3>2. /\ phase'[p] = "running" /\ phase'[q] = "running"
          /\ phase[p] = "exec" /\ phase[q] = "loading"
      BY <2>1, <2>2, <2>3
    <3> QED
      BY <3>1, <3>2 DEF Done, Alive, Registered, DoneNext, AliveNext, RegisteredNext
  <2>6. ASSUME NEW x \in Procs, phase'[x] = "exec"
        PROVE  phase[x] = "exec" /\ child'[x] = child[x] /\ phase'[child[x]] = phase[child[x]]
    <3>1. x # p /\ x # q /\ phase[x] = "exec" /\ child'[x] = child[x]
      BY <2>3, <2>6
    <3>2. child[x] \in Procs /\ parent[child[x]] = x /\ phase[child[x]] # "exec"
      BY <3>1, <1>0 DEF Ancestry
    <3> QED  BY <3>1, <3>2, <2>1, <2>2, <2>3
  <2> QED  BY <2>2, <2>4, <2>5, <2>6, NextPhases, QuietStep
<1>3. ASSUME NEW p \in Procs, ExecFails(p)
      PROVE  TableInv'
  <2>1. /\ phase[p] = "exec"
        /\ phase' = [phase EXCEPT ![p] = "running"]
        /\ child' = [child EXCEPT ![p] = None]
        /\ UNCHANGED <<items, id, joining, parent, exitCode, joined>>
    BY <1>3 DEF ExecFails, Goes, history
  <2>2. /\ \A x \in Procs : phase'[x] = IF x = p THEN "running" ELSE phase[x]
        /\ \A x \in Procs : child'[x] = IF x = p THEN None ELSE child[x]
    BY <1>0, <2>1 DEF TableTypes
  <2>3. phase' \in [Procs -> Phases] /\ child' \in [Procs -> Procs \cup {None}]
    BY <1>0, <2>1 DEF TableTypes, Phases
  <2>4. \A x \in Procs :
          /\ RegisteredNext(x) <=> Registered(x)
          /\ DoneNext(x) <=> Done(x)
          /\ Alive(x) <=> AliveNext(x)
          /\ \A ph \in {"unborn", "stillborn", "waiting", "woken"} : phase'[x] = ph <=> phase[x] = ph
    BY <2>1, <2>2 DEF Done, Alive, Registered, DoneNext, AliveNext, RegisteredNext
  <2>5. ASSUME NEW x \in Procs, phase'[x] = "exec"
        PROVE  phase[x] = "exec" /\ child'[x] = child[x] /\ phase'[child[x]] = phase[child[x]]
    <3>1. x # p /\ phase[x] = "exec" /\ child'[x] = child[x]
      BY <2>2, <2>5
    <3>2. child[x] \in Procs /\ phase[child[x]] \in {"loading", "stillborn"}
      BY <3>1, <1>0 DEF Ancestry
    <3>3. child[x] # p
      BY <3>2, <2>1
    <3> QED  BY <3>1, <3>2, <3>3, <2>2
  <2> QED  BY <2>1, <2>3, <2>4, <2>5, NextPhases, QuietStep
<1>4. ASSUME NEW p \in Procs, Finish(p)
      PROVE  TableInv'
  <2>1. /\ phase[p] = "dying" /\ phase' = [phase EXCEPT ![p] = "dead"]
        /\ UNCHANGED <<items, id, child, joining, parent, exitCode, joined>>
    BY <1>4 DEF Finish, Goes, history
  <2>2. \A x \in Procs : phase'[x] = IF x = p THEN "dead" ELSE phase[x]
    BY <1>0, <2>1 DEF TableTypes
  <2>3. phase' \in [Procs -> Phases] /\ child' \in [Procs -> Procs \cup {None}]
    BY <1>0, <2>1 DEF TableTypes, Phases
  <2>4. \A x \in Procs :
          /\ RegisteredNext(x) <=> Registered(x)
          /\ DoneNext(x) <=> Done(x)
          /\ Alive(x) <=> AliveNext(x)
          /\ \A ph \in {"unborn", "stillborn", "waiting", "woken"} : phase'[x] = ph <=> phase[x] = ph
    BY <2>1, <2>2 DEF Done, Alive, Registered, DoneNext, AliveNext, RegisteredNext
  <2>5. ASSUME NEW x \in Procs, phase'[x] = "exec"
        PROVE  phase[x] = "exec" /\ child'[x] = child[x] /\ phase'[child[x]] = phase[child[x]]
    <3>1. x # p /\ phase[x] = "exec" /\ child'[x] = child[x]
      BY <2>1, <2>2, <2>5
    <3>2. child[x] \in Procs /\ phase[child[x]] \in {"loading", "stillborn"}
      BY <3>1, <1>0 DEF Ancestry
    <3>3. child[x] # p
      BY <3>2, <2>1
    <3> QED  BY <3>1, <3>2, <3>3, <2>2
  <2> QED  BY <2>1, <2>3, <2>4, <2>5, NextPhases, QuietStep
<1>5. ASSUME NEW p \in Procs, NEW c \in Ids, JoinExited(p, c)
      PROVE  TableInv'
  <2>1. PICK i : i = id[p]
    OBVIOUS
  <2>2. PICK prev : prev = Previous(i, c)
    OBVIOUS
  <2>3. /\ phase[p] = "running" /\ c \in Children(i) /\ items[c].hasExited
        /\ Unlink(p, c, prev) /\ UNCHANGED <<id, phase, child, joining>>
    BY <1>5, <2>1, <2>2 DEF JoinExited
  <2>4. Chained(i)
    BY <1>0, <2>1, <2>3 DEF Chains, Registered, Alive
  <2>5. /\ c \in Kids(i)
        /\ prev = NoId => items[i].firstChildId = c
        /\ prev # NoId => prev \in Kids(i) /\ items[prev].siblingId = c
    BY <1>0, <2>2, <2>3, <2>4, ListFacts
  <2>6. /\ c \in Used /\ items[c].parentId = id[p]
        /\ prev \in Used \cup {NoId}
        /\ IF prev = NoId THEN items[id[p]].firstChildId = c
           ELSE items[prev].parentId = id[p] /\ items[prev].siblingId = c
    BY <2>1, <2>5 DEF Kids
  <2>7. phase' = [phase EXCEPT ![p] = "running"]
    BY <1>0, <2>3 DEF TableTypes
  <2>8. DOMAIN joining' = Procs /\ \A x \in Procs \ {p} : joining'[x] = joining[x]
    BY <1>0, <2>3 DEF TableTypes
  <2> QED  BY <2>3, <2>6, <2>7, <2>8, UnlinkInv
<1>6. ASSUME NEW p \in Procs, JoinWoken(p)
      PROVE  TableInv'
  <2>1. PICK c : c = joining[p].id
    OBVIOUS
  <2>2. PICK prev : prev = joining[p].prev
    OBVIOUS
  <2>3. /\ phase[p] = "woken" /\ Unlink(p, c, prev)
        /\ joining' = [joining EXCEPT ![p] = None] /\ phase' = [phase EXCEPT ![p] = "running"]
        /\ UNCHANGED <<id, child>>
    BY <1>6, <2>1, <2>2 DEF JoinWoken, Goes
  <2>4. JoinSound(p)
    BY <1>0, <2>3 DEF Joins
  <2>5. /\ c \in Used /\ items[c].parentId = id[p] /\ items[c].hasExited
        /\ prev \in Used \cup {NoId}
        /\ IF prev = NoId THEN items[id[p]].firstChildId = c
           ELSE items[prev].parentId = id[p] /\ items[prev].siblingId = c
    BY <2>1, <2>2, <2>3, <2>4 DEF JoinSound
  <2>6. DOMAIN joining' = Procs /\ \A x \in Procs \ {p} : joining'[x] = joining[x]
    BY <1>0, <2>3 DEF TableTypes
  <2> QED  BY <2>3, <2>5, <2>6, UnlinkInv
<1>7. ASSUME NEW p \in Procs, FindAndSet(p) \/ ClearFrame(p) \/ UNCHANGED vars
      PROVE  TableInv'
  BY <1>1, <1>7 DEF FindAndSet, ClearFrame, vars
<1>8. First \in Procs /\ 0 \in Ids
  BY IdFacts
<1>9. CASE UNCHANGED vars
  BY <1>7, <1>8, <1>9
<1> QED
  BY <1>2, <1>3, <1>4, <1>5, <1>6, <1>7, <1>9, NewEntryInv, StillbornInv, WaitingInv, DoneInv
    DEF ProcNext, KernelStep

\* The promise of proctable.h, for every order of Exec, Join and Exit: an entry
\* stays as long as its process lives, or its parent may still ask for the exit
\* status, and goes when neither is so.
THEOREM EntriesAreKept == ProcSpec => []EntryKept
<1>1. TableInv => EntryKept
  <2> SUFFICES ASSUME TableInv PROVE EntryKept
    OBVIOUS
  <2>0. Ancestry /\ Owned
    BY DEF TableInv
  <2>1. \A p \in Procs : Alive(p) \/ phase[p] = "loading" =>
           id[p] \in Used /\ items[id[p]].owner = p /\ ~items[id[p]].hasExited
    BY <2>0 DEF Owned, Registered
  <2>2. ASSUME NEW p \in Procs, Alive(p) \/ Done(p), NEW i \in Used, items[i].owner = p
        PROVE  Alive(p) \/ (parent[p] # None /\ ~Done(parent[p]) /\ joined[p] = None)
    <3>1. EntrySound(i)
      BY <2>0 DEF Owned
    <3>2. CASE items[i].hasExited
      <4>1. parent[p] # None /\ Alive(parent[p]) /\ joined[p] = None
        BY <2>2, <3>1, <3>2 DEF EntrySound
      <4> QED  BY <4>1 DEF Alive, Done
    <3>3. CASE ~items[i].hasExited
      <4>1. phase[p] = "stillborn" \/ Registered(p)
        BY <2>2, <3>1, <3>3 DEF EntrySound
      <4> QED  BY <4>1, <2>2 DEF Alive, Done, Registered
    <3> QED  BY <3>2, <3>3
  <2>3. ASSUME NEW p \in Procs, Alive(p) \/ Done(p),
               Alive(p) \/ (parent[p] # None /\ ~Done(parent[p]) /\ joined[p] = None)
        PROVE  \E i \in Used : items[i].owner = p
    BY <2>0, <2>1, <2>3 DEF Owned
  <2> QED  BY <2>1, <2>2, <2>3 DEF EntryKept
<1> QED  BY <1>1, TableInitInv, TableNextInv, PTL DEF ProcSpec

\* The list that GetProcStatus and ProcIsDone walk ends, and passes exactly the
\* process's children, whatever joins and exits have taken out of it.
THEOREM ListsAreExact == ProcSpec => []ChildrenExact
<1>1. TableInv => ChildrenExact
  BY ListFacts DEF TableInv, Chains, Registered, ChildrenExact, Kids
<1> QED  BY <1>1, TableInitInv, TableNextInv, PTL DEF ProcSpec

\* Join returns the child's own exit status to its parent, and after the one
\* Wait the local variables of GetProcStatus still name the child and the entry
\* before it.
THEOREM JoinIsExact == ProcSpec => []JoinExact
<1>1. TableInv => JoinExact
  <2> SUFFICES ASSUME TableInv PROVE JoinExact
    OBVIOUS
  <2>0. TableTypes /\ Ancestry /\ Chains /\ Joins
    BY DEF TableInv
  <2>1. \A p \in Procs : joined[p] # None => joined[p] = <<parent[p], exitCode[p]>>
    BY <2>0 DEF Ancestry
  <2>2. ASSUME NEW p \in Procs, phase[p] = "woken", NEW j, j = joining[p]
        PROVE  /\ j.id \in Used /\ items[j.id].hasExited
               /\ j.id \in Children(id[p]) /\ j.prev = Previous(id[p], j.id)
    <3>1. JoinSound(p) /\ Chained(id[p])
      BY <2>0, <2>2 DEF Joins, Chains, Registered, Alive
    <3>2. /\ j.id \in Used /\ j.id \in Kids(id[p]) /\ items[j.id].hasExited
          /\ IF j.prev = NoId THEN items[id[p]].firstChildId = j.id
             ELSE j.prev \in Kids(id[p]) /\ items[j.prev].siblingId = j.id
      BY <3>1, <2>2 DEF JoinSound, Kids
    <3> QED  BY <3>1, <3>2, <2>0, ListFacts
  <2> QED  BY <2>1, <2>2 DEF JoinExact
<1> QED  BY <1>1, TableInitInv, TableNextInv, PTL DEF ProcSpec
=============================================================================
