------------------------ MODULE AssetExtractionProofs ------------------------
(***************************************************************************)
(* Proofs about AssetExtraction.  The first invariant, Inv, is about the   *)
(* shape of a call: which cell it works on, what it has read, where it     *)
(* writes.  The second one, Order, needs builds to go forward only, and    *)
(* orders the builds that a call reads one after the other.                *)
(***************************************************************************)
EXTENDS AssetExtraction, TLAPS

\* Between marking a cell busy and filling it.
Opening == {"open", "keys", "tables"}
\* With a registry key, and with a state.
WithState == {"init", "warm", "read"}
Keyed == {"cell"} \cup Opening \cup WithState
Writing == {"write", "flush", "rename"}
Points == {"idle", "lookup", "current", "recheck", "key", "done"} \cup Keyed \cup Writing

\* What a call has at each point: a cell that it creates or that is ready, ...
CellShape(t) ==
    /\ pc[t] \in Keyed => key[t] \in Builds
    /\ pc[t] \in Opening => Cell(t).st = "busy"
    /\ pc[t] \in {"keys", "tables"} => seen[t] \in Builds
    /\ pc[t] \in WithState => Cell(t).st = "ok"

\* ... a destination that is qualified if its receipt is, ...
CallShape(t) ==
    /\ pc[t] \in {"lookup", "current", "recheck"} \cup Writing => op[t] = "ensure"
    /\ pc[t] = "warm" => op[t] = "warm"
    /\ pc[t] = "read" => op[t] # "warm"
    /\ pc[t] = "lookup" => dest[t] = want[t]
    /\ want[t] = Unqualified <=> dest[t] = Unqualified

\* ... and bytes that may be written there, which are written when it returns.
WriteShape(t) ==
    /\ pc[t] \in Writing =>
        got[t] \in Bytes /\ got[t].whole /\ (want[t] # Unqualified => ~got[t].zeroed)
    /\ pc[t] = "rename" => temp[t] = got[t]
    /\ Returned(t) /\ op[t] = "ensure" => Exists(dest[t])

Shape(t) == CellShape(t) /\ CallShape(t) /\ WriteShape(t)

\* A state that is ready belongs to a build.
StatesInv == \A p \in Procs, b \in Builds : cells[p][b].st = "ok" => cells[p][b].build \in Builds

FilesInv == VisibleIsWhole /\ QualifiedIsDecoded

\* No two threads of a process create one state.
AtMostOneInitializer == \A t, u \in Threads :
    pc[t] \in Opening /\ pc[u] \in Opening /\ ProcOf[t] = ProcOf[u] /\ key[t] = key[u] => t = u

Inv == /\ TypeOK /\ StatesInv /\ FilesInv /\ AtMostOneInitializer
       /\ \A t \in Threads : Shape(t)

-----------------------------------------------------------------------------
(* How a step of one thread looks to the others *)

\* The other threads' calls are where they were.
OthersStay(t) == \A u \in Threads \ {t} :
    /\ pc'[u] = pc[u] /\ op'[u] = op[u] /\ want'[u] = want[u] /\ dest'[u] = dest[u]
    /\ key'[u] = key[u] /\ seen'[u] = seen[u] /\ got'[u] = got[u] /\ temp'[u] = temp[u]
    /\ result'[u] = result[u] /\ start'[u] = start[u] /\ disturbed'[u] = disturbed[u]

\* How a cell may change: it is entered, filled by its initializer, or its parts
\* are set once.
CellMay(t, c) ==
    \/ Cell(t).st = "empty" /\ c.st = "busy"
    \/ /\ Cell(t).st = "busy" /\ pc[t] \in Opening
       /\ c.st = "ok" => pc[t] = "tables" /\ c.build = seen[t]
    \/ Cell(t).st = "ok" /\ Stands(Cell(t), c)

CellStep(t) ==
    \/ UNCHANGED cells
    \/ \E c \in CellStates :
        /\ key[t] \in Builds /\ key'[t] = key[t]
        /\ CellMay(t, c)
        /\ c.st = "ok" => c.build \in Builds
        /\ SetCell(t, c)

\* Files appear and are replaced, by whole ones, but do not go.
FilesStep(t) ==
    \/ UNCHANGED files
    \/ \E bytes \in Bytes :
        /\ bytes.whole /\ (dest[t] # Unqualified => ~bytes.zeroed)
        /\ files' = Set(files, dest[t], bytes)

\* Builds are numbered from 1, and 0 is the other label.
LEMMA BuildsAreNumbers == Builds \subseteq Nat /\ 0 \notin Builds /\ Labels = {0} \cup Builds
BY ConstantsAssumption DEF Builds, Labels, Unqualified

\* No bytes are not any build's.
LEMMA BytesAreSomething == NoBytes \notin Bytes
BY BuildsAreNumbers DEF NoBytes, Bytes

\* The one cell that a thread sets.
LEMMA SetCellIs ==
    ASSUME TypeOK, NEW t \in Threads, key[t] \in Builds, NEW c \in CellStates, SetCell(t, c)
    PROVE  /\ cells' \in [Procs -> [Builds -> CellStates]]
           /\ cells'[ProcOf[t]][key[t]] = c
           /\ \A p \in Procs, b \in Builds :
                p # ProcOf[t] \/ b # key[t] => cells'[p][b] = cells[p][b]
<1>1. ProcOf[t] \in Procs
  BY ConstantsAssumption
<1> QED
  BY <1>1 DEF TypeOK, SetCell

\* A cell's fields.
LEMMA CellIs ==
    ASSUME TypeOK, NEW t \in Threads, key[t] \in Builds
    PROVE  /\ Cell(t) \in CellStates /\ ProcOf[t] \in Procs
           /\ Cell(t).st \in {"empty", "busy", "ok", "err"} /\ Cell(t).build \in Labels
           /\ Cell(t).keys \in BOOLEAN
           /\ Cell(t).init \in {"no", "ok", "failed"} /\ Cell(t).local \in {"no", "ok", "failed"}
<1>1. ProcOf[t] \in Procs
  BY ConstantsAssumption
<1>2. Cell(t) \in CellStates
  BY <1>1 DEF TypeOK, Cell
<1> QED
  BY <1>1, <1>2 DEF CellStates

\* Files that exist still exist, and are as they should be.
LEMMA FilesKeep ==
    ASSUME TypeOK, FilesInv, NEW t \in Threads, FilesStep(t)
    PROVE  /\ files' \in [Labels -> Bytes \cup {NoBytes}] /\ FilesInv'
           /\ \A l \in Labels : Exists(l) => Exists(l)'
<1>1. dest[t] \in Labels /\ files \in [Labels -> Bytes \cup {NoBytes}]
  BY DEF TypeOK
<1>2. CASE UNCHANGED files
  BY <1>1, <1>2 DEF FilesInv, VisibleIsWhole, QualifiedIsDecoded, Exists
<1>3. ASSUME NEW bytes \in Bytes, bytes.whole, dest[t] # Unqualified => ~bytes.zeroed,
             files' = Set(files, dest[t], bytes)
      PROVE  /\ files' \in [Labels -> Bytes \cup {NoBytes}] /\ FilesInv'
             /\ \A l \in Labels : Exists(l) => Exists(l)'
  <2>1. /\ files' \in [Labels -> Bytes \cup {NoBytes}] /\ files'[dest[t]] = bytes
        /\ \A l \in Labels : l # dest[t] => files'[l] = files[l]
    BY <1>1, <1>3 DEF Set
  <2>2. VisibleIsWhole'
    BY <1>3, <2>1 DEF FilesInv, VisibleIsWhole, Exists
  <2>3. QualifiedIsDecoded'
    BY <1>3, <2>1, BuildsAreNumbers DEF FilesInv, QualifiedIsDecoded, Unqualified
  <2>4. \A l \in Labels : Exists(l) => Exists(l)'
    BY <2>1, BytesAreSomething DEF Exists
  <2> QED
    BY <2>1, <2>2, <2>3, <2>4 DEF FilesInv
<1> QED
  BY <1>2, <1>3 DEF FilesStep

\* A ready state stays what it is, and a cell stays busy for everybody but the
\* thread that made it so.
LEMMA CellsKeep ==
    ASSUME Inv, NEW t \in Threads, CellStep(t)
    PROVE  /\ cells' \in [Procs -> [Builds -> CellStates]] /\ StatesInv'
           /\ \A p \in Procs, b \in Builds : cells[p][b].st = "ok" =>
                cells'[p][b].st = "ok" /\ cells'[p][b].build = cells[p][b].build
           /\ \A u \in Threads \ {t} : pc[u] \in Opening =>
                cells'[ProcOf[u]][key[u]].st = "busy"
<1>1. CASE UNCHANGED cells
  BY <1>1 DEF Inv, TypeOK, StatesInv, Shape, CellShape, Cell
<1>2. ASSUME NEW c \in CellStates, key[t] \in Builds, CellMay(t, c),
             c.st = "ok" => c.build \in Builds, SetCell(t, c)
      PROVE  /\ cells' \in [Procs -> [Builds -> CellStates]] /\ StatesInv'
             /\ \A p \in Procs, b \in Builds : cells[p][b].st = "ok" =>
                  cells'[p][b].st = "ok" /\ cells'[p][b].build = cells[p][b].build
             /\ \A u \in Threads \ {t} : pc[u] \in Opening =>
                  cells'[ProcOf[u]][key[u]].st = "busy"
  <2>1. /\ cells' \in [Procs -> [Builds -> CellStates]]
        /\ cells'[ProcOf[t]][key[t]] = c
        /\ \A p \in Procs, b \in Builds :
             p # ProcOf[t] \/ b # key[t] => cells'[p][b] = cells[p][b]
    BY <1>2, SetCellIs DEF Inv
  <2>2. pc[t] \in Opening => Cell(t).st = "busy"
    BY DEF Inv, Shape, CellShape
  <2>3. StatesInv'
    BY <1>2, <2>1 DEF Inv, StatesInv
  <2>4. \A p \in Procs, b \in Builds : cells[p][b].st = "ok" =>
          cells'[p][b].st = "ok" /\ cells'[p][b].build = cells[p][b].build
    BY <1>2, <2>1 DEF CellMay, Cell, Stands
  <2>5. ASSUME NEW u \in Threads \ {t}, pc[u] \in Opening
        PROVE  cells'[ProcOf[u]][key[u]].st = "busy"
    <3>1. cells[ProcOf[u]][key[u]].st = "busy" /\ key[u] \in Builds /\ ProcOf[u] \in Procs
      BY <2>5, ConstantsAssumption DEF Inv, Shape, CellShape, Cell, Keyed
    <3>2. CASE ProcOf[u] # ProcOf[t] \/ key[u] # key[t]
      BY <2>1, <3>1, <3>2
    <3>3. CASE ProcOf[u] = ProcOf[t] /\ key[u] = key[t]
      <4>1. pc[t] \in Opening
        BY <1>2, <3>1, <3>3 DEF CellMay, Cell, Stands
      <4>2. u = t
        BY <2>5, <3>3, <4>1 DEF Inv, AtMostOneInitializer, Opening
      <4> QED
        BY <2>5, <4>2
    <3> QED
      BY <3>2, <3>3
  <2> QED
    BY <2>1, <2>3, <2>4, <2>5
<1> QED
  BY <1>1, <1>2 DEF CellStep

\* What is left to show of a thread's step: its own shape, and that no other
\* thread works on the cell it has just entered.
LEMMA ThreadKeepsInv ==
    ASSUME Inv, NEW t \in Threads, TypeOK', OthersStay(t), CellStep(t), FilesStep(t), Shape(t)',
           pc'[t] \in Opening => (pc[t] \in Opening /\ key'[t] = key[t]) \/
               (key[t] \in Builds /\ Cell(t).st = "empty" /\ key'[t] = key[t])
    PROVE  Inv'
<1>1. StatesInv' /\ FilesInv'
  BY CellsKeep, FilesKeep DEF Inv
<1>2. ASSUME NEW u \in Threads \ {t}
      PROVE  Shape(u)'
  <2>1. /\ pc'[u] = pc[u] /\ op'[u] = op[u] /\ want'[u] = want[u] /\ dest'[u] = dest[u]
        /\ key'[u] = key[u] /\ seen'[u] = seen[u] /\ got'[u] = got[u] /\ temp'[u] = temp[u]
        /\ result'[u] = result[u]
    BY DEF OthersStay
  <2>2. CellShape(u) /\ CallShape(u) /\ WriteShape(u)
    BY DEF Inv, Shape
  <2>3. CellShape(u)'
    <3>1. pc[u] \in WithState => Cell(u)'.st = "ok"
      <4>1. pc[u] \in WithState => key[u] \in Builds /\ ProcOf[u] \in Procs /\ Cell(u).st = "ok"
        BY <2>2, ConstantsAssumption DEF CellShape, Keyed
      <4> QED
        BY <2>1, <4>1, CellsKeep DEF Cell
    <3>2. pc[u] \in Opening => Cell(u)'.st = "busy"
      BY <2>1, CellsKeep DEF Cell
    <3> QED
      BY <2>1, <2>2, <3>1, <3>2 DEF CellShape
  <2>4. CallShape(u)'
    BY <2>1, <2>2 DEF CallShape
  <2>5. WriteShape(u)'
    <3>1. files[dest[u]] # NoBytes => files'[dest[u]] # NoBytes
      BY FilesKeep DEF Inv, TypeOK, Exists
    <3> QED
      BY <2>1, <2>2, <3>1 DEF WriteShape, Returned, Exists
  <2> QED
    BY <2>3, <2>4, <2>5 DEF Shape
<1>3. AtMostOneInitializer'
  <2> SUFFICES ASSUME NEW u \in Threads, NEW v \in Threads, u # v,
                      pc'[u] \in Opening, pc'[v] \in Opening,
                      ProcOf[u] = ProcOf[v], key'[u] = key'[v]
               PROVE  FALSE
    BY DEF AtMostOneInitializer, Opening
  <2>1. ASSUME NEW w \in Threads \ {t}, pc'[w] \in Opening, pc'[t] \in Opening,
               ProcOf[w] = ProcOf[t], key'[w] = key'[t]
        PROVE  FALSE
    <3>1. pc[w] \in Opening /\ key[w] = key'[w]
      BY <2>1 DEF OthersStay
    <3>2. Cell(w).st = "busy"
      BY <3>1 DEF Inv, Shape, CellShape
    <3>3. CASE pc[t] \in Opening /\ key'[t] = key[t]
      BY <2>1, <3>1, <3>3 DEF Inv, AtMostOneInitializer, Opening
    <3>4. CASE Cell(t).st = "empty" /\ key'[t] = key[t]
      BY <2>1, <3>1, <3>2, <3>4 DEF Cell
    <3> QED
      BY <2>1, <3>3, <3>4
  <2>2. CASE u # t /\ v # t
    BY <2>2 DEF OthersStay, Inv, AtMostOneInitializer, Opening
  <2> QED
    BY <2>1, <2>2
<1> QED
  BY <1>1, <1>2, <1>3 DEF Inv

\* Call keeps every call in shape.
LEMMA CallKeepsInv ==
    ASSUME Inv, NEW t \in Threads, Call(t)
    PROVE  Inv'
<1>1. TypeOK'
  <2>1. PICK o \in {"ensure", "bytes", "warm"}, w \in Labels :
          /\ op' = Set(op, t, o) /\ want' = Set(want, t, w) /\ dest' = Set(dest, t, w)
          /\ pc' = Set(pc, t, IF o = "ensure" THEN "lookup" ELSE "key")
    BY DEF Call
  <2>2. calls' \in 0..MaxCalls
    BY ConstantsAssumption DEF Inv, TypeOK, Call
  <2>3. /\ op' \in [Threads -> {"ensure", "bytes", "warm"}]
        /\ want' \in [Threads -> Labels] /\ dest' \in [Threads -> Labels]
    BY <2>1 DEF Inv, TypeOK, Set
  <2>4. released \in Labels /\ (installed = Unreadable) \in BOOLEAN
    BY BuildsAreNumbers DEF Inv, TypeOK
  <2>5. /\ start' \in [Threads -> Labels] /\ disturbed' \in [Threads -> BOOLEAN]
        /\ result' \in [Threads -> {"none", "ok", "err"}]
        /\ got' \in [Threads -> Bytes \cup {NoBytes}]
    BY <2>4 DEF Inv, TypeOK, Set, Call
  <2> QED
    BY <2>1, <2>2, <2>3, <2>5 DEF Inv, TypeOK, Set, Call, disk, bounds
<1>2. OthersStay(t)
  BY DEF Inv, TypeOK, OthersStay, Call, Set, Goto, Return, disk, call, bounds
<1>3. CellStep(t) /\ FilesStep(t)
  BY DEF CellStep, FilesStep, Call, disk
<1>4. Shape(t)'
  <2>1. CellShape(t)'
    BY DEF Inv, TypeOK, Shape, CellShape, Cell, Opening, WithState, Keyed, Call, Set, Goto, Return, disk, call, bounds
  <2>2. CallShape(t)'
    BY BuildsAreNumbers DEF Inv, TypeOK, Shape, CallShape, Unqualified, Opening, WithState, Keyed, Writing, Call, Set, Goto, Return, disk, call, bounds
  <2>3. WriteShape(t)'
    BY DEF Inv, TypeOK, Shape, CallShape, WriteShape, Returned, Exists, Writing, Call, Set, Goto, Return, disk, call, bounds
  <2> QED
    BY <2>1, <2>2, <2>3 DEF Shape
<1>5. pc'[t] \notin Opening
  BY DEF Inv, TypeOK, Opening, Call, Set, Goto, Return, disk, call, bounds
<1> QED
  BY <1>1, <1>2, <1>3, <1>4, <1>5, ThreadKeepsInv

\* Lookup keeps every call in shape.
LEMMA LookupKeepsInv ==
    ASSUME Inv, NEW t \in Threads, Lookup(t)
    PROVE  Inv'
<1>1. TypeOK'
  BY BuildsAreNumbers DEF Inv, TypeOK, Lookup, Set, Goto, Return, disk, call, bounds
<1>2. OthersStay(t)
  BY DEF Inv, TypeOK, OthersStay, Lookup, Set, Goto, Return, disk, call, bounds
<1>3. CellStep(t) /\ FilesStep(t)
  BY DEF CellStep, FilesStep, Lookup, disk
<1>4. Shape(t)'
  <2>1. CellShape(t)'
    BY DEF Inv, TypeOK, Shape, CellShape, Cell, Opening, WithState, Keyed, Lookup, Set, Goto, Return, disk, call, bounds
  <2>2. CallShape(t)'
    BY BuildsAreNumbers DEF Inv, TypeOK, Shape, CallShape, Unqualified, Opening, WithState, Keyed, Writing, Lookup, Set, Goto, Return, disk, call, bounds
  <2>3. WriteShape(t)'
    BY DEF Inv, TypeOK, Shape, CallShape, WriteShape, Returned, Exists, Writing, Lookup, Set, Goto, Return, disk, call, bounds
  <2> QED
    BY <2>1, <2>2, <2>3 DEF Shape
<1>5. pc'[t] \notin Opening
  BY DEF Inv, TypeOK, Opening, Lookup, Set, Goto, Return, disk, call, bounds
<1> QED
  BY <1>1, <1>2, <1>3, <1>4, <1>5, ThreadKeepsInv

\* Current keeps every call in shape.
LEMMA CurrentKeepsInv ==
    ASSUME Inv, NEW t \in Threads, Current(t)
    PROVE  Inv'
<1>1. TypeOK'
  BY BuildsAreNumbers DEF Inv, TypeOK, Current, Set, Goto, Return, disk, call, bounds, Unreadable
<1>2. OthersStay(t)
  BY DEF Inv, TypeOK, OthersStay, Current, Set, Goto, Return, disk, call, bounds, Unreadable
<1>3. CellStep(t) /\ FilesStep(t)
  BY DEF CellStep, FilesStep, Current, disk, Unreadable
<1>4. Shape(t)'
  <2>1. CellShape(t)'
    BY DEF Inv, TypeOK, Shape, CellShape, Cell, Opening, WithState, Keyed, Current, Set, Goto, Return, disk, call, bounds, Unreadable
  <2>2. CallShape(t)'
    BY BuildsAreNumbers DEF Inv, TypeOK, Shape, CallShape, Unqualified, Opening, WithState, Keyed, Writing, Current, Set, Goto, Return, disk, call, bounds, Unreadable
  <2>3. WriteShape(t)'
    BY DEF Inv, TypeOK, Shape, CallShape, WriteShape, Returned, Exists, Writing, Current, Set, Goto, Return, disk, call, bounds, Unreadable
  <2> QED
    BY <2>1, <2>2, <2>3 DEF Shape
<1>5. pc'[t] \notin Opening
  BY DEF Inv, TypeOK, Opening, Current, Set, Goto, Return, disk, call, bounds, Unreadable
<1> QED
  BY <1>1, <1>2, <1>3, <1>4, <1>5, ThreadKeepsInv

\* Recheck keeps every call in shape.
LEMMA RecheckKeepsInv ==
    ASSUME Inv, NEW t \in Threads, Recheck(t)
    PROVE  Inv'
<1>1. TypeOK'
  BY BuildsAreNumbers DEF Inv, TypeOK, Recheck, Set, Goto, Return, disk, call, bounds
<1>2. OthersStay(t)
  BY DEF Inv, TypeOK, OthersStay, Recheck, Set, Goto, Return, disk, call, bounds
<1>3. CellStep(t) /\ FilesStep(t)
  BY DEF CellStep, FilesStep, Recheck, disk
<1>4. Shape(t)'
  <2>1. CellShape(t)'
    BY DEF Inv, TypeOK, Shape, CellShape, Cell, Opening, WithState, Keyed, Recheck, Set, Goto, Return, disk, call, bounds
  <2>2. CallShape(t)'
    BY BuildsAreNumbers DEF Inv, TypeOK, Shape, CallShape, Unqualified, Opening, WithState, Keyed, Writing, Recheck, Set, Goto, Return, disk, call, bounds
  <2>3. WriteShape(t)'
    BY DEF Inv, TypeOK, Shape, CallShape, WriteShape, Returned, Exists, Writing, Recheck, Set, Goto, Return, disk, call, bounds
  <2> QED
    BY <2>1, <2>2, <2>3 DEF Shape
<1>5. pc'[t] \notin Opening
  BY DEF Inv, TypeOK, Opening, Recheck, Set, Goto, Return, disk, call, bounds
<1> QED
  BY <1>1, <1>2, <1>3, <1>4, <1>5, ThreadKeepsInv

\* GetKey keeps every call in shape.
LEMMA GetKeyKeepsInv ==
    ASSUME Inv, NEW t \in Threads, GetKey(t)
    PROVE  Inv'
<1>1. TypeOK'
  BY BuildsAreNumbers DEF Inv, TypeOK, GetKey, Set, Goto, Return, disk, call, bounds, Unreadable
<1>2. OthersStay(t)
  BY DEF Inv, TypeOK, OthersStay, GetKey, Set, Goto, Return, disk, call, bounds, Unreadable
<1>3. CellStep(t) /\ FilesStep(t)
  BY DEF CellStep, FilesStep, GetKey, disk, Unreadable
<1>4. Shape(t)'
  <2>1. CellShape(t)'
    BY DEF Inv, TypeOK, Shape, CellShape, Cell, Opening, WithState, Keyed, GetKey, Set, Goto, Return, disk, call, bounds, Unreadable
  <2>2. CallShape(t)'
    BY BuildsAreNumbers DEF Inv, TypeOK, Shape, CallShape, Unqualified, Opening, WithState, Keyed, Writing, GetKey, Set, Goto, Return, disk, call, bounds, Unreadable
  <2>3. WriteShape(t)'
    BY DEF Inv, TypeOK, Shape, CallShape, WriteShape, Returned, Exists, Writing, GetKey, Set, Goto, Return, disk, call, bounds, Unreadable
  <2> QED
    BY <2>1, <2>2, <2>3 DEF Shape
<1>5. pc'[t] \notin Opening
  BY DEF Inv, TypeOK, Opening, GetKey, Set, Goto, Return, disk, call, bounds, Unreadable
<1> QED
  BY <1>1, <1>2, <1>3, <1>4, <1>5, ThreadKeepsInv

\* ReadAbsent keeps every call in shape.
LEMMA ReadAbsentKeepsInv ==
    ASSUME Inv, NEW t \in Threads, ReadAbsent(t)
    PROVE  Inv'
<1>1. TypeOK'
  BY BuildsAreNumbers DEF Inv, TypeOK, ReadAbsent, Set, Goto, Return, disk, call, bounds
<1>2. OthersStay(t)
  BY DEF Inv, TypeOK, OthersStay, ReadAbsent, Set, Goto, Return, disk, call, bounds
<1>3. CellStep(t) /\ FilesStep(t)
  BY DEF CellStep, FilesStep, ReadAbsent, disk
<1>4. Shape(t)'
  <2>1. CellShape(t)'
    BY DEF Inv, TypeOK, Shape, CellShape, Cell, Opening, WithState, Keyed, ReadAbsent, Set, Goto, Return, disk, call, bounds
  <2>2. CallShape(t)'
    BY BuildsAreNumbers DEF Inv, TypeOK, Shape, CallShape, Unqualified, Opening, WithState, Keyed, Writing, ReadAbsent, Set, Goto, Return, disk, call, bounds
  <2>3. WriteShape(t)'
    BY DEF Inv, TypeOK, Shape, CallShape, WriteShape, Returned, Exists, Writing, ReadAbsent, Set, Goto, Return, disk, call, bounds
  <2> QED
    BY <2>1, <2>2, <2>3 DEF Shape
<1>5. pc'[t] \notin Opening
  BY DEF Inv, TypeOK, Opening, ReadAbsent, Set, Goto, Return, disk, call, bounds
<1> QED
  BY <1>1, <1>2, <1>3, <1>4, <1>5, ThreadKeepsInv

\* StartWrite keeps every call in shape.
LEMMA StartWriteKeepsInv ==
    ASSUME Inv, NEW t \in Threads, StartWrite(t)
    PROVE  Inv'
<1>1. TypeOK'
  <2>1. got[t] \in Bytes
    BY DEF Inv, Shape, WriteShape, Writing, StartWrite
  <2>2. [got[t] EXCEPT !.whole = FALSE] \in Bytes
    BY <2>1 DEF Bytes
  <2>3. temp' \in [Threads -> Bytes \cup {NoBytes}]
    BY <2>2 DEF Inv, TypeOK, Set, StartWrite
  <2> QED
    BY <2>3 DEF Inv, TypeOK, Set, Goto, StartWrite, disk, call, bounds
<1>2. OthersStay(t)
  BY DEF Inv, TypeOK, OthersStay, StartWrite, Set, Goto, Return, disk, call, bounds, Bytes
<1>3. CellStep(t) /\ FilesStep(t)
  BY DEF CellStep, FilesStep, StartWrite, disk, Bytes
<1>4. Shape(t)'
  <2>1. CellShape(t)'
    BY DEF Inv, TypeOK, Shape, CellShape, Cell, Opening, WithState, Keyed, StartWrite, Set, Goto, Return, disk, call, bounds, Bytes
  <2>2. CallShape(t)'
    BY BuildsAreNumbers DEF Inv, TypeOK, Shape, CallShape, Unqualified, Opening, WithState, Keyed, Writing, StartWrite, Set, Goto, Return, disk, call, bounds, Bytes
  <2>3. WriteShape(t)'
    BY DEF Inv, TypeOK, Shape, CallShape, WriteShape, Returned, Exists, Writing, StartWrite, Set, Goto, Return, disk, call, bounds, Bytes
  <2> QED
    BY <2>1, <2>2, <2>3 DEF Shape
<1>5. pc'[t] \notin Opening
  BY DEF Inv, TypeOK, Opening, StartWrite, Set, Goto, Return, disk, call, bounds, Bytes
<1> QED
  BY <1>1, <1>2, <1>3, <1>4, <1>5, ThreadKeepsInv

\* FinishWrite keeps every call in shape.
LEMMA FinishWriteKeepsInv ==
    ASSUME Inv, NEW t \in Threads, FinishWrite(t)
    PROVE  Inv'
<1>1. TypeOK'
  BY BuildsAreNumbers DEF Inv, TypeOK, FinishWrite, Set, Goto, Return, disk, call, bounds
<1>2. OthersStay(t)
  BY DEF Inv, TypeOK, OthersStay, FinishWrite, Set, Goto, Return, disk, call, bounds
<1>3. CellStep(t) /\ FilesStep(t)
  BY DEF CellStep, FilesStep, FinishWrite, disk
<1>4. Shape(t)'
  <2>1. CellShape(t)'
    BY DEF Inv, TypeOK, Shape, CellShape, Cell, Opening, WithState, Keyed, FinishWrite, Set, Goto, Return, disk, call, bounds
  <2>2. CallShape(t)'
    BY BuildsAreNumbers DEF Inv, TypeOK, Shape, CallShape, Unqualified, Opening, WithState, Keyed, Writing, FinishWrite, Set, Goto, Return, disk, call, bounds
  <2>3. WriteShape(t)'
    BY DEF Inv, TypeOK, Shape, CallShape, WriteShape, Returned, Exists, Writing, FinishWrite, Set, Goto, Return, disk, call, bounds
  <2> QED
    BY <2>1, <2>2, <2>3 DEF Shape
<1>5. pc'[t] \notin Opening
  BY DEF Inv, TypeOK, Opening, FinishWrite, Set, Goto, Return, disk, call, bounds
<1> QED
  BY <1>1, <1>2, <1>3, <1>4, <1>5, ThreadKeepsInv

\* DiskError keeps every call in shape.
LEMMA DiskErrorKeepsInv ==
    ASSUME Inv, NEW t \in Threads, DiskError(t)
    PROVE  Inv'
<1>1. TypeOK'
  <2>1. faults' \in 0..MaxFaults
    BY ConstantsAssumption DEF Inv, TypeOK, DiskError, Fault
  <2> QED
    BY <2>1 DEF Inv, TypeOK, Set, Return, DiskError, Fault, disk, call
<1>2. OthersStay(t)
  BY DEF Inv, TypeOK, OthersStay, DiskError, Set, Goto, Return, disk, call, bounds, Fault
<1>3. CellStep(t) /\ FilesStep(t)
  BY DEF CellStep, FilesStep, DiskError, disk, Fault
<1>4. Shape(t)'
  <2>1. CellShape(t)'
    BY DEF Inv, TypeOK, Shape, CellShape, Cell, Opening, WithState, Keyed, DiskError, Set, Goto, Return, disk, call, bounds, Fault
  <2>2. CallShape(t)'
    BY BuildsAreNumbers DEF Inv, TypeOK, Shape, CallShape, Unqualified, Opening, WithState, Keyed, Writing, DiskError, Set, Goto, Return, disk, call, bounds, Fault
  <2>3. WriteShape(t)'
    BY DEF Inv, TypeOK, Shape, CallShape, WriteShape, Returned, Exists, Writing, DiskError, Set, Goto, Return, disk, call, bounds, Fault
  <2> QED
    BY <2>1, <2>2, <2>3 DEF Shape
<1>5. pc'[t] \notin Opening
  BY DEF Inv, TypeOK, Opening, DiskError, Set, Goto, Return, disk, call, bounds, Fault
<1> QED
  BY <1>1, <1>2, <1>3, <1>4, <1>5, ThreadKeepsInv

\* A thread whose step sets its cell and does not touch bytes or files.
LEMMA CellStepKeepsInv ==
    ASSUME Inv, NEW t \in Threads, key[t] \in Builds,
           NEW c \in CellStates, CellMay(t, c), c.st = "ok" => c.build \in Builds, SetCell(t, c),
           NEW p \in Opening \cup WithState \cup {"done"}, pc' = Set(pc, t, p),
           NEW r \in {"none", "ok", "err"}, result' = Set(result, t, r),
           UNCHANGED <<installed, released, keyKnown, files, dest, key, got, temp, call>>,
           UNCHANGED <<patches, kills>>,
           tables' \in SUBSET Builds, faults' \in 0..MaxFaults,
           seen' \in [Threads -> Labels], \A u \in Threads \ {t} : seen'[u] = seen[u],
           p \in Opening => c.st = "busy" /\ (Cell(t).st = "empty" \/ pc[t] \in Opening),
           p \in {"keys", "tables"} => seen'[t] \in Builds,
           p \in WithState => c.st = "ok",
           p = "warm" => op[t] = "warm",
           p = "read" => op[t] # "warm",
           p = "done" /\ r = "ok" => op[t] # "ensure"
    PROVE  Inv'
<1>1. /\ cells' \in [Procs -> [Builds -> CellStates]] /\ cells'[ProcOf[t]][key[t]] = c
  BY SetCellIs DEF Inv
<1>2. pc'[t] = p /\ result'[t] = r
  BY DEF Inv, TypeOK, Set
<1>3. TypeOK'
  BY <1>1 DEF Inv, TypeOK, Set, call, Opening, WithState
<1>4. OthersStay(t)
  BY DEF Inv, TypeOK, OthersStay, Set, call
<1>5. CellStep(t) /\ FilesStep(t)
  BY DEF CellStep, FilesStep
<1>6. Shape(t)'
  <2>1. CellShape(t)'
    BY <1>1, <1>2 DEF CellShape, Cell, Opening, WithState, Keyed
  <2>2. CallShape(t)'
    BY <1>2 DEF Inv, Shape, CallShape, Opening, WithState, Writing, call
  <2>3. WriteShape(t)'
    BY <1>2 DEF WriteShape, Returned, Opening, WithState, Writing, call
  <2> QED
    BY <2>1, <2>2, <2>3 DEF Shape
<1> QED
  BY <1>2, <1>3, <1>4, <1>5, <1>6, ThreadKeepsInv

\* A thread that keeps its cell as it is, and goes on or returns an error.
LEMMA GoOnKeepsInv ==
    ASSUME Inv, NEW t \in Threads, NEW p \in WithState \cup {"done"}, pc' = Set(pc, t, p),
           NEW r \in {"none", "ok", "err"}, result' = Set(result, t, r),
           UNCHANGED <<disk, cells, dest, key, seen, got, temp, call>>, UNCHANGED <<patches, kills>>,
           faults' \in 0..MaxFaults,
           p \in WithState => key[t] \in Builds /\ Cell(t).st = "ok",
           p = "warm" => op[t] = "warm",
           p = "read" => op[t] # "warm",
           p = "done" => r = "err"
    PROVE  Inv'
<1>1. pc'[t] = p /\ result'[t] = r
  BY DEF Inv, TypeOK, Set
<1>2. TypeOK'
  BY DEF Inv, TypeOK, Set, call, disk, WithState
<1>3. OthersStay(t)
  BY DEF Inv, TypeOK, OthersStay, Set, call
<1>4. CellStep(t) /\ FilesStep(t)
  BY DEF CellStep, FilesStep, disk
<1>5. Shape(t)'
  <2>1. CellShape(t)'
    BY <1>1 DEF CellShape, Cell, Opening, WithState, Keyed
  <2>2. CallShape(t)'
    BY <1>1 DEF Inv, Shape, CallShape, WithState, Writing, call
  <2>3. WriteShape(t)'
    BY <1>1 DEF WriteShape, Returned, WithState, Writing
  <2> QED
    BY <2>1, <2>2, <2>3 DEF Shape
<1> QED
  BY <1>1, <1>2, <1>3, <1>4, <1>5, ThreadKeepsInv DEF WithState, Opening

\* What holds of a thread that has a key.
LEMMA AtCell ==
    ASSUME Inv, NEW t \in Threads, pc[t] \in Keyed
    PROVE  /\ key[t] \in Builds /\ Cell(t) \in CellStates
           /\ result[t] \in {"none", "ok", "err"}
           /\ (result' = result => result' = Set(result, t, result[t]))
           /\ faults \in 0..MaxFaults /\ tables \in SUBSET Builds
           /\ seen \in [Threads -> Labels] /\ seen[t] \in Labels
           /\ pc[t] \in Opening => Cell(t).st = "busy"
           /\ pc[t] \in WithState => Cell(t).st = "ok" /\ Cell(t).build \in Builds
<1>1. key[t] \in Builds
  BY DEF Inv, Shape, CellShape
<1>2. ProcOf[t] \in Procs
  BY ConstantsAssumption
<1>3. /\ pc[t] \in Opening => Cell(t).st = "busy"
      /\ pc[t] \in WithState => Cell(t).st = "ok"
  BY DEF Inv, Shape, CellShape
<1>4. Cell(t).st = "ok" => Cell(t).build \in Builds
  BY <1>1, <1>2 DEF Inv, StatesInv, Cell
<1>5. result' = result => result' = Set(result, t, result[t])
  BY DEF Inv, TypeOK, Set
<1> QED
  BY <1>1, <1>3, <1>4, <1>5, CellIs DEF Inv, TypeOK

\* An initializer that fails stores its error and returns it.
LEMMA FailCellKeepsInv ==
    ASSUME Inv, NEW t \in Threads, pc[t] \in Opening, FailCell(t),
           UNCHANGED <<disk, dest, key, seen, got, temp, call>>, UNCHANGED <<patches, kills>>,
           faults' \in 0..MaxFaults
    PROVE  Inv'
<1> DEFINE c == [Cell(t) EXCEPT !.st = "err"]
<1>1. pc[t] \in Keyed
  BY DEF Keyed
<1>2. c \in CellStates /\ c.st = "err"
  BY <1>1, AtCell DEF CellStates
<1>3. SetCell(t, c) /\ pc' = Set(pc, t, "done") /\ result' = Set(result, t, "err")
  BY DEF FailCell, Return
<1>4. CellMay(t, c)
  BY <1>1, AtCell DEF CellMay
<1> HIDE DEF c
<1> QED
  BY <1>1, <1>2, <1>3, <1>4, AtCell, CellStepKeepsInv DEF disk, Opening, WithState

\* EnterCell keeps every call in shape.
LEMMA EnterCellKeepsInv ==
    ASSUME Inv, NEW t \in Threads, EnterCell(t)
    PROVE  Inv'
<1>1. pc[t] \in Keyed
  BY DEF Keyed, EnterCell
<1>2. CASE Cell(t).st = "empty" /\ SetCell(t, [Cell(t) EXCEPT !.st = "busy"]) /\ Goto(t, "open")
  <2> DEFINE c == [Cell(t) EXCEPT !.st = "busy"]
  <2>1. c \in CellStates /\ c.st = "busy" /\ CellMay(t, c)
    BY <1>1, <1>2, AtCell DEF CellStates, CellMay
  <2>2. SetCell(t, c) /\ pc' = Set(pc, t, "open") /\ result' = Set(result, t, result[t])
    BY <1>1, <1>2, AtCell DEF Goto
  <2> HIDE DEF c
  <2> QED
    BY <1>1, <1>2, <2>1, <2>2, AtCell, CellStepKeepsInv DEF disk, bounds, Opening, WithState, EnterCell
<1>3. CASE Cell(t).st = "ok" /\ Goto(t, "init") /\ UNCHANGED cells
  BY <1>1, <1>3, AtCell, GoOnKeepsInv DEF Goto, bounds, WithState, EnterCell
<1>4. CASE Cell(t).st = "err" /\ Return(t, "err") /\ UNCHANGED cells
  BY <1>1, <1>4, AtCell, GoOnKeepsInv DEF Return, bounds, WithState, EnterCell
<1> QED
  BY <1>2, <1>3, <1>4 DEF EnterCell

\* OpenState keeps every call in shape.
LEMMA OpenStateKeepsInv ==
    ASSUME Inv, NEW t \in Threads, OpenState(t)
    PROVE  Inv'
<1>1. pc[t] \in Keyed /\ pc[t] = "open" /\ pc[t] \in Opening
  BY DEF Keyed, Opening, OpenState
<1>2. CASE installed = Unreadable
  BY <1>1, <1>2, AtCell, FailCellKeepsInv DEF OpenState, bounds
<1>3. CASE installed # Unreadable
  <2>1. installed \in Builds /\ installed \in Labels
    BY <1>3, BuildsAreNumbers DEF Inv, TypeOK
  <2>2. TypeOK'
    BY <1>3, <2>1 DEF Inv, TypeOK, OpenState, Set, Goto, disk, call, bounds
  <2>3. OthersStay(t)
    BY <1>3 DEF Inv, TypeOK, OthersStay, OpenState, Set, Goto, disk, call
  <2>4. CellStep(t) /\ FilesStep(t)
    BY <1>3 DEF CellStep, FilesStep, OpenState, disk
  <2>5. pc'[t] = "keys" /\ seen'[t] \in Builds /\ UNCHANGED <<cells, key, call, got, temp, dest, files>>
    BY <1>3, <2>1 DEF Inv, TypeOK, OpenState, Set, Goto, disk
  <2>6. Shape(t)'
    BY <1>1, <2>5 DEF Inv, Shape, CellShape, CallShape, WriteShape, Returned, Cell,
                      Opening, WithState, Keyed, Writing, call
  <2> QED
    BY <1>1, <2>2, <2>3, <2>4, <2>5, <2>6, ThreadKeepsInv
<1> QED
  BY <1>2, <1>3

\* LoadKeys keeps every call in shape.
LEMMA LoadKeysKeepsInv ==
    ASSUME Inv, NEW t \in Threads, LoadKeys(t)
    PROVE  Inv'
<1>1. pc[t] \in Keyed /\ pc[t] = "keys" /\ pc[t] \in Opening
  BY DEF Keyed, Opening, LoadKeys
<1>2. CASE installed # seen[t]
  BY <1>1, <1>2, AtCell, FailCellKeepsInv DEF LoadKeys, bounds
<1>3. CASE installed = seen[t]
  <2> DEFINE c == [Cell(t) EXCEPT !.keys = keyKnown]
  <2>1. c \in CellStates /\ c.st = "busy" /\ CellMay(t, c)
    BY <1>1, AtCell DEF CellStates, CellMay, Inv, TypeOK
  <2>2. SetCell(t, c) /\ pc' = Set(pc, t, "tables") /\ result' = Set(result, t, result[t])
    BY <1>1, <1>3, AtCell DEF Goto, LoadKeys
  <2>3. seen[t] \in Builds
    BY <1>1 DEF Inv, Shape, CellShape
  <2> HIDE DEF c
  <2> QED
    BY <1>1, <2>1, <2>2, <2>3, AtCell, CellStepKeepsInv DEF disk, bounds, Opening, WithState, LoadKeys
<1> QED
  BY <1>2, <1>3

\* OpenTables keeps every call in shape.
LEMMA OpenTablesKeepsInv ==
    ASSUME Inv, NEW t \in Threads, OpenTables(t)
    PROVE  Inv'
<1>1. pc[t] \in Keyed /\ pc[t] = "tables" /\ pc[t] \in Opening
  BY DEF Keyed, Opening, OpenTables
<1>2. CASE seen[t] \notin tables /\ installed # seen[t]
  BY <1>1, <1>2, AtCell, FailCellKeepsInv DEF OpenTables, disk, bounds
<1>3. CASE ~(seen[t] \notin tables /\ installed # seen[t])
  <2> DEFINE c == [Cell(t) EXCEPT !.st = "ok", !.build = seen[t]]
  <2>1. seen[t] \in Builds
    BY <1>1 DEF Inv, Shape, CellShape
  <2>2. c \in CellStates /\ c.st = "ok" /\ c.build = seen[t] /\ CellMay(t, c)
    BY <1>1, AtCell DEF CellStates, CellMay
  <2>3. /\ SetCell(t, c) /\ pc' = Set(pc, t, "init") /\ result' = Set(result, t, result[t])
        /\ tables' = tables \cup {seen[t]}
    BY <1>1, <1>3, AtCell DEF Goto, OpenTables
  <2> HIDE DEF c
  <2>4. tables' \in SUBSET Builds
    BY <1>1, <2>1, <2>3, AtCell
  <2> QED
    BY <1>1, <2>1, <2>2, <2>3, <2>4, AtCell, CellStepKeepsInv DEF bounds, Opening, WithState, OpenTables
<1> QED
  BY <1>2, <1>3

\* EnsureInitialized keeps every call in shape.
LEMMA EnsureInitializedKeepsInv ==
    ASSUME Inv, NEW t \in Threads, EnsureInitialized(t)
    PROVE  Inv'
<1>1. pc[t] \in Keyed /\ pc[t] = "init" /\ pc[t] \in WithState
  BY DEF Keyed, WithState, EnsureInitialized
<1>2. CASE Cell(t).init = "failed"
  BY <1>1, <1>2, AtCell, GoOnKeepsInv DEF Return, bounds, WithState, EnsureInitialized
<1>3. CASE Cell(t).init # "failed"
  <2> DEFINE c == [Cell(t) EXCEPT !.init = "ok"]
             p == IF op[t] = "warm" THEN "warm" ELSE "read"
  <2>1. c \in CellStates /\ c.st = "ok" /\ c.build \in Builds /\ CellMay(t, c)
    BY <1>1, <1>3, AtCell DEF CellStates, CellMay, Stands
  <2>2. SetCell(t, c) /\ pc' = Set(pc, t, p) /\ result' = Set(result, t, result[t])
    BY <1>1, <1>3, AtCell DEF Goto, EnsureInitialized
  <2>3. p \in WithState /\ (p = "warm" <=> op[t] = "warm")
    BY DEF WithState
  <2> HIDE DEF c, p
  <2> QED
    BY <1>1, <2>1, <2>2, <2>3, AtCell, CellStepKeepsInv DEF disk, bounds, Opening, WithState, EnsureInitialized
<1> QED
  BY <1>2, <1>3

\* The key-aware access of a state was tried.
LEMMA LocalKeepsInv ==
    ASSUME Inv, NEW t \in Threads, pc[t] \in WithState, NEW l \in {"ok", "failed"},
           SetCell(t, [Cell(t) EXCEPT !.local = l]), Cell(t).local \in {"no", l},
           NEW r \in {"ok", "err"}, Return(t, r), r = "ok" => op[t] = "warm",
           UNCHANGED <<disk, dest, key, seen, got, temp, call>>, UNCHANGED <<patches, kills>>,
           faults' \in 0..MaxFaults
    PROVE  Inv'
<1> DEFINE c == [Cell(t) EXCEPT !.local = l]
<1>1. pc[t] \in Keyed
  BY DEF Keyed
<1>2. c \in CellStates /\ c.st = "ok" /\ c.build \in Builds /\ CellMay(t, c)
  BY <1>1, AtCell DEF CellStates, CellMay, Stands
<1>3. SetCell(t, c) /\ pc' = Set(pc, t, "done") /\ result' = Set(result, t, r)
  BY DEF Return
<1> HIDE DEF c
<1> QED
  BY <1>1, <1>2, <1>3, AtCell, CellStepKeepsInv DEF disk, Opening, WithState

\* Opening the key-aware access settles it, unless it is settled.
LEMMA OpenLocalIs ==
    ASSUME Inv, NEW t \in Threads, pc[t] \in Keyed, OpenLocal(t)
    PROVE  \E l \in {"ok", "failed"} :
             SetCell(t, [Cell(t) EXCEPT !.local = l]) /\ Cell(t).local \in {"no", l}
<1>1. Cell(t).local \in {"no", "ok", "failed"}
  BY AtCell DEF CellStates
<1>2. SetCell(t, [Cell(t) EXCEPT !.local = IF Cell(t).local = "no" THEN "ok" ELSE Cell(t).local])
  BY DEF OpenLocal
<1>3. CASE Cell(t).local = "failed"
  BY <1>2, <1>3
<1>4. CASE Cell(t).local \in {"no", "ok"}
  BY <1>2, <1>4
<1> QED
  BY <1>1, <1>3, <1>4

\* Warm keeps every call in shape.
LEMMA WarmKeepsInv ==
    ASSUME Inv, NEW t \in Threads, Warm(t)
    PROVE  Inv'
<1>1. pc[t] \in Keyed /\ pc[t] \in WithState /\ pc[t] = "warm"
  BY DEF Keyed, WithState, Warm
<1>2. op[t] = "warm"
  BY <1>1 DEF Inv, Shape, CallShape
<1>3. PICK l \in {"ok", "failed"} :
        SetCell(t, [Cell(t) EXCEPT !.local = l]) /\ Cell(t).local \in {"no", l}
  BY <1>1, OpenLocalIs DEF Warm
<1> QED
  BY <1>1, <1>2, <1>3, AtCell, LocalKeepsInv DEF Warm, bounds

\* CascError keeps every call in shape.
LEMMA CascErrorKeepsInv ==
    ASSUME Inv, NEW t \in Threads, CascError(t)
    PROVE  Inv'
<1>1. faults' \in 0..MaxFaults
  BY ConstantsAssumption DEF Inv, TypeOK, CascError, Fault
<1>2. UNCHANGED <<disk, dest, key, seen, got, temp, call>> /\ UNCHANGED <<patches, kills>>
  BY DEF CascError, Fault
<1>3. CASE pc[t] \in {"open", "keys", "tables"} /\ FailCell(t)
  BY <1>1, <1>2, <1>3, FailCellKeepsInv DEF Opening
<1>4. CASE /\ pc[t] = "init" /\ Cell(t).init = "no"
           /\ SetCell(t, [Cell(t) EXCEPT !.init = "failed"])
           /\ Return(t, "err")
  <2> DEFINE c == [Cell(t) EXCEPT !.init = "failed"]
  <2>1. pc[t] \in Keyed /\ pc[t] \in WithState
    BY <1>4 DEF Keyed, WithState
  <2>2. c \in CellStates /\ c.st = "ok" /\ c.build \in Builds /\ CellMay(t, c)
    BY <1>4, <2>1, AtCell DEF CellStates, CellMay, Stands
  <2>3. SetCell(t, c) /\ pc' = Set(pc, t, "done") /\ result' = Set(result, t, "err")
    BY <1>4 DEF Return
  <2> HIDE DEF c
  <2> QED
    BY <1>1, <1>2, <2>1, <2>2, <2>3, AtCell, CellStepKeepsInv DEF disk, Opening, WithState
<1>5. CASE /\ pc[t] = "warm" /\ Cell(t).local = "no"
           /\ SetCell(t, [Cell(t) EXCEPT !.local = "failed"])
           /\ Return(t, "ok")
  <2>1. op[t] = "warm" /\ pc[t] \in WithState
    BY <1>5 DEF Inv, Shape, CallShape, WithState
  <2> QED
    BY <1>1, <1>2, <1>5, <2>1, LocalKeepsInv
<1>6. CASE /\ pc[t] = "read" /\ Cell(t).local = "no"
           /\ SetCell(t, [Cell(t) EXCEPT !.local = "failed"])
           /\ Return(t, "err")
  <2>1. pc[t] \in WithState
    BY <1>6 DEF WithState
  <2> QED
    BY <1>1, <1>2, <1>6, <2>1, LocalKeepsInv
<1>7. CASE pc[t] = "read" /\ OpenLocal(t) /\ Return(t, "err")
  <2>1. pc[t] \in WithState /\ pc[t] \in Keyed
    BY <1>7 DEF WithState, Keyed
  <2>2. PICK l \in {"ok", "failed"} :
          SetCell(t, [Cell(t) EXCEPT !.local = l]) /\ Cell(t).local \in {"no", l}
    BY <1>7, <2>1, OpenLocalIs
  <2> QED
    BY <1>1, <1>2, <1>7, <2>1, <2>2, LocalKeepsInv
<1> QED
  BY <1>3, <1>4, <1>5, <1>6, <1>7 DEF CascError

\* What is read is a file of the state's build, or an error.
LEMMA ReadKeepsInv ==
    ASSUME Inv, NEW t \in Threads, pc[t] = "read",
           got' = Set(got, t, Decoded(Cell(t))), Accept(t, Decoded(Cell(t))),
           CellStep(t), cells' \in [Procs -> [Builds -> CellStates]],
           UNCHANGED <<disk, dest, key, seen, temp, call>>, UNCHANGED <<patches, kills>>,
           faults' \in 0..MaxFaults
    PROVE  Inv'
<1> DEFINE bytes == Decoded(Cell(t))
<1>1. pc[t] \in Keyed /\ pc[t] \in WithState
  BY DEF Keyed, WithState
<1>2. Cell(t).build \in Builds /\ Cell(t).keys \in BOOLEAN
  BY <1>1, AtCell DEF CellStates
<1>3. bytes \in Bytes /\ bytes.whole
  BY <1>2 DEF Decoded, Bytes
<1>4. got' = Set(got, t, bytes) /\ Accept(t, bytes)
  OBVIOUS
<1> HIDE DEF bytes
<1>5. op[t] \in {"bytes", "ensure"}
  BY DEF Inv, TypeOK, Shape, CallShape
<1>6. \/ pc' = Set(pc, t, "done") /\ result' = Set(result, t, "ok") /\ op[t] = "bytes"
      \/ pc' = Set(pc, t, "done") /\ result' = Set(result, t, "err")
      \/ /\ pc' = Set(pc, t, "write") /\ result' = result /\ op[t] = "ensure"
         /\ want[t] # Unqualified => ~bytes.zeroed
  BY <1>4, <1>5 DEF Accept, Return, Goto
<1>7. PICK p \in {"write", "done"}, r \in {"none", "ok", "err"} :
        /\ pc' = Set(pc, t, p) /\ result' = Set(result, t, r)
        /\ p = "write" => op[t] = "ensure" /\ (want[t] # Unqualified => ~bytes.zeroed)
        /\ p = "done" /\ r = "ok" => op[t] = "bytes"
  BY <1>1, <1>6, AtCell
<1>8. pc'[t] = p /\ result'[t] = r /\ got'[t] = bytes
  BY <1>4, <1>7 DEF Inv, TypeOK, Set
<1>9. TypeOK'
  BY <1>3, <1>4, <1>7 DEF Inv, TypeOK, Set, call, disk
<1>10. OthersStay(t)
  BY <1>4, <1>7 DEF Inv, TypeOK, OthersStay, Set, call
<1>11. FilesStep(t)
  BY DEF FilesStep, disk
<1>12. Shape(t)'
  <2>1. CellShape(t)'
    BY <1>8 DEF CellShape, Opening, WithState, Keyed
  <2>2. CallShape(t)'
    BY <1>7, <1>8 DEF Inv, Shape, CallShape, Writing, call
  <2>3. WriteShape(t)'
    BY <1>3, <1>7, <1>8 DEF WriteShape, Returned, Writing, call
  <2> QED
    BY <2>1, <2>2, <2>3 DEF Shape
<1> QED
  BY <1>8, <1>9, <1>10, <1>11, <1>12, ThreadKeepsInv DEF Opening

\* ReadPlain keeps every call in shape.
LEMMA ReadPlainKeepsInv ==
    ASSUME Inv, NEW t \in Threads, ReadPlain(t)
    PROVE  Inv'
<1>1. CellStep(t) /\ cells' \in [Procs -> [Builds -> CellStates]] /\ faults' \in 0..MaxFaults
  BY DEF CellStep, ReadPlain, Inv, TypeOK, bounds
<1> QED
  BY <1>1, ReadKeepsInv DEF ReadPlain, bounds

\* Reading through the key-aware access keeps every call in shape.
LEMMA ReadWithKeysKeepsInv ==
    ASSUME Inv, NEW t \in Threads, pc[t] = "read", ReadWithKeys(t),
           UNCHANGED <<disk, dest, key, seen, temp, call>>, UNCHANGED <<patches, kills>>,
           faults' \in 0..MaxFaults
    PROVE  Inv'
<1>1. pc[t] \in Keyed /\ pc[t] \in WithState
  BY DEF Keyed, WithState
<1>2. CASE Cell(t).local = "failed"
  BY <1>1, <1>2, AtCell, GoOnKeepsInv DEF Return, WithState, ReadWithKeys
<1>3. CASE Cell(t).local # "failed"
  <2>1. PICK l \in {"ok", "failed"} :
          SetCell(t, [Cell(t) EXCEPT !.local = l]) /\ Cell(t).local \in {"no", l}
    BY <1>1, <1>3, OpenLocalIs DEF ReadWithKeys
  <2> DEFINE c == [Cell(t) EXCEPT !.local = l]
  <2>2. c \in CellStates /\ c.st = "ok" /\ c.build \in Builds /\ CellMay(t, c)
    BY <1>1, <2>1, AtCell DEF CellStates, CellMay, Stands
  <2>3. SetCell(t, c) /\ key[t] \in Builds /\ key' = key
    BY <1>1, <2>1, AtCell
  <2> HIDE DEF c
  <2>4. cells' \in [Procs -> [Builds -> CellStates]]
    BY <2>2, <2>3, SetCellIs DEF Inv
  <2>5. CellStep(t)
    BY <2>2, <2>3 DEF CellStep
  <2> QED
    BY <1>1, <1>3, <2>4, <2>5, ReadKeepsInv DEF ReadWithKeys
<1> QED
  BY <1>2, <1>3

\* ReadEncrypted keeps every call in shape.
LEMMA ReadEncryptedKeepsInv ==
    ASSUME Inv, NEW t \in Threads, ReadEncrypted(t)
    PROVE  Inv'
BY ReadWithKeysKeepsInv DEF ReadEncrypted, bounds, Inv, TypeOK

\* ReadFallback keeps every call in shape.
LEMMA ReadFallbackKeepsInv ==
    ASSUME Inv, NEW t \in Threads, ReadFallback(t)
    PROVE  Inv'
<1>1. faults' \in 0..MaxFaults
  BY ConstantsAssumption DEF Inv, TypeOK, ReadFallback, Fault
<1> QED
  BY <1>1, ReadWithKeysKeepsInv DEF ReadFallback, Fault

\* Rename keeps every call in shape.
LEMMA RenameKeepsInv ==
    ASSUME Inv, NEW t \in Threads, Rename(t)
    PROVE  Inv'
<1>1. /\ pc[t] \in Writing /\ pc[t] = "rename" /\ temp[t] = got[t]
      /\ got[t] \in Bytes /\ got[t].whole /\ (want[t] # Unqualified => ~got[t].zeroed)
      /\ (want[t] = Unqualified <=> dest[t] = Unqualified) /\ dest[t] \in Labels
  BY DEF Inv, TypeOK, Shape, CallShape, WriteShape, Writing, Rename
<1>2. files' = Set(files, dest[t], got[t])
  BY <1>1 DEF Rename
<1>3. FilesStep(t)
  BY <1>1, <1>2 DEF FilesStep
<1>4. files' \in [Labels -> Bytes \cup {NoBytes}]
  BY <1>3, FilesKeep DEF Inv
<1>5. pc' = Set(pc, t, "done") /\ result' = Set(result, t, "ok") /\ temp' = Set(temp, t, NoBytes)
  BY DEF Rename, Return
<1>6. UNCHANGED <<installed, released, tables, keyKnown, cells, dest, key, seen, got, call, bounds>>
  BY DEF Rename
<1>7. TypeOK'
  BY <1>4, <1>5, <1>6 DEF Inv, TypeOK, Set, call, bounds
<1>8. OthersStay(t)
  BY <1>5, <1>6 DEF Inv, TypeOK, OthersStay, Set, call
<1>9. CellStep(t)
  BY <1>6 DEF CellStep
<1>10. pc'[t] = "done"
  BY <1>5 DEF Inv, TypeOK, Set
<1>11. files'[dest[t]] # NoBytes
  BY <1>1, <1>2, BytesAreSomething DEF Inv, TypeOK, Set
<1>12. Shape(t)'
  <2>1. CellShape(t)'
    BY <1>10 DEF CellShape, Opening, WithState, Keyed
  <2>2. CallShape(t)'
    BY <1>1, <1>6, <1>10 DEF CallShape, Writing, call
  <2>3. WriteShape(t)'
    BY <1>6, <1>10, <1>11 DEF WriteShape, Exists, Writing
  <2> QED
    BY <2>1, <2>2, <2>3 DEF Shape
<1> QED
  BY <1>3, <1>7, <1>8, <1>9, <1>10, <1>12, ThreadKeepsInv DEF Opening

\* Killed threads are idle, and the cells of the others are not touched.
LEMMA KillKeepsInv ==
    ASSUME Inv, NEW p \in Procs, Kill(p)
    PROVE  Inv'
<1>1. /\ cells' = [cells EXCEPT ![p] = [b \in Builds |-> EmptyCell]]
      /\ UNCHANGED <<disk, dest, key, seen, call, patches, faults>>
      /\ pc' = [t \in Threads |-> IF ProcOf[t] = p THEN "idle" ELSE pc[t]]
      /\ result' = [t \in Threads |-> IF ProcOf[t] = p THEN "none" ELSE result[t]]
      /\ got' = [t \in Threads |-> IF ProcOf[t] = p THEN NoBytes ELSE got[t]]
      /\ temp' = [t \in Threads |-> IF ProcOf[t] = p THEN NoBytes ELSE temp[t]]
  BY DEF Kill
<1>2. EmptyCell \in CellStates /\ EmptyCell.st = "empty"
  BY BuildsAreNumbers DEF EmptyCell, CellStates
<1>3. /\ cells' \in [Procs -> [Builds -> CellStates]]
      /\ \A q \in Procs \ {p} : cells'[q] = cells[q]
      /\ \A b \in Builds : cells'[p][b] = EmptyCell
  BY <1>1, <1>2 DEF Inv, TypeOK
<1>4. TypeOK'
  <2>1. kills' \in 0..MaxKills
    BY ConstantsAssumption DEF Inv, TypeOK, Kill
  <2>2. pc' \in [Threads ->
              {"idle", "lookup", "current", "recheck", "key", "cell", "open", "keys",
               "tables", "init", "warm", "read", "write", "flush", "rename", "done"}]
    BY <1>1 DEF Inv, TypeOK
  <2>3. /\ result' \in [Threads -> {"none", "ok", "err"}]
        /\ got' \in [Threads -> Bytes \cup {NoBytes}]
        /\ temp' \in [Threads -> Bytes \cup {NoBytes}]
    BY <1>1 DEF Inv, TypeOK
  <2> QED
    BY <1>1, <1>3, <2>1, <2>2, <2>3 DEF Inv, TypeOK, disk, call
<1>5. StatesInv'
  BY <1>2, <1>3 DEF Inv, StatesInv
<1>6. FilesInv'
  BY <1>1 DEF Inv, FilesInv, VisibleIsWhole, QualifiedIsDecoded, Exists, disk
<1>7. \A t \in Threads : pc'[t] = pc[t] \/ pc'[t] = "idle"
  BY <1>1
<1>8. AtMostOneInitializer'
  BY <1>1, <1>7 DEF Inv, AtMostOneInitializer, Opening
<1>9. ASSUME NEW t \in Threads
      PROVE  Shape(t)'
  <2>1. ProcOf[t] \in Procs
    BY ConstantsAssumption
  <2>2. CASE ProcOf[t] = p
    <3>1. pc'[t] = "idle"
      BY <1>1, <2>2
    <3>2. want[t] = Unqualified <=> dest[t] = Unqualified
      BY DEF Inv, Shape, CallShape
    <3> QED
      BY <1>1, <3>1, <3>2 DEF Shape, CellShape, CallShape, WriteShape, Returned,
                              Opening, WithState, Keyed, Writing, call
  <2>3. CASE ProcOf[t] # p
    <3>1. /\ pc'[t] = pc[t] /\ result'[t] = result[t] /\ got'[t] = got[t] /\ temp'[t] = temp[t]
          /\ cells'[ProcOf[t]] = cells[ProcOf[t]]
          /\ UNCHANGED <<key, seen, op, want, dest, files>>
      BY <1>1, <1>3, <2>1, <2>3 DEF call, disk
    <3> QED
      BY <3>1 DEF Inv, Shape, CellShape, CallShape, WriteShape, Returned, Exists, Cell
  <2> QED
    BY <2>2, <2>3
<1> QED
  BY <1>4, <1>5, <1>6, <1>8, <1>9 DEF Inv

\* The installer and the import do not touch calls, cells and files.
LEMMA OutsideKeepsInv ==
    ASSUME Inv, StartPatch \/ FinishPatch \/ ImportKey
    PROVE  Inv'
<1>1. UNCHANGED <<files, cells, pc, op, want, dest, key, seen, got, temp, result>>
  BY DEF StartPatch, FinishPatch, ImportKey, disk, call
<1>2. TypeOK'
  <2>1. CASE StartPatch
    <3>1. patches' \in 0..MaxPatches
      BY <2>1, ConstantsAssumption DEF Inv, TypeOK, StartPatch
    <3>2. disturbed' \in [Threads -> BOOLEAN]
      BY <2>1 DEF StartPatch
    <3> QED
      BY <1>1, <2>1, <3>1, <3>2 DEF Inv, TypeOK, StartPatch
  <2>2. CASE FinishPatch
    BY <1>1, <2>2 DEF Inv, TypeOK, FinishPatch, call, bounds
  <2>3. CASE ImportKey
    BY <1>1, <2>3 DEF Inv, TypeOK, ImportKey, call, bounds
  <2> QED
    BY <2>1, <2>2, <2>3
<1>3. StatesInv' /\ FilesInv' /\ AtMostOneInitializer'
  BY <1>1 DEF Inv, StatesInv, FilesInv, VisibleIsWhole, QualifiedIsDecoded, Exists,
              AtMostOneInitializer
<1>4. \A t \in Threads : Shape(t)'
  BY <1>1 DEF Inv, Shape, CellShape, CallShape, WriteShape, Returned, Exists, Cell
<1> QED
  BY <1>2, <1>3, <1>4 DEF Inv

-----------------------------------------------------------------------------
(* The shape of a call is an invariant *)

\* Initially no call is under way and nothing is on disk.
LEMMA InitInv == Init => Inv
<1> SUFFICES ASSUME Init PROVE Inv
  OBVIOUS
<1>1. TypeOK
  <2>1. EmptyCell \in CellStates
    BY BuildsAreNumbers DEF EmptyCell, CellStates
  <2>2. 1 \in Builds /\ 0 \in Labels
    BY ConstantsAssumption, BuildsAreNumbers DEF Builds
  <2>3. calls \in 0..MaxCalls /\ patches \in 0..MaxPatches /\ faults \in 0..MaxFaults
        /\ kills \in 0..MaxKills
    BY ConstantsAssumption DEF Init
  <2> QED
    BY <2>1, <2>2, <2>3 DEF Init, TypeOK
<1>2. StatesInv
  BY DEF Init, StatesInv, EmptyCell
<1>3. FilesInv
  BY BuildsAreNumbers DEF Init, FilesInv, VisibleIsWhole, QualifiedIsDecoded, Exists, NoBytes
<1>4. AtMostOneInitializer
  BY DEF Init, AtMostOneInitializer, Opening
<1>5. \A t \in Threads : Shape(t)
  BY DEF Init, Shape, CellShape, CallShape, WriteShape, Returned, Unqualified,
         Opening, WithState, Keyed, Writing
<1> QED
  BY <1>1, <1>2, <1>3, <1>4, <1>5 DEF Inv

\* Every step keeps every call in shape.
LEMMA NextInv ==
    ASSUME Inv, [Next]_vars
    PROVE  Inv'
<1>1. CASE UNCHANGED vars
  <2>1. UNCHANGED <<disk, cells, pc, dest, key, seen, got, temp, result, call, bounds>>
    BY <1>1 DEF vars
  <2>2. TypeOK'
    BY <2>1 DEF Inv, TypeOK, disk, call, bounds
  <2>3. StatesInv' /\ FilesInv' /\ AtMostOneInitializer'
    BY <2>1 DEF Inv, StatesInv, FilesInv, VisibleIsWhole, QualifiedIsDecoded, Exists,
                AtMostOneInitializer, disk
  <2>4. \A t \in Threads : Shape(t)'
    BY <2>1 DEF Inv, Shape, CellShape, CallShape, WriteShape, Returned, Exists, Cell, disk, call
  <2> QED
    BY <2>2, <2>3, <2>4 DEF Inv
<1>2. ASSUME NEW t \in Threads, Call(t) PROVE Inv'
  BY <1>2, CallKeepsInv
<1>3. ASSUME NEW t \in Threads, Step(t) PROVE Inv'
  BY <1>3, LookupKeepsInv, CurrentKeepsInv, RecheckKeepsInv, GetKeyKeepsInv,
     EnterCellKeepsInv, OpenStateKeepsInv, LoadKeysKeepsInv, OpenTablesKeepsInv,
     EnsureInitializedKeepsInv, WarmKeepsInv, ReadPlainKeepsInv, ReadEncryptedKeepsInv,
     ReadAbsentKeepsInv, StartWriteKeepsInv, FinishWriteKeepsInv, RenameKeepsInv DEF Step
<1>4. ASSUME NEW t \in Threads, Failure(t) PROVE Inv'
  BY <1>4, CascErrorKeepsInv, ReadFallbackKeepsInv, DiskErrorKeepsInv DEF Failure
<1>6. ASSUME NEW p \in Procs, Kill(p) PROVE Inv'
  BY <1>6, KillKeepsInv
<1>7. CASE StartPatch \/ FinishPatch \/ ImportKey
  BY <1>7, OutsideKeepsInv
<1> QED
  BY <1>1, <1>2, <1>3, <1>4, <1>6, <1>7 DEF Next

\* Every variable keeps its type, and every call its shape.
THEOREM CallsHaveShape == Spec => []Inv
<1>1. Init => Inv
  BY InitInv
<1>2. Inv /\ [Next]_vars => Inv'
  BY NextInv
<1> QED
  BY <1>1, <1>2, PTL DEF Spec

\* Every variable has its type.
THEOREM TypeCorrect == Spec => []TypeOK
<1>1. Inv => TypeOK
  BY DEF Inv
<1> QED
  BY <1>1, CallsHaveShape, PTL

\* Whoever finds a file reads all of it: however many threads and processes
\* write it, wherever one of them is killed or fails.
THEOREM VisibleFilesAreWhole == Spec => []VisibleIsWhole
<1>1. Inv => VisibleIsWhole
  BY DEF Inv, FilesInv
<1> QED
  BY <1>1, CallsHaveShape, PTL

\* No qualified file holds zero-filled chunks, with any number of builds, keys
\* imported at any time and cells filled before or after it.
THEOREM QualifiedFilesAreDecoded == Spec => []QualifiedIsDecoded
<1>1. Inv => QualifiedIsDecoded
  BY DEF Inv, FilesInv
<1> QED
  BY <1>1, CallsHaveShape, PTL

\* A path that was returned stays readable.
THEOREM ReturnedFilesStand == Spec => []ReturnedFileStands
<1>1. Inv => ReturnedFileStands
  BY DEF Inv, Shape, WriteShape, ReturnedFileStands
<1> QED
  BY <1>1, CallsHaveShape, PTL

-----------------------------------------------------------------------------
(* Cells are final *)

\* A step of thread t leaves what is decided, and only the step that has opened
\* the tables makes a state ready, one of the build that it has seen.
Decided(t, p, b) ==
    /\ cells[p][b].st \in {"ok", "err"} => Stands(cells[p][b], cells'[p][b])
    /\ cells'[p][b].st = "ok" /\ cells[p][b].st # "ok" =>
         pc[t] = "tables" /\ b = key[t] /\ cells'[p][b].build = seen[t]

\* A cell that is set as its thread may set it.
LEMMA SetCellDecides ==
    ASSUME Inv, NEW t \in Threads, pc[t] \in Keyed, NEW c \in CellStates, CellMay(t, c), SetCell(t, c),
           NEW p \in Procs, NEW b \in Builds
    PROVE  Decided(t, p, b)
<1>1. key[t] \in Builds /\ (pc[t] \in Opening => Cell(t).st = "busy")
  BY AtCell
<1>2. cells'[p][b] = IF p = ProcOf[t] /\ b = key[t] THEN c ELSE cells[p][b]
  BY <1>1, SetCellIs DEF Inv
<1>3. CASE p = ProcOf[t] /\ b = key[t]
  BY <1>1, <1>2, <1>3 DEF Decided, CellMay, Cell, Stands
<1>4. CASE ~(p = ProcOf[t] /\ b = key[t])
  BY <1>2, <1>4 DEF Decided, Stands
<1> QED
  BY <1>3, <1>4

\* An error fills a cell that was being filled.
LEMMA FailCellDecides ==
    ASSUME Inv, NEW t \in Threads, pc[t] \in Opening, FailCell(t), NEW p \in Procs, NEW b \in Builds
    PROVE  Decided(t, p, b)
<1> DEFINE c == [Cell(t) EXCEPT !.st = "err"]
<1>1. pc[t] \in Keyed
  BY DEF Keyed
<1>2. c \in CellStates /\ CellMay(t, c)
  BY <1>1, AtCell DEF CellStates, CellMay
<1>3. SetCell(t, c)
  BY DEF FailCell
<1> HIDE DEF c
<1> QED
  BY <1>1, <1>2, <1>3, SetCellDecides

\* Every step of a thread leaves what is decided.
LEMMA StepDecides ==
    ASSUME Inv, NEW t \in Threads, Step(t) \/ Failure(t), NEW p \in Procs, NEW b \in Builds
    PROVE  Decided(t, p, b)
<1>1. CASE UNCHANGED cells
  BY <1>1 DEF Decided, Stands
<1>2. ASSUME pc[t] \in Opening, FailCell(t)
      PROVE  Decided(t, p, b)
  BY <1>2, FailCellDecides
<1>3. CASE EnterCell(t)
  <2>1. CASE Cell(t).st = "empty" /\ SetCell(t, [Cell(t) EXCEPT !.st = "busy"])
    <3> DEFINE c == [Cell(t) EXCEPT !.st = "busy"]
    <3>1. pc[t] \in Keyed
      BY <1>3 DEF Keyed, EnterCell
    <3>2. c \in CellStates /\ CellMay(t, c) /\ SetCell(t, c)
      BY <2>1, <3>1, AtCell DEF CellStates, CellMay
    <3> HIDE DEF c
    <3> QED
      BY <3>1, <3>2, SetCellDecides
  <2> QED
    BY <1>1, <1>3, <2>1 DEF EnterCell
<1>4. CASE OpenState(t)
  BY <1>1, <1>2, <1>4 DEF OpenState, Opening
<1>5. CASE LoadKeys(t)
  <2>1. pc[t] \in Keyed /\ pc[t] \in Opening
    BY <1>5 DEF Keyed, Opening, LoadKeys
  <2>2. CASE SetCell(t, [Cell(t) EXCEPT !.keys = keyKnown])
    <3> DEFINE c == [Cell(t) EXCEPT !.keys = keyKnown]
    <3>1. c \in CellStates /\ CellMay(t, c) /\ SetCell(t, c)
      BY <2>1, <2>2, AtCell DEF CellStates, CellMay, Inv, TypeOK
    <3> HIDE DEF c
    <3> QED
      BY <2>1, <3>1, SetCellDecides
  <2> QED
    BY <1>2, <1>5, <2>1, <2>2 DEF LoadKeys
<1>6. CASE OpenTables(t)
  <2>1. pc[t] \in Keyed /\ pc[t] \in Opening /\ pc[t] = "tables"
    BY <1>6 DEF Keyed, Opening, OpenTables
  <2>2. CASE SetCell(t, [Cell(t) EXCEPT !.st = "ok", !.build = seen[t]])
    <3> DEFINE c == [Cell(t) EXCEPT !.st = "ok", !.build = seen[t]]
    <3>1. c \in CellStates /\ CellMay(t, c) /\ SetCell(t, c)
      BY <2>1, <2>2, AtCell DEF CellStates, CellMay
    <3> HIDE DEF c
    <3> QED
      BY <2>1, <3>1, SetCellDecides
  <2> QED
    BY <1>2, <1>6, <2>1, <2>2 DEF OpenTables
<1>7. ASSUME NEW c \in CellStates, pc[t] \in WithState, Stands(Cell(t), c), SetCell(t, c)
      PROVE  Decided(t, p, b)
  <2>1. pc[t] \in Keyed
    BY <1>7 DEF Keyed
  <2>2. CellMay(t, c)
    BY <1>7, <2>1, AtCell DEF CellMay
  <2> QED
    BY <1>7, <2>1, <2>2, SetCellDecides
<1>8. ASSUME NEW i \in {"ok", "failed"}, pc[t] \in WithState, Cell(t).init \in {"no", i},
             SetCell(t, [Cell(t) EXCEPT !.init = i])
      PROVE  Decided(t, p, b)
  <2> DEFINE c == [Cell(t) EXCEPT !.init = i]
  <2>1. pc[t] \in Keyed
    BY <1>8 DEF Keyed
  <2>2. c \in CellStates /\ Stands(Cell(t), c) /\ SetCell(t, c)
    BY <1>8, <2>1, AtCell DEF CellStates, Stands
  <2> HIDE DEF c
  <2> QED
    BY <1>7, <1>8, <2>2
<1>9. ASSUME NEW l \in {"ok", "failed"}, pc[t] \in WithState, Cell(t).local \in {"no", l},
             SetCell(t, [Cell(t) EXCEPT !.local = l])
      PROVE  Decided(t, p, b)
  <2> DEFINE c == [Cell(t) EXCEPT !.local = l]
  <2>1. pc[t] \in Keyed
    BY <1>9 DEF Keyed
  <2>2. c \in CellStates /\ Stands(Cell(t), c) /\ SetCell(t, c)
    BY <1>9, <2>1, AtCell DEF CellStates, Stands
  <2> HIDE DEF c
  <2> QED
    BY <1>7, <1>9, <2>2
<1>10. ASSUME pc[t] \in WithState, OpenLocal(t)
       PROVE  Decided(t, p, b)
  <2>1. pc[t] \in Keyed
    BY <1>10 DEF Keyed
  <2> QED
    BY <1>9, <1>10, <2>1, OpenLocalIs
<1>11. CASE EnsureInitialized(t)
  <2>1. pc[t] \in WithState /\ pc[t] \in Keyed
    BY <1>11 DEF EnsureInitialized, WithState, Keyed
  <2>2. Cell(t).init \in {"no", "ok", "failed"}
    BY <2>1, AtCell DEF CellStates
  <2> QED
    BY <1>1, <1>8, <1>11, <2>1, <2>2 DEF EnsureInitialized
<1>12. CASE Warm(t)
  BY <1>10, <1>12 DEF Warm, WithState
<1>13. CASE ReadEncrypted(t) \/ ReadFallback(t)
  BY <1>1, <1>10, <1>13 DEF ReadEncrypted, ReadFallback, ReadWithKeys, WithState
<1>14. CASE CascError(t)
  BY <1>2, <1>8, <1>9, <1>10, <1>14 DEF CascError, Opening, WithState
<1>15. CASE \/ Lookup(t) \/ Current(t) \/ Recheck(t) \/ GetKey(t) \/ ReadPlain(t)
            \/ ReadAbsent(t) \/ StartWrite(t) \/ FinishWrite(t) \/ Rename(t) \/ DiskError(t)
  BY <1>1, <1>15 DEF Lookup, Current, Recheck, GetKey, ReadPlain, ReadAbsent, StartWrite,
                     FinishWrite, Rename, DiskError
<1> QED
  BY <1>3, <1>4, <1>5, <1>6, <1>11, <1>12, <1>13, <1>14, <1>15 DEF Step, Failure

\* What a cell holds is decided once, for as long as its process lives: its
\* state, its error, and the outcome of each of its two lazy initializations.
THEOREM CellsStayFinal == Spec => CellsAreFinal
<1>1. Inv /\ [Next]_vars =>
        [\A p \in Procs, b \in Builds :
            cells[p][b].st \in {"ok", "err"} =>
                \/ Stands(cells[p][b], cells'[p][b])
                \/ cells'[p] = [c \in Builds |-> EmptyCell]]_vars
  <2> SUFFICES ASSUME Inv, Next, NEW p \in Procs, NEW b \in Builds,
                      cells[p][b].st \in {"ok", "err"}
               PROVE  \/ Stands(cells[p][b], cells'[p][b])
                      \/ cells'[p] = [c \in Builds |-> EmptyCell]
    OBVIOUS
  <2>1. CASE UNCHANGED cells
    BY <2>1 DEF Stands
  <2>2. ASSUME NEW t \in Threads, Step(t) \/ Failure(t)
        PROVE  Stands(cells[p][b], cells'[p][b])
    BY <2>2, StepDecides DEF Decided
  <2>3. ASSUME NEW q \in Procs, Kill(q)
        PROVE  cells'[p] = cells[p] \/ cells'[p] = [c \in Builds |-> EmptyCell]
    <3>1. cells' = [cells EXCEPT ![q] = [c \in Builds |-> EmptyCell]]
      BY <2>3 DEF Kill
    <3> QED
      BY <3>1 DEF Inv, TypeOK
  <2>4. \/ UNCHANGED cells
        \/ \E t \in Threads : Step(t) \/ Failure(t)
        \/ \E q \in Procs : Kill(q)
    BY DEF Next, Call, StartPatch, FinishPatch, ImportKey
  <2> QED
    BY <2>1, <2>2, <2>3, <2>4 DEF Stands
<1> QED
  BY <1>1, CallsHaveShape, PTL DEF Spec, CellsAreFinal

-----------------------------------------------------------------------------
(* The order in which a call reads the active build *)

\* While builds only go forward: the build installed at the start, the one of
\* the destination, the registry key, the state's and the one installed now.
Ordered(t) ==
    /\ start[t] <= released
    /\ pc[t] # "idle" => start[t] # 0
    /\ pc[t] \in {"recheck", "key"} \cup Keyed \cup Writing => dest[t] <= released
    /\ pc[t] \in Keyed => start[t] <= key[t] /\ key[t] <= released /\ dest[t] <= key[t]
    /\ pc[t] \in {"keys", "tables"} => key[t] <= seen[t] /\ seen[t] <= released
    /\ got[t] # NoBytes =>
         pc[t] \in Writing \cup {"done"} /\ start[t] <= got[t].build /\ got[t].build <= released
    /\ pc[t] \in Writing => dest[t] <= got[t].build

\* They are all one build if no patch overlaps the call.
Undisturbed(t) == ~disturbed[t] =>
    /\ pc[t] \notin {"idle", "done"} => installed = start[t]
    /\ pc[t] \in {"recheck", "key"} \cup Keyed \cup Writing =>
         (want[t] # Unqualified => dest[t] = start[t])
    /\ got[t] # NoBytes =>
         got[t].build = start[t] /\ (want[t] # Unqualified => dest[t] = start[t])

\* A state may be newer than its registry key, never older.
StatesOrdered == \A p \in Procs, b \in Builds :
    cells[p][b].st = "ok" => b <= cells[p][b].build /\ cells[p][b].build <= released

Order ==
    /\ installed \in {Unreadable, released}
    /\ NeverOlderThanLabel /\ StatesOrdered
    /\ \A t \in Threads : Ordered(t) /\ Undisturbed(t)

\* What is compared are numbers.
LEMMA Numbers ==
    ASSUME TypeOK, NEW t \in Threads
    PROVE  /\ released \in Nat /\ released # 0 /\ installed \in Nat
           /\ start[t] \in Nat /\ dest[t] \in Nat /\ key[t] \in Nat /\ seen[t] \in Nat
           /\ got[t] # NoBytes => got[t] \in Bytes /\ got[t].build \in Nat
<1>1. /\ released \in Builds /\ installed \in Builds \cup {0}
      /\ start[t] \in Labels /\ dest[t] \in Labels /\ key[t] \in Labels /\ seen[t] \in Labels
      /\ got[t] \in Bytes \cup {NoBytes}
  BY DEF TypeOK, Unreadable
<1>2. \A bytes \in Bytes : bytes.build \in Builds
  BY DEF Bytes
<1>3. got[t] # NoBytes => got[t] \in Bytes /\ got[t].build \in Nat
  BY <1>1, <1>2, BuildsAreNumbers
<1>4. \A l \in Labels : l \in Nat
  BY BuildsAreNumbers
<1>5. released \in Nat /\ released # 0 /\ installed \in Nat
  BY <1>1, BuildsAreNumbers
<1> QED
  BY <1>1, <1>3, <1>4, <1>5

\* The other threads do not see a step.
LEMMA StepStays ==
    ASSUME TypeOK, NEW t \in Threads, Call(t) \/ Step(t) \/ Failure(t)
    PROVE  OthersStay(t) /\ UNCHANGED <<installed, released>>
<1> USE DEF TypeOK, OthersStay, Set, Goto, Return, disk, call
<1>1. CASE Call(t)
  BY <1>1 DEF Call
<1>2. CASE Lookup(t)
  BY <1>2 DEF Lookup
<1>3. CASE Current(t)
  BY <1>3 DEF Current
<1>4. CASE Recheck(t)
  BY <1>4 DEF Recheck
<1>5. CASE GetKey(t)
  BY <1>5 DEF GetKey
<1>6. CASE EnterCell(t)
  BY <1>6 DEF EnterCell
<1>7. CASE OpenState(t)
  BY <1>7 DEF OpenState, FailCell
<1>8. CASE LoadKeys(t)
  BY <1>8 DEF LoadKeys, FailCell
<1>9. CASE OpenTables(t)
  BY <1>9 DEF OpenTables, FailCell
<1>10. CASE EnsureInitialized(t)
  BY <1>10 DEF EnsureInitialized
<1>11. CASE Warm(t)
  BY <1>11 DEF Warm
<1>12. CASE ReadPlain(t)
  BY <1>12 DEF ReadPlain, Accept
<1>13. CASE ReadEncrypted(t)
  BY <1>13 DEF ReadEncrypted, ReadWithKeys, Accept
<1>14. CASE ReadAbsent(t)
  BY <1>14 DEF ReadAbsent
<1>15. CASE StartWrite(t)
  BY <1>15 DEF StartWrite
<1>16. CASE FinishWrite(t)
  BY <1>16 DEF FinishWrite
<1>17. CASE Rename(t)
  BY <1>17 DEF Rename
<1>18. CASE CascError(t)
  BY <1>18 DEF CascError, FailCell, Fault
<1>19. CASE DiskError(t)
  BY <1>19 DEF DiskError, Fault
<1>20. CASE ReadFallback(t)
  BY <1>20 DEF ReadFallback, ReadWithKeys, Accept, Fault
<1> QED
  BY <1>1, <1>2, <1>3, <1>4, <1>5, <1>6, <1>7, <1>8, <1>9, <1>10, <1>11,
     <1>12, <1>13, <1>14, <1>15, <1>16, <1>17, <1>18, <1>19, <1>20 DEF Step, Failure

\* The thread itself: for each step, the builds stay in order.
LEMMA CallIsOrdered ==
    ASSUME Inv, Order, NEW t \in Threads, Call(t)
    PROVE  Ordered(t)' /\ Undisturbed(t)'
<1>1. /\ pc'[t] \in {"lookup", "key"} /\ got'[t] = NoBytes /\ start'[t] = released
      /\ UNCHANGED <<installed, released>>
      /\ ~disturbed'[t] => installed # Unreadable
      /\ dest'[t] = want'[t]
      /\ pc'[t] = "key" => want'[t] = Unqualified
  <2>1. PICK o \in {"ensure", "bytes", "warm"}, w \in Labels :
          /\ o # "ensure" => w = Unqualified
          /\ want' = Set(want, t, w) /\ dest' = Set(dest, t, w)
          /\ pc' = Set(pc, t, IF o = "ensure" THEN "lookup" ELSE "key")
    BY DEF Call
  <2>2. /\ want'[t] = w /\ dest'[t] = w
        /\ pc'[t] = IF o = "ensure" THEN "lookup" ELSE "key"
    BY <2>1 DEF Inv, TypeOK, Set
  <2>3. /\ got'[t] = NoBytes /\ start'[t] = released /\ UNCHANGED <<installed, released>>
        /\ disturbed'[t] = (installed = Unreadable)
    BY DEF Inv, TypeOK, Set, disk, Call
  <2> QED
    BY <2>1, <2>2, <2>3
<1>2. released \in Nat /\ released # 0
  BY Numbers DEF Inv
<1> QED
  BY <1>1, <1>2 DEF Order, Ordered, Undisturbed, Keyed, Opening, WithState, Writing, Unqualified

\* A step that ends the call without touching its bytes.
LEMMA DoneIsOrdered ==
    ASSUME Inv, Order, NEW t \in Threads, pc'[t] = "done", pc[t] # "idle",
           UNCHANGED <<released, got, start, disturbed, want>>,
           got[t] # NoBytes => dest'[t] = dest[t]
    PROVE  Ordered(t)' /\ Undisturbed(t)'
BY DEF Order, Ordered, Undisturbed, Keyed, Opening, WithState, Writing

\* One that goes on with the same destination, key and bytes.
LEMMA GoOnIsOrdered ==
    ASSUME Inv, Order, NEW t \in Threads,
           UNCHANGED <<installed, released, dest, key, seen, got, call>>,
           \/ pc[t] \in {"cell"} \cup Opening \cup WithState /\ pc'[t] \in {"open"} \cup WithState
           \/ pc[t] = "recheck" /\ pc'[t] = "key"
           \/ pc[t] = "keys" /\ pc'[t] = "tables"
           \/ pc[t] = "lookup" /\ pc'[t] = "current"
           \/ pc[t] \in Writing /\ pc'[t] \in Writing
    PROVE  Ordered(t)' /\ Undisturbed(t)'
BY DEF Order, Ordered, Undisturbed, Keyed, Opening, WithState, Writing, call

\* The destination is the build installed now, if anything.
LEMMA CurrentIsOrdered ==
    ASSUME Inv, Order, NEW t \in Threads, Current(t)
    PROVE  Ordered(t)' /\ Undisturbed(t)'
<1>1. UNCHANGED <<disk, key, seen, got, call>> /\ pc[t] = "current"
  BY DEF Current
<1>2. got[t] = NoBytes /\ (want[t] = Unqualified <=> dest[t] = Unqualified)
  BY <1>1 DEF Order, Ordered, Writing, Inv, Shape, CallShape
<1>3. CASE want[t] = Unqualified /\ pc'[t] = "recheck" /\ UNCHANGED dest
  BY <1>1, <1>2, <1>3, Numbers
     DEF Inv, Order, Ordered, Undisturbed, Keyed, Opening, WithState, Writing, Unqualified, disk, call
<1>4. CASE want[t] # Unqualified /\ installed # Unreadable /\ pc'[t] = "recheck" /\ dest'[t] = installed
  BY <1>1, <1>2, <1>4, Numbers
     DEF Inv, Order, Ordered, Undisturbed, Keyed, Opening, WithState, Writing, disk, call
<1>5. CASE pc'[t] = "done"
  BY <1>1, <1>2, <1>5, DoneIsOrdered DEF disk, call
<1> QED
  BY <1>3, <1>4, <1>5 DEF Current, Goto, Return, Set, Inv, TypeOK

\* The registry key is no older than the destination.
LEMMA GetKeyIsOrdered ==
    ASSUME Inv, Order, NEW t \in Threads, GetKey(t)
    PROVE  Ordered(t)' /\ Undisturbed(t)'
<1>1. UNCHANGED <<disk, dest, seen, got, call>> /\ pc[t] = "key"
  BY DEF GetKey
<1>2. CASE pc'[t] = "done"
  BY <1>1, <1>2, DoneIsOrdered DEF disk, call
<1>3. CASE installed # Unreadable /\ pc'[t] = "cell" /\ key'[t] = installed
  BY <1>1, <1>3, Numbers
     DEF Inv, Order, Ordered, Undisturbed, Keyed, Opening, WithState, Writing, disk, call
<1> QED
  BY <1>2, <1>3 DEF GetKey, Goto, Return, Set, Inv, TypeOK

\* The state is no older than its registry key.
LEMMA OpenStateIsOrdered ==
    ASSUME Inv, Order, NEW t \in Threads, OpenState(t)
    PROVE  Ordered(t)' /\ Undisturbed(t)'
<1>1. UNCHANGED <<disk, dest, key, got, call>> /\ pc[t] = "open"
  BY DEF OpenState
<1>2. CASE pc'[t] = "done"
  BY <1>1, <1>2, DoneIsOrdered DEF disk, call
<1>3. CASE installed # Unreadable /\ pc'[t] = "keys" /\ seen'[t] = installed
  BY <1>1, <1>3, Numbers
     DEF Inv, Order, Ordered, Undisturbed, Keyed, Opening, WithState, Writing, disk, call
<1> QED
  BY <1>2, <1>3 DEF OpenState, FailCell, Goto, Return, Set, Inv, TypeOK

\* The bytes are of the state's build.
LEMMA ReadIsOrdered ==
    ASSUME Inv, Order, NEW t \in Threads, pc[t] = "read",
           got' = Set(got, t, Decoded(Cell(t))), Accept(t, Decoded(Cell(t))),
           UNCHANGED <<disk, dest, key, seen, temp, call>>
    PROVE  Ordered(t)' /\ Undisturbed(t)'
<1>1. pc[t] \in Keyed /\ pc[t] \in WithState
  BY DEF Keyed, WithState
<1>2. /\ key[t] <= Cell(t).build /\ Cell(t).build <= released
      /\ Cell(t).build \in Builds /\ Cell(t).build \in Nat
  BY <1>1, AtCell, BuildsAreNumbers, ConstantsAssumption DEF Order, StatesOrdered, Cell
<1>3. got'[t].build = Cell(t).build
  BY DEF Inv, TypeOK, Set, Decoded
<1>4. pc'[t] \in {"write", "done"}
  BY DEF Accept, Goto, Return, Set, Inv, TypeOK
<1>5. /\ start[t] <= key[t] /\ dest[t] <= key[t] /\ start[t] # 0 /\ start[t] <= released
      /\ dest[t] <= released
      /\ ~disturbed[t] => installed = start[t] /\ (want[t] # Unqualified => dest[t] = start[t])
  BY <1>1 DEF Order, Ordered, Undisturbed, Keyed, WithState
<1>6. ~disturbed[t] => start[t] = released
  BY <1>5 DEF Order, Unreadable
<1>7. start[t] <= Cell(t).build /\ dest[t] <= Cell(t).build
  BY <1>2, <1>5, Numbers DEF Inv
<1>8. ~disturbed[t] => Cell(t).build = start[t]
  BY <1>2, <1>6, <1>7, Numbers DEF Inv
<1>9. Ordered(t)'
  BY <1>2, <1>3, <1>4, <1>5, <1>7 DEF Ordered, Keyed, Opening, WithState, Writing, disk, call
<1>10. Undisturbed(t)'
  BY <1>3, <1>4, <1>5, <1>8 DEF Undisturbed, Keyed, Opening, WithState, Writing, disk, call
<1> QED
  BY <1>9, <1>10

\* Each step of a thread keeps its own builds in order.
LEMMA StepIsOrdered ==
    ASSUME Inv, Order, NEW t \in Threads, Call(t) \/ Step(t) \/ Failure(t)
    PROVE  Ordered(t)' /\ Undisturbed(t)'
<1>1. ASSUME pc[t] # "idle", UNCHANGED <<released, dest, got, call>>, pc'[t] = "done"
      PROVE  Ordered(t)' /\ Undisturbed(t)'
  BY <1>1, DoneIsOrdered DEF call
<1>2. CASE Call(t)
  BY <1>2, CallIsOrdered
<1>3. CASE Current(t)
  BY <1>3, CurrentIsOrdered
<1>4. CASE GetKey(t)
  BY <1>4, GetKeyIsOrdered
<1>5. CASE OpenState(t)
  BY <1>5, OpenStateIsOrdered
<1>6. CASE ReadPlain(t)
  BY <1>6, ReadIsOrdered DEF ReadPlain
<1>7. CASE ReadEncrypted(t) \/ ReadFallback(t)
  <2>1. /\ pc[t] = "read" /\ UNCHANGED <<disk, dest, key, seen, temp, call>>
        /\ \/ Return(t, "err") /\ UNCHANGED <<cells, got>>
           \/ got' = Set(got, t, Decoded(Cell(t))) /\ Accept(t, Decoded(Cell(t)))
    BY <1>7 DEF ReadEncrypted, ReadFallback, ReadWithKeys, Fault
  <2>2. CASE Return(t, "err") /\ UNCHANGED <<cells, got>>
    BY <1>1, <2>1, <2>2 DEF Return, Set, Inv, TypeOK, disk
  <2>3. CASE got' = Set(got, t, Decoded(Cell(t))) /\ Accept(t, Decoded(Cell(t)))
    BY <2>1, <2>3, ReadIsOrdered
  <2> QED
    BY <2>1, <2>2, <2>3
<1>8. CASE Lookup(t)
  BY <1>1, <1>8, GoOnIsOrdered DEF Lookup, Set, Goto, Return, Inv, TypeOK, disk
<1>9. CASE Recheck(t)
  BY <1>1, <1>9, GoOnIsOrdered DEF Recheck, Set, Goto, Return, Inv, TypeOK, disk
<1>10. CASE EnterCell(t)
  BY <1>1, <1>10, GoOnIsOrdered DEF EnterCell, Set, Goto, Return, Inv, TypeOK, disk, Keyed, Opening, WithState
<1>11. CASE LoadKeys(t)
  BY <1>1, <1>11, GoOnIsOrdered DEF LoadKeys, Set, Goto, Return, Inv, TypeOK, disk, FailCell, Opening
<1>12. CASE EnsureInitialized(t)
  BY <1>1, <1>12, GoOnIsOrdered DEF EnsureInitialized, Set, Goto, Return, Inv, TypeOK, disk, WithState
<1>13. CASE StartWrite(t)
  BY <1>1, <1>13, GoOnIsOrdered DEF StartWrite, Set, Goto, Return, Inv, TypeOK, disk, Writing
<1>14. CASE FinishWrite(t)
  BY <1>1, <1>14, GoOnIsOrdered DEF FinishWrite, Set, Goto, Return, Inv, TypeOK, disk, Writing
<1>15. CASE Warm(t)
  BY <1>1, <1>15, GoOnIsOrdered DEF Warm, Set, Goto, Return, Inv, TypeOK, disk
<1>16. CASE ReadAbsent(t)
  BY <1>1, <1>16, GoOnIsOrdered DEF ReadAbsent, Set, Goto, Return, Inv, TypeOK, disk
<1>17. CASE Rename(t)
  BY <1>1, <1>17, GoOnIsOrdered DEF Rename, Set, Goto, Return, Inv, TypeOK, disk
<1>18. CASE CascError(t)
  BY <1>1, <1>18, GoOnIsOrdered DEF CascError, Set, Goto, Return, Inv, TypeOK, disk, Fault, FailCell
<1>19. CASE DiskError(t)
  BY <1>1, <1>19, GoOnIsOrdered DEF DiskError, Set, Goto, Return, Inv, TypeOK, disk, Fault
<1>20. CASE OpenTables(t)
  BY <1>1, <1>20, GoOnIsOrdered DEF OpenTables, Set, Goto, Return, Inv, TypeOK, disk, FailCell, Opening, WithState
<1> QED
  BY <1>2, <1>3, <1>4, <1>5, <1>6, <1>7, <1>8, <1>9, <1>10, <1>11,
     <1>12, <1>13, <1>14, <1>15, <1>16, <1>17, <1>18, <1>19, <1>20 DEF Step, Failure

\* A file is only written by a rename, of bytes that are in order.
LEMMA FilesAreOrdered ==
    ASSUME Inv, Order, NEW t \in Threads, Call(t) \/ Step(t) \/ Failure(t)
    PROVE  NeverOlderThanLabel'
<1>1. CASE UNCHANGED files
  BY <1>1 DEF Order, NeverOlderThanLabel, Exists
<1>2. CASE Rename(t)
  <2>1. pc[t] \in Writing /\ temp[t] = got[t] /\ got[t] # NoBytes /\ dest[t] \in Labels
    BY <1>2, BytesAreSomething DEF Inv, TypeOK, Shape, WriteShape, Writing, Rename
  <2>2. dest[t] <= got[t].build
    BY <2>1 DEF Order, Ordered
  <2>3. \A l \in Builds : files'[l] = IF l = dest[t] THEN got[t] ELSE files[l]
    BY <1>2, <2>1, BuildsAreNumbers DEF Inv, TypeOK, Rename, Set
  <2> QED
    BY <2>2, <2>3 DEF Order, NeverOlderThanLabel, Exists
<1> QED
  BY <1>1, <1>2 DEF Step, Call, Lookup, Current, Recheck, GetKey, EnterCell, OpenState,
     LoadKeys, OpenTables, EnsureInitialized, Warm, ReadPlain, ReadEncrypted, ReadAbsent,
     StartWrite, FinishWrite, Failure, CascError, ReadFallback, DiskError, Fault, disk

\* A state becomes ready with the build that its initializer has seen.
LEMMA StatesAreOrdered ==
    ASSUME Inv, Order, NEW t \in Threads, Call(t) \/ Step(t) \/ Failure(t)
    PROVE  StatesOrdered'
<1> SUFFICES ASSUME NEW p \in Procs, NEW b \in Builds, cells'[p][b].st = "ok"
             PROVE  b <= cells'[p][b].build /\ cells'[p][b].build <= released'
  BY DEF StatesOrdered
<1>1. released' = released
  BY StepStays DEF Inv
<1>2. CASE cells'[p][b].st = cells[p][b].st /\ cells'[p][b].build = cells[p][b].build
  BY <1>1, <1>2 DEF Order, StatesOrdered
<1>3. CASE pc[t] = "tables" /\ b = key[t] /\ cells'[p][b].build = seen[t]
  BY <1>1, <1>3 DEF Order, Ordered
<1>4. CASE UNCHANGED cells
  BY <1>2, <1>4
<1>5. CASE Step(t) \/ Failure(t)
  BY <1>2, <1>3, <1>5, StepDecides DEF Decided, Stands
<1> QED
  BY <1>4, <1>5 DEF Call

\* A step of one thread keeps the builds of all calls in order.
LEMMA ThreadKeepsOrder ==
    ASSUME Inv, Order, NEW t \in Threads, Call(t) \/ Step(t) \/ Failure(t)
    PROVE  Order'
<1>1. OthersStay(t) /\ UNCHANGED <<installed, released>>
  BY StepStays DEF Inv
<1>2. ASSUME NEW u \in Threads \ {t}
      PROVE  Ordered(u)' /\ Undisturbed(u)'
  BY <1>1 DEF Order, Ordered, Undisturbed, OthersStay
<1>3. \A u \in Threads : Ordered(u)' /\ Undisturbed(u)'
  BY <1>2, StepIsOrdered
<1>4. NeverOlderThanLabel' /\ StatesOrdered'
  BY FilesAreOrdered, StatesAreOrdered
<1> QED
  BY <1>1, <1>3, <1>4 DEF Order

\* A patch that goes forward keeps what was read before it in order.
LEMMA OutsideKeepsOrder ==
    ASSUME ~MayRevert, Inv, Order, StartPatch \/ FinishPatch \/ ImportKey
    PROVE  Order'
<1>1. UNCHANGED <<files, cells, pc, want, dest, key, seen, got, start>>
  BY DEF StartPatch, FinishPatch, ImportKey, call
<1>2. /\ released' \in Nat /\ released' >= released
      /\ installed' \in {Unreadable, released'}
  BY BuildsAreNumbers, Numbers DEF Inv, TypeOK, Order, StartPatch, FinishPatch, ImportKey
<1>3. NeverOlderThanLabel'
  BY <1>1 DEF Order, NeverOlderThanLabel, Exists
<1>4. StatesOrdered'
  <2>1. \A p \in Procs, b \in Builds : cells[p][b].st = "ok" => cells[p][b].build \in Nat
    BY BuildsAreNumbers DEF Inv, StatesInv
  <2>2. released \in Nat
    BY BuildsAreNumbers DEF Inv, TypeOK
  <2> QED
    BY <1>1, <1>2, <2>1, <2>2 DEF Order, StatesOrdered
<1>5. ASSUME NEW t \in Threads
      PROVE  Ordered(t)'
  BY <1>1, <1>2, Numbers DEF Inv, Order, Ordered
<1>6. ASSUME NEW t \in Threads
      PROVE  Undisturbed(t)'
  <2>1. CASE StartPatch
    <3>1. disturbed'[t] = (disturbed[t] \/ pc[t] \notin {"idle", "done"})
      BY <2>1 DEF StartPatch
    <3>2. got[t] # NoBytes => pc[t] \in Writing \cup {"done"}
      BY DEF Order, Ordered
    <3> QED
      BY <1>1, <3>1, <3>2 DEF Order, Undisturbed, Keyed, Opening, WithState, Writing
  <2>2. CASE FinishPatch
    <3>1. disturbed'[t] = disturbed[t] /\ installed = 0
      BY <2>2 DEF FinishPatch, call, Unreadable
    <3>2. ~disturbed[t] => pc[t] \in {"idle", "done"}
      BY <3>1 DEF Order, Ordered, Undisturbed
    <3> QED
      BY <1>1, <3>1, <3>2 DEF Order, Undisturbed, Keyed, Opening, WithState, Writing
  <2>3. CASE ImportKey
    BY <1>1, <2>3 DEF Order, Undisturbed, ImportKey, call
  <2> QED
    BY <2>1, <2>2, <2>3
<1> QED
  BY <1>2, <1>3, <1>4, <1>5, <1>6 DEF Order

\* A killed call has no builds to keep in order.
LEMMA KillKeepsOrder ==
    ASSUME Inv, Order, NEW p \in Procs, Kill(p)
    PROVE  Order'
<1>1. /\ cells' = [cells EXCEPT ![p] = [b \in Builds |-> EmptyCell]]
      /\ UNCHANGED <<disk, dest, key, seen, call>>
      /\ pc' = [t \in Threads |-> IF ProcOf[t] = p THEN "idle" ELSE pc[t]]
      /\ got' = [t \in Threads |-> IF ProcOf[t] = p THEN NoBytes ELSE got[t]]
  BY DEF Kill
<1>2. NeverOlderThanLabel' /\ installed' \in {Unreadable, released'}
  BY <1>1 DEF Order, NeverOlderThanLabel, Exists, disk
<1>3. StatesOrdered'
  BY <1>1 DEF Inv, TypeOK, Order, StatesOrdered, EmptyCell, disk
<1>4. ASSUME NEW t \in Threads
      PROVE  Ordered(t)' /\ Undisturbed(t)'
  <2>1. CASE ProcOf[t] = p
    <3>1. pc'[t] = "idle" /\ got'[t] = NoBytes
      BY <1>1, <2>1
    <3> QED
      BY <1>1, <3>1 DEF Order, Ordered, Undisturbed, Keyed, Opening, WithState, Writing, disk, call
  <2>2. CASE ProcOf[t] # p
    <3>1. pc'[t] = pc[t] /\ got'[t] = got[t]
      BY <1>1, <2>2
    <3> QED
      BY <1>1, <3>1 DEF Order, Ordered, Undisturbed, disk, call
  <2> QED
    BY <2>1, <2>2
<1> QED
  BY <1>2, <1>3, <1>4 DEF Order

\* While builds only go forward, a call's builds are in order.
THEOREM BuildsInOrder == ASSUME ~MayRevert PROVE Spec => []Order
<1>1. Init => Order
  <2> SUFFICES ASSUME Init PROVE Order
    OBVIOUS
  <2>1. NeverOlderThanLabel
    BY BuildsAreNumbers DEF Init, NeverOlderThanLabel, Exists
  <2>2. StatesOrdered
    BY DEF Init, StatesOrdered, EmptyCell
  <2>3. ASSUME NEW t \in Threads
        PROVE  Ordered(t) /\ Undisturbed(t)
    BY <2>3 DEF Init, Ordered, Undisturbed, Keyed, Opening, WithState, Writing
  <2> QED
    BY <2>1, <2>2, <2>3 DEF Init, Order
<1>2. Inv /\ Order /\ [Next]_vars => Order'
  <2> SUFFICES ASSUME Inv, Order, [Next]_vars PROVE Order'
    OBVIOUS
  <2>1. CASE UNCHANGED vars
    <3>1. UNCHANGED <<disk, cells, pc, dest, key, seen, got, call>>
      BY <2>1 DEF vars
    <3> QED
      BY <3>1 DEF Order, NeverOlderThanLabel, Exists, StatesOrdered, Ordered, Undisturbed, disk, call
  <2>2. ASSUME NEW t \in Threads, Call(t) \/ Step(t) \/ Failure(t)
        PROVE  Order'
    BY <2>2, ThreadKeepsOrder
  <2>3. ASSUME NEW p \in Procs, Kill(p)
        PROVE  Order'
    BY <2>3, KillKeepsOrder
  <2>4. CASE StartPatch \/ FinishPatch \/ ImportKey
    BY <2>4, OutsideKeepsOrder
  <2> QED
    BY <2>1, <2>2, <2>3, <2>4 DEF Next
<1> QED
  BY <1>1, <1>2, CallsHaveShape, PTL DEF Spec

\* Bytes are never filed under a build newer than their own, whatever patches
\* and kills overlap whatever number of calls.
THEOREM LabelsAreNotNewer == ASSUME ~MayRevert PROVE Spec => []NeverOlderThanLabel
<1>1. Order => NeverOlderThanLabel
  BY DEF Order
<1> QED
  BY <1>1, BuildsInOrder, PTL

\* No call is answered from a build older than the one installed when it began.
THEOREM AnswersAreCurrent == ASSUME ~MayRevert PROVE Spec => []ReadsAreCurrent
<1>1. Inv /\ Order => ReadsAreCurrent
  <2> SUFFICES ASSUME Inv, Order, NEW t \in Threads, got[t] # NoBytes
               PROVE  got[t].build >= start[t] /\ got[t].build <= released
    BY DEF ReadsAreCurrent
  <2> QED
    BY Numbers DEF Inv, Order, Ordered
<1> QED
  BY <1>1, CallsHaveShape, BuildsInOrder, PTL

\* A call that no patch overlaps is answered from the installed build, and filed
\* under it.
THEOREM UndisturbedCallsAreExact == ASSUME ~MayRevert PROVE Spec => []UndisturbedIsExact
<1>1. Order => UndisturbedIsExact
  BY DEF Order, Undisturbed, UndisturbedIsExact
<1> QED
  BY <1>1, BuildsInOrder, PTL

-----------------------------------------------------------------------------
(* Waiting for an initializer *)

\* A cell is busy only while a thread of its process is creating its state.
BusyInv == \A p \in Procs, b \in Builds :
    cells[p][b].st = "busy" => \E u \in Threads : Creates(u, p, b)

\* A cell that is busy after a step of thread t was busy before, for another
\* thread or for t, which is still at work on it, or is now marked by t.
Attended(t, p, b) ==
    \/ Creates(t, p, b)'
    \/ cells[p][b].st = "busy" /\ ~Creates(t, p, b)

\* An initializer that goes on, or whose cell is filled.
LEMMA CreatorAttends ==
    ASSUME Inv, NEW t \in Threads, pc[t] \in Opening, NEW c \in CellStates,
           SetCell(t, c), UNCHANGED key, c.st = "busy" => pc'[t] \in Opening,
           NEW p \in Procs, NEW b \in Builds, cells'[p][b].st = "busy"
    PROVE  Attended(t, p, b)
<1>1. key[t] \in Builds
  BY AtCell DEF Keyed
<1>2. cells'[p][b] = IF p = ProcOf[t] /\ b = key[t] THEN c ELSE cells[p][b]
  BY <1>1, SetCellIs DEF Inv
<1> QED
  BY <1>2 DEF Attended, Creates, Opening

\* A step of a thread that creates no state and fills no cell.
LEMMA BystanderAttends ==
    ASSUME Inv, NEW t \in Threads, pc[t] \notin Opening,
           \/ UNCHANGED cells
           \/ /\ pc[t] \in WithState
              /\ \E c \in CellStates : c.st = "ok" /\ SetCell(t, c),
           NEW p \in Procs, NEW b \in Builds, cells'[p][b].st = "busy"
    PROVE  Attended(t, p, b)
<1>1. ~Creates(t, p, b)
  BY DEF Creates, Opening
<1>2. CASE UNCHANGED cells
  BY <1>1, <1>2 DEF Attended
<1>3. ASSUME pc[t] \in WithState, NEW c \in CellStates, c.st = "ok", SetCell(t, c)
      PROVE  cells[p][b].st = "busy"
  <2>1. key[t] \in Builds
    BY <1>3, AtCell DEF Keyed
  <2>2. cells'[p][b] = IF p = ProcOf[t] /\ b = key[t] THEN c ELSE cells[p][b]
    BY <1>3, <2>1, SetCellIs DEF Inv
  <2> QED
    BY <1>3, <2>2
<1> QED
  BY <1>1, <1>2, <1>3 DEF Attended

\* The error of an initializer fills its cell.
LEMMA FailCellAttends ==
    ASSUME Inv, NEW t \in Threads, pc[t] \in Opening, FailCell(t), UNCHANGED key,
           NEW p \in Procs, NEW b \in Builds, cells'[p][b].st = "busy"
    PROVE  Attended(t, p, b)
<1> DEFINE c == [Cell(t) EXCEPT !.st = "err"]
<1>1. pc[t] \in Keyed
  BY DEF Keyed
<1>2. c \in CellStates /\ c.st # "busy" /\ SetCell(t, c)
  BY <1>1, AtCell DEF CellStates, FailCell
<1> HIDE DEF c
<1> QED
  BY <1>2, CreatorAttends

\* Setting one of the lazy parts of a state leaves it ready.
LEMMA LazyPartStaysReady ==
    ASSUME Inv, NEW t \in Threads, pc[t] \in WithState,
           NEW i \in {"ok", "failed"},
           \/ SetCell(t, [Cell(t) EXCEPT !.init = i])
           \/ SetCell(t, [Cell(t) EXCEPT !.local = i])
    PROVE  \E c \in CellStates : c.st = "ok" /\ SetCell(t, c)
<1>1. Cell(t) \in CellStates /\ Cell(t).st = "ok"
  BY AtCell DEF Keyed
<1>2. CASE SetCell(t, [Cell(t) EXCEPT !.init = i])
  <2> DEFINE c == [Cell(t) EXCEPT !.init = i]
  <2>1. c \in CellStates /\ c.st = "ok" /\ SetCell(t, c)
    BY <1>1, <1>2 DEF CellStates
  <2> HIDE DEF c
  <2> QED
    BY <2>1
<1>3. CASE SetCell(t, [Cell(t) EXCEPT !.local = i])
  <2> DEFINE c == [Cell(t) EXCEPT !.local = i]
  <2>1. c \in CellStates /\ c.st = "ok" /\ SetCell(t, c)
    BY <1>1, <1>3 DEF CellStates
  <2> HIDE DEF c
  <2> QED
    BY <2>1
<1> QED
  BY <1>2, <1>3

\* Whatever a thread does, a busy cell has its initializer.
LEMMA StepAttends ==
    ASSUME Inv, NEW t \in Threads, Call(t) \/ Step(t) \/ Failure(t),
           NEW p \in Procs, NEW b \in Builds, cells'[p][b].st = "busy"
    PROVE  Attended(t, p, b)
<1>1. CASE UNCHANGED cells /\ pc[t] \notin Opening
  BY <1>1, BystanderAttends
<1>2. ASSUME NEW i \in {"ok", "failed"}, pc[t] \in WithState,
             \/ SetCell(t, [Cell(t) EXCEPT !.init = i])
             \/ SetCell(t, [Cell(t) EXCEPT !.local = i])
      PROVE  Attended(t, p, b)
  <2>1. \E c \in CellStates : c.st = "ok" /\ SetCell(t, c)
    BY <1>2, LazyPartStaysReady
  <2> QED
    BY <1>2, <2>1, BystanderAttends DEF Opening, WithState
<1>3. ASSUME pc[t] \in WithState, OpenLocal(t)
      PROVE  Attended(t, p, b)
  <2>1. \E l \in {"ok", "failed"} : SetCell(t, [Cell(t) EXCEPT !.local = l])
    BY <1>3, OpenLocalIs DEF Keyed
  <2> QED
    BY <1>2, <1>3, <2>1
<1>4. CASE EnterCell(t)
  <2>1. CASE SetCell(t, [Cell(t) EXCEPT !.st = "busy"]) /\ Goto(t, "open")
    <3> DEFINE c == [Cell(t) EXCEPT !.st = "busy"]
    <3>1. pc[t] \in Keyed /\ pc[t] = "cell" /\ UNCHANGED key
      BY <1>4 DEF Keyed, EnterCell
    <3>2. c \in CellStates /\ SetCell(t, c) /\ key[t] \in Builds
      BY <2>1, <3>1, AtCell DEF CellStates
    <3> HIDE DEF c
    <3>3. cells'[p][b] = IF p = ProcOf[t] /\ b = key[t] THEN c ELSE cells[p][b]
      BY <3>2, SetCellIs DEF Inv
    <3>4. pc'[t] = "open" /\ ~Creates(t, p, b)
      BY <2>1, <3>1 DEF Goto, Set, Inv, TypeOK, Creates
    <3> QED
      BY <3>1, <3>3, <3>4 DEF Attended, Creates
  <2> QED
    BY <1>1, <1>4, <2>1 DEF EnterCell, Opening
<1>5. CASE OpenState(t)
  <2>1. pc[t] \in Opening /\ UNCHANGED key
    BY <1>5 DEF OpenState, Opening
  <2>2. CASE UNCHANGED cells /\ Goto(t, "keys")
    BY <2>1, <2>2 DEF Attended, Creates, Goto, Set, Inv, TypeOK
  <2> QED
    BY <1>5, <2>1, <2>2, FailCellAttends DEF OpenState
<1>6. CASE LoadKeys(t)
  <2>1. pc[t] \in Opening /\ pc[t] \in Keyed /\ UNCHANGED key
    BY <1>6 DEF LoadKeys, Opening, Keyed
  <2>2. CASE SetCell(t, [Cell(t) EXCEPT !.keys = keyKnown]) /\ Goto(t, "tables")
    <3> DEFINE c == [Cell(t) EXCEPT !.keys = keyKnown]
    <3>1. c \in CellStates /\ SetCell(t, c)
      BY <2>1, <2>2, AtCell DEF CellStates, Inv, TypeOK
    <3>2. pc'[t] \in Opening
      BY <2>2 DEF Goto, Set, Inv, TypeOK, Opening
    <3> HIDE DEF c
    <3> QED
      BY <2>1, <3>1, <3>2, CreatorAttends
  <2> QED
    BY <1>6, <2>1, <2>2, FailCellAttends DEF LoadKeys
<1>7. CASE OpenTables(t)
  <2>1. pc[t] \in Opening /\ pc[t] \in Keyed /\ UNCHANGED key /\ pc[t] = "tables"
    BY <1>7 DEF OpenTables, Opening, Keyed
  <2>2. CASE SetCell(t, [Cell(t) EXCEPT !.st = "ok", !.build = seen[t]])
    <3> DEFINE c == [Cell(t) EXCEPT !.st = "ok", !.build = seen[t]]
    <3>1. c \in CellStates /\ c.st # "busy" /\ SetCell(t, c)
      BY <2>1, <2>2, AtCell DEF CellStates
    <3> HIDE DEF c
    <3> QED
      BY <2>1, <3>1, CreatorAttends
  <2> QED
    BY <1>7, <2>1, <2>2, FailCellAttends DEF OpenTables
<1>8. CASE EnsureInitialized(t)
  BY <1>1, <1>2, <1>8 DEF EnsureInitialized, WithState, Opening
<1>9. CASE Warm(t)
  BY <1>3, <1>9 DEF Warm, WithState
<1>10. CASE ReadEncrypted(t) \/ ReadFallback(t)
  BY <1>1, <1>3, <1>10 DEF ReadEncrypted, ReadFallback, ReadWithKeys, WithState, Opening
<1>11. CASE CascError(t)
  <2>1. CASE pc[t] \in Opening /\ FailCell(t)
    BY <1>11, <2>1, FailCellAttends DEF CascError, Fault
  <2> QED
    BY <1>2, <1>3, <1>11, <2>1 DEF CascError, WithState, Opening
<1>12. CASE \/ Call(t) \/ Lookup(t) \/ Current(t) \/ Recheck(t) \/ GetKey(t) \/ ReadPlain(t)
            \/ ReadAbsent(t) \/ StartWrite(t) \/ FinishWrite(t) \/ Rename(t) \/ DiskError(t)
  BY <1>1, <1>12 DEF Call, Lookup, Current, Recheck, GetKey, ReadPlain, ReadAbsent, StartWrite,
                     FinishWrite, Rename, DiskError, Opening
<1> QED
  BY <1>4, <1>5, <1>6, <1>7, <1>8, <1>9, <1>10, <1>11, <1>12 DEF Step, Failure

\* No step leaves a cell busy with nobody to fill it.
LEMMA NextAttends ==
    ASSUME Inv, BusyInv, [Next]_vars
    PROVE  BusyInv'
<1> SUFFICES ASSUME NEW p \in Procs, NEW b \in Builds, cells'[p][b].st = "busy"
             PROVE  \E u \in Threads : Creates(u, p, b)'
  BY DEF BusyInv
<1>1. ASSUME NEW t \in Threads, Call(t) \/ Step(t) \/ Failure(t)
      PROVE  \E u \in Threads : Creates(u, p, b)'
  <2>1. CASE Creates(t, p, b)'
    BY <2>1
  <2>2. CASE cells[p][b].st = "busy" /\ ~Creates(t, p, b)
    <3>1. PICK u \in Threads : Creates(u, p, b)
      BY <2>2 DEF BusyInv
    <3>2. u # t
      BY <2>2, <3>1
    <3>3. pc'[u] = pc[u] /\ key'[u] = key[u]
      BY <1>1, <3>2, StepStays DEF Inv, OthersStay
    <3> QED
      BY <3>1, <3>3 DEF Creates
  <2> QED
    BY <1>1, <2>1, <2>2, StepAttends DEF Attended
<1>2. ASSUME NEW q \in Procs, Kill(q)
      PROVE  \E u \in Threads : Creates(u, p, b)'
  <2>1. /\ cells' = [cells EXCEPT ![q] = [c \in Builds |-> EmptyCell]]
        /\ pc' = [t \in Threads |-> IF ProcOf[t] = q THEN "idle" ELSE pc[t]]
        /\ UNCHANGED key
    BY <1>2 DEF Kill
  <2>2. p # q /\ cells[p][b].st = "busy"
    BY <2>1 DEF Inv, TypeOK, EmptyCell
  <2>3. PICK u \in Threads : Creates(u, p, b)
    BY <2>2 DEF BusyInv
  <2>4. pc'[u] = pc[u] /\ key'[u] = key[u]
    BY <2>1, <2>2, <2>3 DEF Creates
  <2> QED
    BY <2>3, <2>4 DEF Creates
<1>3. CASE UNCHANGED vars \/ StartPatch \/ FinishPatch \/ ImportKey
  <2>1. UNCHANGED <<cells, pc, key>>
    BY <1>3 DEF vars, StartPatch, FinishPatch, ImportKey
  <2>2. PICK u \in Threads : Creates(u, p, b)
    BY <2>1 DEF BusyInv
  <2> QED
    BY <2>1, <2>2 DEF Creates
<1> QED
  BY <1>1, <1>2, <1>3 DEF Next

\* No two threads of a process create one state, a cell is busy only while one of
\* them is at work on it, and nobody uses a state that is not ready: for any
\* number of threads, processes and builds, wherever initializers fail and
\* processes are killed.
THEOREM OneInitializer == Spec => []OneInitializerPerKey
<1>1. Init => BusyInv
  BY DEF Init, BusyInv, EmptyCell
<1>2. Inv /\ BusyInv /\ [Next]_vars => BusyInv'
  BY NextAttends
<1>3. Inv /\ BusyInv => OneInitializerPerKey
  <2> SUFFICES ASSUME Inv, BusyInv PROVE OneInitializerPerKey
    OBVIOUS
  <2>1. \A t, u \in Threads :
          Creates(t, ProcOf[t], key[t]) /\ Creates(u, ProcOf[t], key[t]) => t = u
    BY DEF Inv, AtMostOneInitializer, Creates, Opening
  <2>2. \A t \in Threads : pc[t] \in {"init", "warm", "read"} => Cell(t).st = "ok"
    BY DEF Inv, Shape, CellShape, WithState
  <2> QED
    BY <2>1, <2>2 DEF BusyInv, OneInitializerPerKey
<1> QED
  BY <1>1, <1>2, <1>3, CallsHaveShape, PTL DEF Spec

-----------------------------------------------------------------------------
(* The shelf *)

\* From the reading of the destination to the return of the call.
Filing == {"recheck", "key"} \cup Keyed \cup Writing

\* A call with a receipt has read the build that it files its bytes under after
\* it began.
Settled(t) == want[t] # Unqualified /\ pc[t] \in Filing => start[t] <= dest[t]

SettledInv == \A t \in Threads : Settled(t)

\* What the shelf shows of the calls.
Asking == {t \in Threads : pc[t] \notin {"idle", "done"}}
Found == [t \in Threads |-> IF Returned(t) /\ op[t] = "ensure" THEN {dest[t]} ELSE {}]
ReadOut == [t \in Threads |-> IF Returned(t) /\ op[t] = "bytes" THEN {got[t]} ELSE {}]

\* The bytes that a call returns, and the path where it finds or files them.
ReadsBytes(t) ==
    /\ pc[t] = "read" /\ op[t] = "bytes" /\ UNCHANGED <<disk, dest>>
    /\ got' = Set(got, t, Decoded(Cell(t)))
    /\ Return(t, "ok")

FindsFile(t) ==
    /\ pc[t] \in {"lookup", "recheck"} /\ Exists(dest[t]) /\ UNCHANGED <<disk, dest>>
    /\ Return(t, "ok")

\* Every other step goes on, or returns with nothing to show.
Quiet(t) ==
    /\ UNCHANGED files
    /\ \/ pc'[t] \notin {"idle", "done"}
       \/ pc'[t] = "done" /\ (result'[t] = "err" \/ op[t] = "warm")

\* A step of a call that has bytes: it returns or writes them, or fails.
LEMMA AcceptShows ==
    ASSUME Inv, NEW t \in Threads, pc[t] = "read", UNCHANGED <<disk, dest>>,
           got' = Set(got, t, Decoded(Cell(t))), Accept(t, Decoded(Cell(t)))
    PROVE  Quiet(t) \/ ReadsBytes(t)
<1>1. CASE op[t] = "bytes" /\ Return(t, "ok")
  BY <1>1 DEF ReadsBytes
<1>2. CASE Return(t, "err") \/ Goto(t, "write")
  BY <1>2 DEF Quiet, Return, Goto, Set, Inv, TypeOK, disk
<1> QED
  BY <1>1, <1>2 DEF Accept

\* What the shelf shows of a step, and what it does not.
LEMMA StepShows ==
    ASSUME Inv, NEW t \in Threads, Step(t) \/ Failure(t)
    PROVE  /\ pc[t] \notin {"idle", "done"} /\ UNCHANGED call
           /\ Quiet(t) \/ FindsFile(t) \/ Rename(t) \/ ReadsBytes(t)
<1> USE DEF Inv, TypeOK, Quiet, Set, Goto, Return, disk
<1>2. CASE Lookup(t)
  <2>1. pc[t] = "lookup" => dest[t] = want[t]
    BY DEF Shape, CallShape
  <2> QED
    BY <1>2, <2>1 DEF Lookup, FindsFile
<1>3. CASE Current(t)
  BY <1>3 DEF Current
<1>4. CASE Recheck(t)
  BY <1>4 DEF Recheck, FindsFile
<1>5. CASE GetKey(t)
  BY <1>5 DEF GetKey
<1>6. CASE EnterCell(t)
  BY <1>6 DEF EnterCell
<1>7. CASE OpenState(t)
  BY <1>7 DEF OpenState, FailCell
<1>8. CASE LoadKeys(t)
  BY <1>8 DEF LoadKeys, FailCell
<1>9. CASE OpenTables(t)
  BY <1>9 DEF OpenTables, FailCell
<1>10. CASE EnsureInitialized(t)
  BY <1>10 DEF EnsureInitialized
<1>11. CASE Warm(t)
  <2>1. pc[t] = "warm" => op[t] = "warm"
    BY DEF Shape, CallShape
  <2> QED
    BY <1>11, <2>1 DEF Warm
<1>12. CASE ReadPlain(t)
  BY <1>12, AcceptShows DEF ReadPlain
<1>13. CASE ReadEncrypted(t) \/ ReadFallback(t)
  <2>1. /\ pc[t] = "read" /\ UNCHANGED <<disk, dest, call>>
        /\ \/ Return(t, "err") /\ UNCHANGED <<cells, got>>
           \/ got' = Set(got, t, Decoded(Cell(t))) /\ Accept(t, Decoded(Cell(t)))
    BY <1>13 DEF ReadEncrypted, ReadFallback, ReadWithKeys, Fault
  <2>2. CASE Return(t, "err") /\ UNCHANGED <<cells, got>>
    BY <2>1, <2>2
  <2>3. CASE got' = Set(got, t, Decoded(Cell(t))) /\ Accept(t, Decoded(Cell(t)))
    BY <2>1, <2>3, AcceptShows
  <2> QED
    BY <2>1, <2>2, <2>3
<1>14. CASE ReadAbsent(t)
  BY <1>14 DEF ReadAbsent
<1>15. CASE StartWrite(t)
  BY <1>15 DEF StartWrite
<1>16. CASE FinishWrite(t)
  BY <1>16 DEF FinishWrite
<1>17. CASE Rename(t)
  BY <1>17 DEF Rename
<1>18. CASE CascError(t)
  <2>1. pc[t] = "warm" => op[t] = "warm"
    BY DEF Shape, CallShape
  <2> QED
    BY <1>18, <2>1 DEF CascError, FailCell, Fault
<1>19. CASE DiskError(t)
  BY <1>19 DEF DiskError, Fault
<1> QED
  BY <1>2, <1>3, <1>4, <1>5, <1>6, <1>7, <1>8, <1>9, <1>10, <1>11,
     <1>12, <1>13, <1>14, <1>15, <1>16, <1>17, <1>18, <1>19 DEF Step, Failure

\* The destination is read once, after the call began.
LEMMA StepSettles ==
    ASSUME Inv, Order, NEW t \in Threads, Settled(t),
           Call(t) \/ Step(t) \/ Failure(t)
    PROVE  Settled(t)'
<1> USE DEF Inv, TypeOK, Settled, Filing, Keyed, Opening, WithState, Writing,
            Set, Goto, Return, call
<1>1. CASE Call(t)
  <2>1. PICK o \in {"ensure", "bytes", "warm"}, w \in Labels :
          /\ o # "ensure" => w = Unqualified
          /\ want' = Set(want, t, w)
          /\ pc' = Set(pc, t, IF o = "ensure" THEN "lookup" ELSE "key")
    BY <1>1 DEF Call
  <2>2. want'[t] = w /\ pc'[t] = IF o = "ensure" THEN "lookup" ELSE "key"
    BY <2>1
  <2> QED
    BY <2>1, <2>2
<1>2. CASE Current(t)
  <2>1. CASE want[t] = Unqualified
    BY <1>2, <2>1 DEF Current
  <2>2. CASE pc'[t] = "done"
    BY <2>2
  <2>3. CASE installed # Unreadable /\ dest'[t] = installed /\ UNCHANGED start
    BY <2>3 DEF Order, Ordered
  <2> QED
    BY <1>2, <2>1, <2>2, <2>3 DEF Current
<1>3. CASE UNCHANGED <<dest, want, start>> /\ (pc'[t] \in Filing => pc[t] \in Filing)
  BY <1>3
<1>4. CASE Lookup(t)
  BY <1>4 DEF Lookup
<1>5. CASE Recheck(t) \/ GetKey(t) \/ EnterCell(t)
  BY <1>3, <1>5 DEF Recheck, GetKey, EnterCell
<1>6. CASE OpenState(t) \/ LoadKeys(t) \/ OpenTables(t)
  BY <1>3, <1>6 DEF OpenState, LoadKeys, OpenTables
<1>7. CASE EnsureInitialized(t) \/ Warm(t)
  BY <1>3, <1>7 DEF EnsureInitialized, Warm
<1>8. CASE ReadPlain(t) \/ ReadEncrypted(t) \/ ReadAbsent(t)
  BY <1>3, <1>8 DEF ReadPlain, ReadEncrypted, ReadAbsent
<1>9. CASE StartWrite(t) \/ FinishWrite(t) \/ Rename(t)
  BY <1>3, <1>9 DEF StartWrite, FinishWrite, Rename
<1>10. CASE Failure(t)
  BY <1>3, <1>10 DEF Failure, CascError, ReadFallback, DiskError, Fault
<1> QED
  BY <1>1, <1>2, <1>4, <1>5, <1>6, <1>7, <1>8, <1>9, <1>10 DEF Step

\* No step of another thread, of the installer or of a kill moves a destination.
LEMMA NextSettles ==
    ASSUME Inv, Order, SettledInv, [Next]_vars
    PROVE  SettledInv'
<1> SUFFICES ASSUME NEW u \in Threads PROVE Settled(u)'
  BY DEF SettledInv
<1>1. Settled(u)
  BY DEF SettledInv
<1>2. CASE UNCHANGED <<dest, want, start>> /\ pc'[u] \in {pc[u], "idle"}
  BY <1>1, <1>2 DEF Settled, Filing, Keyed, Opening, WithState, Writing
<1>3. CASE UNCHANGED vars
  BY <1>2, <1>3 DEF vars, call
<1>4. ASSUME NEW t \in Threads, Call(t) \/ Step(t) \/ Failure(t)
      PROVE  Settled(u)'
  <2>1. CASE u = t
    BY <1>1, <1>4, <2>1, StepSettles
  <2>2. CASE u # t
    <3>1. OthersStay(t)
      BY <1>4, StepStays DEF Inv
    <3> QED
      BY <1>1, <2>2, <3>1 DEF OthersStay, Settled
  <2> QED
    BY <2>1, <2>2
<1>5. ASSUME NEW p \in Procs, Kill(p)
      PROVE  Settled(u)'
  <2>1. UNCHANGED <<dest, want, start>>
    BY <1>5 DEF Kill, call
  <2>2. pc' = [t \in Threads |-> IF ProcOf[t] = p THEN "idle" ELSE pc[t]]
    BY <1>5 DEF Kill
  <2> QED
    BY <1>2, <2>1, <2>2
<1>6. CASE StartPatch \/ FinishPatch \/ ImportKey
  BY <1>2, <1>6 DEF StartPatch, FinishPatch, ImportKey, call
<1> QED
  BY <1>3, <1>4, <1>5, <1>6 DEF Next

\* The destination of a call is never older than its start.
THEOREM DestinationsSettle == ASSUME ~MayRevert PROVE Spec => []SettledInv
<1>1. Init => SettledInv
  BY DEF Init, SettledInv, Settled, Filing, Keyed, Opening, WithState, Writing
<1>2. Inv /\ Order /\ SettledInv /\ [Next]_vars => SettledInv'
  BY NextSettles
<1> QED
  BY <1>1, <1>2, CallsHaveShape, BuildsInOrder, PTL DEF Spec

\* A call that goes on shows nothing, whoever else is calling.
LEMMA GoingOnIsHidden ==
    ASSUME Inv, NEW t \in Threads, OthersStay(t), pc[t] \in {"idle", "done"} <=> pc'[t] \in {"idle", "done"},
           pc[t] \notin {"idle", "done"}, UNCHANGED <<released, files, call>>
    PROVE  UNCHANGED Shelf!vars
<1>1. Asking' = Asking
  BY DEF Asking, OthersStay
<1>2. ASSUME NEW u \in Threads
      PROVE  /\ Returned(u)' <=> Returned(u)
             /\ Returned(u) => dest'[u] = dest[u] /\ got'[u] = got[u]
  BY DEF Returned, OthersStay
<1>3. Found' = Found
  BY <1>2 DEF Found, call
<1>4. ReadOut' = ReadOut
  BY <1>2 DEF ReadOut, call
<1> QED
  BY <1>1, <1>3, <1>4 DEF Shelf!vars, Shelf!outcome, Asking, Found, ReadOut, call

\* A call that returns shows what it found or read.
LEMMA ReturnShows ==
    ASSUME Inv, NEW t \in Threads, OthersStay(t), pc[t] \notin {"idle", "done"}, pc'[t] = "done",
           UNCHANGED <<released, call>>, NEW places, NEW bytes,
           IF result'[t] = "ok" /\ op[t] = "ensure" THEN places = {dest'[t]} ELSE places = {},
           IF result'[t] = "ok" /\ op[t] = "bytes" THEN bytes = {got'[t]} ELSE bytes = {}
    PROVE  Shelf!Return(t, places, bytes)
<1>1. t \in Asking /\ Asking' = Asking \ {t}
  BY DEF Asking, OthersStay
<1>2. Found' = [Found EXCEPT ![t] = places]
  BY DEF Found, Returned, OthersStay, call
<1>3. ReadOut' = [ReadOut EXCEPT ![t] = bytes]
  BY DEF ReadOut, Returned, OthersStay, call
<1> QED
  BY <1>1, <1>2, <1>3 DEF Shelf!Return, Asking, Found, ReadOut, call

\* One that returns with nothing leaves.
LEMMA QuietIsHidden ==
    ASSUME Inv, NEW t \in Threads, OthersStay(t), pc[t] \notin {"idle", "done"}, Quiet(t),
           UNCHANGED <<released, call>>
    PROVE  UNCHANGED Shelf!vars \/ Shelf!Leave(t)
<1>1. CASE pc'[t] \notin {"idle", "done"}
  BY <1>1, GoingOnIsHidden DEF Quiet
<1>2. CASE pc'[t] = "done" /\ (result'[t] = "err" \/ op[t] = "warm")
  <2>1. ~(result'[t] = "ok" /\ op[t] = "ensure") /\ ~(result'[t] = "ok" /\ op[t] = "bytes")
    BY <1>2
  <2>2. Shelf!Return(t, {}, {})
    BY <1>2, <2>1, ReturnShows
  <2> QED
    BY <2>2 DEF Quiet, Shelf!Leave
<1> QED
  BY <1>1, <1>2 DEF Quiet

\* A call asks for the build of its receipt.
LEMMA CallAsks ==
    ASSUME Inv, NEW t \in Threads, Call(t)
    PROVE  Shelf!Ask(t)
<1>1. PICK o \in {"ensure", "bytes", "warm"}, w \in Labels :
        /\ want' = Set(want, t, w)
        /\ pc' = Set(pc, t, IF o = "ensure" THEN "lookup" ELSE "key")
        /\ op' = Set(op, t, o)
  BY DEF Call
<1>2. /\ OthersStay(t) /\ UNCHANGED <<released, files>> /\ result'[t] = "none"
      /\ start' = [start EXCEPT ![t] = released]
  BY StepStays DEF Call, Inv, TypeOK, Set, disk
<1>3. pc[t] \in {"idle", "done"} /\ pc'[t] \notin {"idle", "done"}
  BY <1>1 DEF Call, Inv, TypeOK, Set
<1>4. t \notin Asking /\ Asking' = Asking \cup {t}
  BY <1>2, <1>3 DEF Asking, OthersStay
<1>5. ~Returned(t)' /\ \A u \in Threads \ {t} :
        /\ Returned(u)' <=> Returned(u)
        /\ dest'[u] = dest[u] /\ got'[u] = got[u] /\ op'[u] = op[u]
  BY <1>2, <1>3 DEF Returned, OthersStay
<1>6. Found' = [Found EXCEPT ![t] = {}]
  BY <1>5 DEF Found
<1>7. ReadOut' = [ReadOut EXCEPT ![t] = {}]
  BY <1>5 DEF ReadOut
<1>8. \E p \in Labels : want' = [want EXCEPT ![t] = p]
  BY <1>1 DEF Set
<1> QED
  BY <1>2, <1>4, <1>6, <1>7, <1>8 DEF Shelf!Ask, Asking, Found, ReadOut

\* A file that is there, at the receipt's place or at the one read since.
LEMMA LookupFinds ==
    ASSUME Inv, Order, NEW t \in Threads, Settled(t), OthersStay(t), FindsFile(t), UNCHANGED call
    PROVE  Shelf!Find(t)
<1>1. op[t] = "ensure" /\ dest[t] \in Labels /\ pc[t] \notin {"idle", "done"}
  BY DEF Inv, TypeOK, Shape, CallShape, FindsFile
<1>2. pc'[t] = "done" /\ result'[t] = "ok" /\ dest'[t] = dest[t]
  BY DEF Inv, TypeOK, FindsFile, Return, Set
<1>3. Shelf!Return(t, {dest[t]}, {})
  BY <1>1, <1>2, ReturnShows DEF FindsFile, disk
<1>4. dest[t] = want[t] \/ (want[t] # Unqualified /\ dest[t] \in start[t]..released)
  <2>1. CASE pc[t] = "lookup" \/ want[t] = Unqualified
    BY <2>1 DEF Inv, Shape, CallShape
  <2>2. CASE pc[t] = "recheck" /\ want[t] # Unqualified
    BY <2>2, Numbers DEF Inv, Order, Ordered, Settled, Filing
  <2> QED
    BY <2>1, <2>2 DEF FindsFile
<1> QED
  BY <1>1, <1>3, <1>4 DEF Shelf!Find, FindsFile, Exists, disk

\* Bytes of a build between those of the start and of the return.
LEMMA ReadReads ==
    ASSUME Inv, Order, NEW t \in Threads, OthersStay(t), ReadsBytes(t), UNCHANGED call, Ordered(t)'
    PROVE  Shelf!Read(t)
<1>1. /\ pc[t] \notin {"idle", "done"} /\ pc'[t] = "done" /\ result'[t] = "ok"
      /\ got'[t] = Decoded(Cell(t)) /\ op[t] = "bytes" /\ UNCHANGED <<released, start, files>>
  BY DEF Inv, TypeOK, ReadsBytes, Return, Set, disk, call
<1>2. Decoded(Cell(t)) \in Bytes /\ Decoded(Cell(t)).whole
  <2>1. key[t] \in Builds /\ Cell(t).st = "ok" /\ ProcOf[t] \in Procs
    BY ConstantsAssumption DEF Inv, Shape, CellShape, Keyed, WithState, ReadsBytes
  <2>2. Cell(t).build \in Builds
    BY <2>1 DEF Inv, StatesInv, Cell
  <2> QED
    BY <2>2 DEF Decoded, Bytes
<1>3. got'[t].build \in start[t]..released
  <2>1. got'[t] # NoBytes
    BY <1>1, <1>2, BytesAreSomething
  <2>2. start[t] <= got'[t].build /\ got'[t].build <= released
    BY <1>1, <2>1 DEF Ordered
  <2>3. got'[t].build \in Nat
    BY <1>1, <1>2, BuildsAreNumbers DEF Bytes
  <2> QED
    BY <2>2, <2>3, Numbers DEF Inv
<1>4. PICK bytes : bytes = Decoded(Cell(t))
  OBVIOUS
<1>5. Shelf!Return(t, {}, {bytes})
  BY <1>1, <1>4, ReturnShows
<1> QED
  BY <1>1, <1>2, <1>3, <1>4, <1>5 DEF Shelf!Read

\* Whole bytes, at a place that is not newer than they are, and decoded if the
\* place names a build.
LEMMA RenameFiles ==
    ASSUME Inv, Order, NEW t \in Threads, Settled(t), OthersStay(t), Rename(t)
    PROVE  Shelf!File(t)
<1>1. /\ pc[t] \in Writing /\ op[t] = "ensure" /\ dest[t] \in Labels
      /\ temp[t] = got[t] /\ got[t] \in Bytes /\ got[t].whole
      /\ want[t] # Unqualified => ~got[t].zeroed
      /\ want[t] = Unqualified => dest[t] = Unqualified
  BY DEF Inv, TypeOK, Shape, CallShape, WriteShape, Writing, Rename
<1>2. /\ pc[t] \notin {"idle", "done"} /\ pc'[t] = "done" /\ result'[t] = "ok"
      /\ dest'[t] = dest[t] /\ UNCHANGED <<released, call>>
      /\ files' = [files EXCEPT ![dest[t]] = got[t]]
  BY <1>1 DEF Inv, TypeOK, Rename, Return, Set
<1>3. Shelf!Return(t, {dest[t]}, {})
  BY <1>1, <1>2, ReturnShows
<1>4. /\ got[t].build \in start[t]..released
      /\ want[t] # Unqualified => dest[t] \in start[t]..got[t].build
  BY <1>1, BytesAreSomething, Numbers DEF Inv, Order, Ordered, Settled, Filing
<1> QED
  BY <1>1, <1>2, <1>3, <1>4 DEF Shelf!File

\* A kill ends the calls of its process.
LEMMA KillCrashes ==
    ASSUME Inv, NEW p \in Procs, Kill(p)
    PROVE  Shelf!Crash(p)
<1>1. /\ UNCHANGED <<disk, dest, call>>
      /\ \A t \in Threads : ProcOf[t] = p => pc'[t] = "idle"
      /\ \A t \in Threads : ProcOf[t] # p =>
           pc'[t] = pc[t] /\ result'[t] = result[t] /\ got'[t] = got[t]
  BY DEF Kill
<1>2. Asking' = {t \in Asking : ProcOf[t] # p}
  BY <1>1 DEF Asking
<1>3. ASSUME NEW t \in Threads
      PROVE  /\ ProcOf[t] = p => ~Returned(t)'
             /\ ProcOf[t] # p => (Returned(t)' <=> Returned(t)) /\ got'[t] = got[t]
  BY <1>1 DEF Returned
<1>4. Found' = [t \in Threads |-> IF ProcOf[t] = p THEN {} ELSE Found[t]]
  BY <1>1, <1>3 DEF Found, call
<1>5. ReadOut' = [t \in Threads |-> IF ProcOf[t] = p THEN {} ELSE ReadOut[t]]
  BY <1>1, <1>3 DEF ReadOut, call
<1> QED
  BY <1>1, <1>2, <1>4, <1>5 DEF Shelf!Crash, Asking, Found, ReadOut, disk, call

\* The end of a patch is a release; its start and an import show nothing.
LEMMA OutsideReleases ==
    ASSUME ~MayRevert, Inv, StartPatch \/ FinishPatch \/ ImportKey
    PROVE  UNCHANGED Shelf!vars \/ Shelf!Release
<1>1. UNCHANGED <<files, start, want, op, pc, result, dest, got>>
  BY DEF StartPatch, FinishPatch, ImportKey, call
<1>2. UNCHANGED <<Asking, Found, ReadOut>>
  BY <1>1 DEF Asking, Found, ReadOut, Returned
<1>3. UNCHANGED released \/ (released' \in Labels /\ released' >= released)
  BY BuildsAreNumbers DEF StartPatch, FinishPatch, ImportKey
<1> QED
  BY <1>1, <1>2, <1>3 DEF Shelf!vars, Shelf!Release, Shelf!outcome, Asking, Found, ReadOut

\* Initially the shelf is empty and nobody asks.
LEMMA ShelfInit == Init => Shelf!Init
<1> SUFFICES ASSUME Init PROVE Shelf!Init
  OBVIOUS
<1>1. 1 \in Labels \ {Unqualified} /\ 0 \in Labels
  BY ConstantsAssumption, BuildsAreNumbers DEF Builds, Unqualified
<1>2. Asking = {} /\ \A t \in Threads : ~Returned(t)
  BY DEF Init, Asking, Returned
<1>3. Found = [t \in Threads |-> {}] /\ ReadOut = [t \in Threads |-> {}]
  BY <1>2 DEF Found, ReadOut
<1>4. start \in [Threads -> Labels] /\ want \in [Threads -> Labels]
  BY <1>1 DEF Init
<1> QED
  BY <1>1, <1>2, <1>3, <1>4 DEF Init, Shelf!Init, Asking, Found, ReadOut

\* Extraction implements the shelf: however many threads and processes share
\* registries and destinations, wherever patches, kills, failures and imports
\* fall between the steps of a call, it behaves as if it took effect at one
\* moment, with builds released no earlier than its start.
THEOREM ShelfRefinement == ASSUME ~MayRevert PROVE Spec => ImplementsShelf
<1>1. Inv /\ Order /\ SettledInv /\ [Next]_vars => [Shelf!Next]_(Shelf!vars)
  <2> SUFFICES ASSUME Inv, Order, SettledInv, [Next]_vars
               PROVE  Shelf!Next \/ UNCHANGED Shelf!vars
    OBVIOUS
  <2>1. CASE UNCHANGED vars
    BY <2>1 DEF vars, disk, call, Shelf!vars, Shelf!outcome, Returned
  <2>2. ASSUME NEW t \in Threads, Call(t)
        PROVE  Shelf!Next
    BY <2>2, CallAsks DEF Shelf!Next
  <2>3. ASSUME NEW t \in Threads, Step(t) \/ Failure(t)
        PROVE  Shelf!Next \/ UNCHANGED Shelf!vars
    <3>1. Settled(t)
      BY DEF SettledInv
    <3>2. OthersStay(t) /\ UNCHANGED released /\ Ordered(t)'
      BY <2>3, StepStays, StepIsOrdered DEF Inv
    <3>3. /\ pc[t] \notin {"idle", "done"} /\ UNCHANGED call
          /\ Quiet(t) \/ FindsFile(t) \/ Rename(t) \/ ReadsBytes(t)
      BY <2>3, StepShows
    <3>4. \/ UNCHANGED Shelf!vars
          \/ Shelf!Leave(t) \/ Shelf!Find(t) \/ Shelf!Read(t) \/ Shelf!File(t)
      BY <3>1, <3>2, <3>3, QuietIsHidden, LookupFinds, RenameFiles, ReadReads
    <3> QED
      BY <3>4 DEF Shelf!Next
  <2>4. ASSUME NEW p \in Procs, Kill(p)
        PROVE  Shelf!Next
    BY <2>4, KillCrashes DEF Shelf!Next
  <2>5. CASE StartPatch \/ FinishPatch \/ ImportKey
    BY <2>5, OutsideReleases DEF Shelf!Next
  <2> QED
    BY <2>1, <2>2, <2>3, <2>4, <2>5 DEF Next
<1> QED
  BY <1>1, ShelfInit, CallsHaveShape, BuildsInOrder, DestinationsSettle, PTL
     DEF Spec, ImplementsShelf, Shelf!Spec
=============================================================================
