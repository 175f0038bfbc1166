-------------------------- MODULE EthashDagProofs --------------------------
(***************************************************************************)
(* Proofs about the DAG file for any number of processes and nodes, whose  *)
(* calls of ethash_full_new overlap as they like.  What is said of the     *)
(* magic number holds until a call creates the file while another one is   *)
(* building it or about to map it: the first one then finalizes a file     *)
(* that the second one has emptied.                                        *)
(***************************************************************************)
EXTENDS EthashDag, TLAPS

USE NodesAssumption

\* The process has created the file and not yet finalized it.
Builds(p) == pc[p] \in {"resize", "mapnew", "fill"}

\* At most one process builds the file.
OneBuilder == \A p, q \in Processes : (Builds(p) /\ Builds(q)) => p = q

\* A file under construction has no magic number.
BuiltWithoutMagic == \A p \in Processes : Builds(p) => ~file.magic

\* A file that is being filled has its final size and the nodes before next.
BuiltInOrder ==
    \A p \in Processes :
        /\ pc[p] \in {"mapnew", "fill"} => file.size = FullSize
        /\ pc[p] = "fill" => \A n \in 1..Nodes : n < next[p] => file.nodes[n]

\* A process maps an existing file only while the magic number is there.
MapsFinalized == \A p \in Processes : pc[p] = "map" => file.magic

\* The state of the file and its users before the first clash.
Orderly ==
    /\ OneBuilder
    /\ BuiltWithoutMagic
    /\ BuiltInOrder
    /\ MapsFinalized
    /\ file.magic => Complete(file)

IInv == TypeOK /\ (~clashed => Orderly)

\* There is no file before the first ethash_full_new, and nobody is in a call.
LEMMA InitTypeOK == Init => TypeOK
<1> SUFFICES ASSUME Init PROVE TypeOK
  OBVIOUS
<1>1. clashed \in BOOLEAN
  BY Zenon DEF Init
<1>2. TypeOK \/ clashed \notin BOOLEAN
  BY DEF Init, TypeOK, NoFile, Places, FullSize
<1>. QED BY <1>1, <1>2

\* The files with a size in S and nodes in N.
FilesOf(S, N) == [present : BOOLEAN, size : S, magic : BOOLEAN, nodes : N]

\* ethash_io_prepare sets the size of the file and nothing else of it.
LEMMA ResizedFile ==
    ASSUME NEW S, NEW N, NEW f \in FilesOf(S, N), NEW s \in S
    PROVE  [f EXCEPT !.size = s] \in FilesOf(S, N)
  BY DEF FilesOf

\* Writing the magic number may make the file longer.
LEMMA FinalizedFile ==
    ASSUME NEW S, NEW N, NEW f \in FilesOf(S, N), NEW s \in S
    PROVE  [f EXCEPT !.magic = TRUE, !.size = s] \in FilesOf(S, N)
<1>1. [f EXCEPT !.magic = TRUE, !.size = s] = [[f EXCEPT !.magic = TRUE] EXCEPT !.size = s]
  BY DEF FilesOf
<1>2. [f EXCEPT !.magic = TRUE] \in FilesOf(S, N)
  BY DEF FilesOf
<1>. QED BY <1>1, <1>2, ResizedFile

\* ethash_compute_full_data stores one node at a time.
LEMMA FilledFile ==
    ASSUME NEW S, NEW D, NEW f \in FilesOf(S, [D -> BOOLEAN]), NEW n \in D
    PROVE  [f EXCEPT !.nodes[n] = TRUE] \in FilesOf(S, [D -> BOOLEAN])
<1> DEFINE N == [D -> BOOLEAN]
<1> HIDE DEF N
<1>1. [f EXCEPT !.nodes[n] = TRUE] = [f EXCEPT !.nodes = [f.nodes EXCEPT ![n] = TRUE]]
  BY DEF FilesOf
<1>2. f.nodes \in N /\ f \in FilesOf(S, N)
  BY DEF FilesOf, N
<1>3. [f.nodes EXCEPT ![n] = TRUE] \in N
  BY <1>2 DEF N
<1>4. [f EXCEPT !.nodes = [f.nodes EXCEPT ![n] = TRUE]] \in FilesOf(S, N)
  BY <1>2, <1>3 DEF FilesOf
<1>. QED BY <1>1, <1>4 DEF N

\* The sizes the file takes: created, with a magic number only, complete.
LEMMA Sizes == FullSize \in 0..FullSize /\ 0 \in 0..FullSize /\ 1 \in 0..FullSize
  BY DEF FullSize

\* The DAG files of this instance.
DagFiles == FilesOf(0..FullSize, [1..Nodes -> BOOLEAN])

\* TypeOK without the records that slow the provers down.
LEMMA TypeParts ==
    TypeOK <=> /\ file \in DagFiles
               /\ pc \in [Processes -> Places]
               /\ next \in [Processes -> 1..(Nodes + 1)]
               /\ disturbed \in [Processes -> BOOLEAN]
               /\ clashed \in BOOLEAN
  BY DEF TypeOK, DagFiles, FilesOf

\* The magic number leaves a DAG file a DAG file.
LEMMA FinalizedIsDag == ASSUME file \in DagFiles PROVE WithMagic(file) \in DagFiles
<1> DEFINE s == IF file.size = 0 THEN 1 ELSE file.size
<1>1. file.size \in 0..FullSize
  BY DEF DagFiles, FilesOf
<1>2. s \in 0..FullSize
  BY <1>1, Sizes
<1> HIDE DEF s
<1>3. [file EXCEPT !.magic = TRUE, !.size = s] \in DagFiles
  BY <1>2, FinalizedFile DEF DagFiles
<1>. QED BY <1>3 DEF WithMagic, s

\* A step whose new file is a DAG file and that moves one process.
LEMMA MovingKeepsTypes ==
    ASSUME TypeOK, NEW p \in Processes, NEW place \in Places, Goto(p, place),
           file' \in DagFiles, UNCHANGED next \/ ResetNode(p),
           UNCHANGED disturbed \/ Disturb(p), clashed' \in BOOLEAN
    PROVE  TypeOK'
<1>1. pc' \in [Processes -> Places]
  BY TypeParts DEF Goto
<1>2. disturbed' \in [Processes -> BOOLEAN]
  BY TypeParts, Zenon DEF Disturb
<1>3. next' \in [Processes -> 1..(Nodes + 1)]
  BY TypeParts DEF ResetNode
<1>. QED BY <1>1, <1>2, <1>3 DEF TypeOK, DagFiles, FilesOf

\* Every step of ethash_full_new_internal, of its failures and of a death keeps
\* the types.
LEMMA NextTypeOK == TypeOK /\ [Next]_vars => TypeOK'
<1> SUFFICES ASSUME TypeOK, [Next]_vars PROVE TypeOK'
  OBVIOUS
<1> USE DEF Goto, Disturb, ResetNode, Places
<1>0. file \in DagFiles /\ pc \in [Processes -> Places] /\ clashed \in BOOLEAN
  BY TypeParts
<1>1. ASSUME NEW p \in Processes, FullNew(p) PROVE TypeOK'
  BY <1>1 DEF FullNew, TypeOK
<1>2. ASSUME NEW p \in Processes, OpenExisting(p) \/ CheckSize(p) \/ CheckMagic(p) \/ ReadFails(p)
      PROVE TypeOK'
  BY <1>2 DEF OpenExisting, CheckSize, CheckMagic, ReadFails, TypeOK
<1>3. ASSUME NEW p \in Processes, CreateFile(p) PROVE TypeOK'
  <2>1. file' \in DagFiles
    <3>1. [n \in 1..Nodes |-> FALSE] \in [1..Nodes -> BOOLEAN] OBVIOUS
    <3>. QED BY <1>3, <3>1, Sizes DEF CreateFile, NoFile, DagFiles, FilesOf
  <2>. QED BY <1>3, <2>1, <1>0, MovingKeepsTypes DEF CreateFile
<1>4. ASSUME NEW p \in Processes, Resize(p) PROVE TypeOK'
  <2>1. file' \in DagFiles
    BY <1>0, <1>4, Sizes, ResizedFile DEF Resize, DagFiles
  <2>. QED BY <1>4, <2>1, <1>0, MovingKeepsTypes DEF Resize
<1>5. ASSUME NEW p \in Processes, MapExisting(p) \/ FullDelete(p) \/ Cancel(p) \/ BusError(p) \/ Crash(p)
      PROVE TypeOK'
  <2>1. PICK place \in {"idle", "ready"} : Goto(p, place)
    BY <1>5 DEF MapExisting, FullDelete, Cancel, BusError, Crash
  <2>2. UNCHANGED <<file, clashed>> /\ (UNCHANGED next \/ ResetNode(p))
    BY <1>5 DEF MapExisting, FullDelete, Cancel, BusError, Crash
  <2>3. UNCHANGED disturbed \/ Disturb(p)
    BY <1>5 DEF MapExisting, FullDelete, Cancel, BusError, Crash
  <2>. QED BY <1>0, <2>1, <2>2, <2>3, MovingKeepsTypes
<1>6. ASSUME NEW p \in Processes, MapNew(p) PROVE TypeOK'
  BY <1>6 DEF MapNew, TypeOK
<1>7. ASSUME NEW p \in Processes, ComputeNode(p) PROVE TypeOK'
  <2>1. next[p] \in 1..Nodes
    BY <1>7 DEF ComputeNode, TypeOK
  <2>2. file' \in DagFiles
    BY <1>0, <1>7, <2>1, FilledFile DEF ComputeNode, DagFiles
  <2>3. next' \in [Processes -> 1..(Nodes + 1)]
    BY <1>7, <2>1 DEF ComputeNode, TypeOK
  <2>. QED BY <1>7, <2>2, <2>3 DEF ComputeNode, TypeOK, DagFiles, FilesOf
<1>8. ASSUME NEW p \in Processes, WriteMagic(p) PROVE TypeOK'
  BY <1>0, <1>8, FinalizedIsDag, MovingKeepsTypes DEF WriteMagic
<1>9. ASSUME NEW p \in Processes, MagicFails(p) PROVE TypeOK'
  BY <1>0, <1>9, FinalizedIsDag, MovingKeepsTypes DEF MagicFails
<1>10. ASSUME NEW p \in Processes, IoFails(p) PROVE TypeOK'
  <2>1. [file EXCEPT !.size = FullSize] \in DagFiles
    BY <1>0, Sizes, ResizedFile DEF DagFiles
  <2>2. file' \in DagFiles
    BY <1>0, <1>10, <2>1 DEF IoFails
  <2>. QED BY <1>10, <2>2, <1>0, MovingKeepsTypes DEF IoFails
<1>11. CASE UNCHANGED vars
  BY <1>11 DEF vars, TypeOK
<1>. QED
  BY <1>1, <1>2, <1>3, <1>4, <1>5, <1>6, <1>7, <1>8, <1>9, <1>10, <1>11
     DEF Next, Call, Prepare, Build, Fault

\* The file's fields, the processes' places and node counters stay within
\* their types, however calls overlap.
THEOREM TypeCorrect == Spec => []TypeOK
  BY InitTypeOK, NextTypeOK, PTL DEF Spec

\* The strengthened invariant holds before the first ethash_full_new.
LEMMA InitIInv == Init => IInv
  BY InitTypeOK DEF Init, IInv, Orderly, OneBuilder, Builds, BuiltWithoutMagic, BuiltInOrder,
        MapsFinalized, NoFile

\* A step that only moves one process to a place where it does not rely on the
\* file, and leaves the file alone.
LEMMA LeavingKeepsOrder ==
    ASSUME TypeOK, Orderly, NEW p \in Processes,
           NEW place \in {"idle", "open", "stat", "read", "create", "ready"},
           Goto(p, place), UNCHANGED file, UNCHANGED next \/ ResetNode(p)
    PROVE  Orderly'
<1>1. /\ pc'[p] = place
      /\ \A q \in Processes : q # p => (pc'[q] = pc[q] /\ next'[q] = next[q])
  BY DEF TypeOK, Goto, ResetNode
<1>2. ~Builds(p)' /\ \A q \in Processes : Builds(q)' => Builds(q)
  BY <1>1 DEF Builds
<1>3. OneBuilder' /\ BuiltWithoutMagic'
  BY <1>2 DEF Orderly, OneBuilder, BuiltWithoutMagic
<1>4. BuiltInOrder' /\ MapsFinalized'
  BY <1>1 DEF Orderly, BuiltInOrder, MapsFinalized
<1>5. (file.magic => Complete(file))'
  BY DEF Orderly, Complete
<1>. QED BY <1>3, <1>4, <1>5 DEF Orderly

\* A call that has found the magic number is going to map the file.
LEMMA FindingKeepsOrder ==
    ASSUME TypeOK, Orderly, NEW p \in Processes, file.magic,
           Goto(p, "map"), UNCHANGED <<file, next>>
    PROVE  Orderly'
<1>1. pc'[p] = "map" /\ \A q \in Processes : q # p => pc'[q] = pc[q]
  BY DEF TypeOK, Goto
<1>2. ~Builds(p)' /\ \A q \in Processes : Builds(q)' => Builds(q)
  BY <1>1 DEF Builds
<1>3. OneBuilder' /\ BuiltWithoutMagic'
  BY <1>2 DEF Orderly, OneBuilder, BuiltWithoutMagic
<1>4. BuiltInOrder' /\ MapsFinalized'
  BY <1>1 DEF Orderly, BuiltInOrder, MapsFinalized
<1>5. (file.magic => Complete(file))'
  BY DEF Orderly, Complete
<1>. QED BY <1>3, <1>4, <1>5 DEF Orderly

\* While p builds, no other process relies on the file.
LEMMA BuildsAlone ==
    ASSUME Orderly, NEW p \in Processes, Builds(p), NEW q \in Processes, q # p
    PROVE  ~ReliesOnFile(q)
  BY DEF Orderly, OneBuilder, BuiltWithoutMagic, MapsFinalized, Builds, ReliesOnFile

\* A step of a process, after which no other one relies on the file.
LEMMA OrderByOne ==
    ASSUME NEW p \in Processes,
           \A q \in Processes : q # p => ~ReliesOnFile(q)',
           pc'[p] # "map",
           Builds(p)' => ~file'.magic,
           pc'[p] \in {"mapnew", "fill"} => file'.size = FullSize,
           pc'[p] = "fill" => \A n \in 1..Nodes : n < next'[p] => file'.nodes[n],
           file'.magic => Complete(file')
    PROVE  Orderly'
<1>1. \A q \in Processes :
          q # p => ~Builds(q)' /\ pc'[q] \notin {"map", "mapnew", "fill"}
  BY DEF ReliesOnFile, Builds
<1>2. OneBuilder' /\ BuiltWithoutMagic'
  BY <1>1 DEF OneBuilder, BuiltWithoutMagic
<1>3. BuiltInOrder' /\ MapsFinalized'
  BY <1>1 DEF BuiltInOrder, MapsFinalized
<1>4. (file.magic => Complete(file))'
  BY DEF Complete
<1>. QED BY <1>2, <1>3, <1>4 DEF Orderly

\* A step of one process leaves the others where they are.
LEMMA OthersStay ==
    ASSUME TypeOK, NEW p \in Processes, NEW place, Goto(p, place),
           \A q \in Processes : q # p => ~ReliesOnFile(q)
    PROVE  \A q \in Processes : q # p => ~ReliesOnFile(q)'
  BY DEF TypeOK, Goto, ReliesOnFile

\* Writing the magic number leaves size and nodes of a complete DAG alone.
LEMMA MagicKeepsComplete == ASSUME TypeOK, Complete(file) PROVE Complete(WithMagic(file))
<1>1. file.size # 0
  BY DEF Complete, FullSize
<1>2. /\ WithMagic(file).size = file.size
      /\ WithMagic(file).nodes = file.nodes
  BY <1>1 DEF WithMagic, TypeOK
<1>. QED BY <1>2 DEF Complete

\* ethash_full_new_internal reaches the magic number with every node computed.
LEMMA FilledIsComplete ==
    ASSUME TypeOK, Orderly, NEW p \in Processes, pc[p] = "fill", next[p] > Nodes
    PROVE  Complete(file)
  BY DEF TypeOK, Orderly, BuiltInOrder, Complete

\* Every step preserves the order: the one process that builds is the only one
\* that writes, and a call that empties the file finds nobody relying on it,
\* or the order ends there.
LEMMA NextOrderly ==
    ASSUME TypeOK, Orderly, [Next]_vars, ~clashed'
    PROVE  Orderly'
<1>1. ASSUME NEW p \in Processes,
             FullNew(p) \/ OpenExisting(p) \/ CheckSize(p) \/ CheckMagic(p) \/ ReadFails(p)
      PROVE Orderly'
  <2>1. UNCHANGED <<file, next>>
    BY <1>1 DEF FullNew, OpenExisting, CheckSize, CheckMagic, ReadFails
  <2>2. CASE CheckMagic(p) /\ file.magic
    BY <2>1, <2>2, FindingKeepsOrder DEF CheckMagic
  <2>3. CASE ~(CheckMagic(p) /\ file.magic)
    <3>1. PICK place \in {"open", "stat", "read", "create"} : Goto(p, place)
      BY <1>1, <2>3 DEF FullNew, OpenExisting, CheckSize, CheckMagic, ReadFails
    <3>. QED BY <2>1, <3>1, LeavingKeepsOrder
  <2>. QED BY <2>2, <2>3
<1>2. ASSUME NEW p \in Processes, CreateFile(p) PROVE Orderly'
  <2>1. \A q \in Processes : q # p => ~ReliesOnFile(q)
    BY <1>2 DEF CreateFile
  <2>2. \A q \in Processes : q # p => ~ReliesOnFile(q)'
    BY <1>2, <2>1, OthersStay DEF CreateFile
  <2>3. pc'[p] = "resize" /\ ~file'.magic
    BY <1>2 DEF CreateFile, NoFile, TypeOK, Goto
  <2>. QED BY <2>2, <2>3, OrderByOne
<1>3. ASSUME NEW p \in Processes, Builds(p), NEW place, Goto(p, place)
      PROVE  \A q \in Processes : q # p => ~ReliesOnFile(q)'
  BY <1>3, BuildsAlone, OthersStay
<1>4. ASSUME NEW p \in Processes, Resize(p) PROVE Orderly'
  <2>1. Builds(p) /\ Goto(p, "mapnew")
    BY <1>4 DEF Resize, Builds
  <2>2. pc'[p] = "mapnew" /\ ~file'.magic /\ file'.size = FullSize
    BY <1>4, <2>1 DEF Resize, TypeOK, Orderly, BuiltWithoutMagic, Goto
  <2>. QED BY <2>1, <2>2, <1>3, OrderByOne
<1>5. ASSUME NEW p \in Processes, MapNew(p) PROVE Orderly'
  <2>1. Builds(p) /\ Goto(p, "fill")
    BY <1>5 DEF MapNew, Builds
  <2>2. pc'[p] = "fill" /\ ~file'.magic /\ file'.size = FullSize /\ next'[p] = 1
    BY <1>5, <2>1 DEF MapNew, TypeOK, Orderly, BuiltWithoutMagic, BuiltInOrder, Goto, ResetNode
  <2>. QED BY <2>1, <2>2, <1>3, OrderByOne
<1>6. ASSUME NEW p \in Processes, ComputeNode(p) PROVE Orderly'
  <2>1. Builds(p) /\ \A q \in Processes : q # p => ~ReliesOnFile(q)'
    BY <1>6, BuildsAlone DEF ComputeNode, Builds, ReliesOnFile
  <2>2. pc'[p] = "fill" /\ ~file'.magic /\ file'.size = FullSize
    BY <1>6, <2>1 DEF ComputeNode, TypeOK, Orderly, BuiltWithoutMagic
  <2>3. \A n \in 1..Nodes : n < next'[p] => file'.nodes[n]
    <3>1. next[p] \in 1..Nodes /\ next'[p] = next[p] + 1
      BY <1>6 DEF ComputeNode, TypeOK
    <3>2. file'.nodes = [file.nodes EXCEPT ![next[p]] = TRUE]
      BY <1>6 DEF ComputeNode, TypeOK
    <3>3. \A n \in 1..Nodes : n < next[p] => file.nodes[n]
      BY <1>6 DEF ComputeNode, Orderly, BuiltInOrder
    <3>4. file.nodes \in [1..Nodes -> BOOLEAN]
      BY DEF TypeOK
    <3>5. ASSUME NEW n \in 1..Nodes, n < next'[p] PROVE file'.nodes[n]
      <4>1. CASE n = next[p] BY <4>1, <3>2, <3>4
      <4>2. CASE n # next[p]
        <5>1. n < next[p] BY <4>2, <3>1, <3>5
        <5>. QED BY <5>1, <4>2, <3>2, <3>3, <3>4
      <4>. QED BY <4>1, <4>2
    <3>. QED BY <3>5
  <2>. QED BY <2>1, <2>2, <2>3, OrderByOne
<1>7. ASSUME NEW p \in Processes, WriteMagic(p) \/ MagicFails(p) PROVE Orderly'
  <2>1. Builds(p) /\ Goto(p, pc'[p]) /\ pc'[p] \in {"idle", "ready"}
    BY <1>7 DEF WriteMagic, MagicFails, Builds, Goto, TypeOK
  <2>2. Complete(file)
    BY <1>7, FilledIsComplete DEF WriteMagic, MagicFails
  <2>3. Complete(file')
    <3>1. CASE file' = file BY <3>1, <2>2 DEF Complete
    <3>2. CASE file' = WithMagic(file) BY <2>2, <3>2, MagicKeepsComplete
    <3>. QED BY <1>7, <3>1, <3>2 DEF WriteMagic, MagicFails
  <2>4. ~Builds(p)'
    BY <2>1 DEF Builds
  <2>. QED BY <2>1, <2>3, <2>4, <1>3, OrderByOne
<1>8. ASSUME NEW p \in Processes,
             MapExisting(p) \/ FullDelete(p) \/ Cancel(p) \/ BusError(p) \/ Crash(p)
      PROVE Orderly'
  <2>1. PICK place \in {"idle", "ready"} : Goto(p, place)
    BY <1>8 DEF MapExisting, FullDelete, Cancel, BusError, Crash
  <2>2. UNCHANGED file /\ (UNCHANGED next \/ ResetNode(p))
    BY <1>8 DEF MapExisting, FullDelete, Cancel, BusError, Crash
  <2>. QED BY <2>1, <2>2, LeavingKeepsOrder
<1>9. ASSUME NEW p \in Processes, IoFails(p) PROVE Orderly'
  <2>1. CASE file' = file
    BY <1>9, <2>1, LeavingKeepsOrder DEF IoFails
  <2>2. CASE file' # file
    <3>1. Builds(p) /\ Goto(p, "idle") /\ file' = [file EXCEPT !.size = FullSize]
      BY <1>9, <2>2 DEF IoFails, Builds
    <3>2. ~file'.magic /\ pc'[p] = "idle"
      BY <3>1 DEF TypeOK, Orderly, BuiltWithoutMagic, Goto
    <3>3. ~Builds(p)'
      BY <3>2 DEF Builds
    <3>. QED BY <3>1, <3>2, <3>3, <1>3, OrderByOne
  <2>. QED BY <2>1, <2>2
<1>10. CASE UNCHANGED vars
  BY <1>10 DEF vars, Orderly, OneBuilder, Builds, BuiltWithoutMagic, BuiltInOrder,
        MapsFinalized, Complete
<1>. QED
  BY <1>1, <1>2, <1>4, <1>5, <1>6, <1>7, <1>8, <1>9, <1>10
     DEF Next, Call, Prepare, Build, Fault

\* A clash is not forgotten.
LEMMA ClashStays == TypeOK /\ [Next]_vars /\ clashed => clashed'
<1> SUFFICES ASSUME TypeOK, [Next]_vars, clashed PROVE clashed'
  OBVIOUS
<1>1. ASSUME NEW p \in Processes, Call(p) PROVE clashed'
  BY <1>1 DEF Call, Prepare, Build, OpenExisting, CheckSize, CheckMagic, CreateFile, Resize,
        MapExisting, MapNew, ComputeNode, WriteMagic
<1>2. ASSUME NEW p \in Processes, FullNew(p) \/ FullDelete(p) \/ Fault(p) PROVE clashed'
  BY <1>2 DEF FullNew, FullDelete, Fault, IoFails, ReadFails, Cancel, MagicFails, BusError, Crash
<1>3. CASE UNCHANGED vars BY <1>3 DEF vars
<1>. QED BY <1>1, <1>2, <1>3 DEF Next

\* The invariant is inductive.
LEMMA NextIInv == IInv /\ [Next]_vars => IInv'
  BY NextTypeOK, NextOrderly, ClashStays DEF IInv

\* It holds however the calls overlap.
LEMMA InductiveInvariant == Spec => []IInv
  BY InitIInv, NextIInv, PTL DEF Spec

\* Until two calls clash over the file, its magic number is only ever found on
\* a DAG with all its nodes, whatever crashes, failures and overlapping calls
\* there have been.
THEOREM MagicIsSound == Spec => []MagicMeansComplete
<1>1. IInv => MagicMeansComplete BY DEF IInv, Orderly, MagicMeansComplete
<1>. QED BY <1>1, InductiveInvariant, PTL

\* Only mapping an existing file and writing the magic number hand out a DAG.
LEMMA HandedByTwo ==
    ASSUME TypeOK, Next, NEW q \in Processes, pc[q] # "ready", pc'[q] = "ready"
    PROVE  MapExisting(q) \/ WriteMagic(q)
<1>0. pc \in [Processes -> Places]
  BY DEF TypeOK
<1>1. PICK p \in Processes : FullNew(p) \/ Call(p) \/ FullDelete(p) \/ Fault(p)
  BY DEF Next
<1>2. CASE MapExisting(p) \/ WriteMagic(p)
  BY <1>0, <1>2 DEF MapExisting, WriteMagic, Goto
<1>3. CASE FullNew(p) \/ Prepare(p) \/ MapNew(p) \/ ComputeNode(p)
  BY <1>0, <1>3 DEF FullNew, Prepare, OpenExisting, CheckSize, CheckMagic, CreateFile, Resize,
        MapNew, ComputeNode, Goto
<1>4. CASE FullDelete(p) \/ Fault(p)
  BY <1>0, <1>4 DEF FullDelete, Fault, IoFails, ReadFails, Cancel, MagicFails, BusError, Crash, Goto
<1>. QED BY <1>1, <1>2, <1>3, <1>4 DEF Call, Build

\* Until two calls clash over the file, every handle that ethash_full_new
\* returns is on a complete DAG.
THEOREM HandlesAreSound == Spec => HandsOutCompleteDags
<1> DEFINE Handed == \A p \in Processes :
                        pc[p] # "ready" /\ pc'[p] = "ready" /\ ~clashed' => Complete(file')
<1>1. ASSUME IInv, [Next]_vars PROVE [Handed]_vars
  <2>. SUFFICES ASSUME NEW q \in Processes, pc[q] # "ready", pc'[q] = "ready", ~clashed'
                PROVE Complete(file')
    OBVIOUS
  <2>1. TypeOK /\ Orderly
    BY <1>1, ClashStays DEF IInv
  <2>2. CASE MapExisting(q)
    <3>1. file' = file /\ file.magic
      BY <2>1, <2>2 DEF MapExisting, Orderly, MapsFinalized
    <3>. QED BY <2>1, <3>1 DEF Orderly
  <2>3. CASE WriteMagic(q)
    <3>1. Complete(file)
      BY <2>1, <2>3, FilledIsComplete DEF WriteMagic
    <3>. QED BY <2>1, <2>3, <3>1, MagicKeepsComplete DEF WriteMagic
  <2>4. Next
    BY <1>1 DEF vars
  <2>. QED BY <2>1, <2>2, <2>3, <2>4, HandedByTwo
<1>. QED BY <1>1, InductiveInvariant, PTL DEF Spec, HandsOutCompleteDags
=============================================================================
