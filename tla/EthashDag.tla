----------------------------- MODULE EthashDag -----------------------------
(***************************************************************************)
(* The DAG file of libethash, which libmultihash exports to the pools as   *)
(* ethash_full_new_export and ethash_full_delete_export (the Monero pool   *)
(* does not call them): processes that share one DAG directory open the    *)
(* file of one seed hash, build it when it is missing or unfinished, and   *)
(* map it.  A process may die at any point; the file stays as the page     *)
(* cache has it.  Sizes count the magic number and each node as one unit.  *)
(***************************************************************************)
EXTENDS Naturals

CONSTANTS
    Processes,   \* the processes that use the directory
    Nodes        \* max_n, the number of nodes of the DAG

ASSUME NodesAssumption == Nodes \in Nat \ {0}

VARIABLES
    file,        \* the DAG file: its size, magic number and computed nodes
    pc,          \* where in ethash_full_new_internal a process is
    next,        \* n, the node the process computes next; 1 outside the loop
    disturbed,   \* history: did a failure meet the latest call of a process?
    clashed      \* history: has a call created the file while another one was
                 \* building it or about to map it?

vars == <<file, pc, next, disturbed, clashed>>

\* The size of a DAG file: full_size + ETHASH_DAG_MAGIC_NUM_SIZE.
FullSize == Nodes + 1

NoFile == [present |-> FALSE, size |-> 0, magic |-> FALSE,
           nodes |-> [n \in 1..Nodes |-> FALSE]]

\* What is handed out must be this: every node has its computed value.
Complete(f) == f.size = FullSize /\ \A n \in 1..Nodes : f.nodes[n]

Places == {"idle", "open", "stat", "read", "map", "create", "resize",
           "mapnew", "fill", "ready"}

(***************************************************************************)
(* One type invariant.                                                     *)
(***************************************************************************)
TypeOK ==
    /\ file \in [present : BOOLEAN, size : 0..FullSize, magic : BOOLEAN,
                 nodes : [1..Nodes -> BOOLEAN]]
    /\ pc \in [Processes -> Places]
    /\ next \in [Processes -> 1..(Nodes + 1)]
    /\ disturbed \in [Processes -> BOOLEAN]
    /\ clashed \in BOOLEAN

Init ==
    /\ file = NoFile
    /\ pc = [p \in Processes |-> "idle"]
    /\ next = [p \in Processes |-> 1]
    /\ disturbed = [p \in Processes |-> FALSE]
    /\ clashed = FALSE

Goto(p, place) == pc' = [pc EXCEPT ![p] = place]

\* n is a variable of the loop alone: it starts at the first node, and nothing is
\* left of it when the loop ends.
ResetNode(p) == next' = [next EXCEPT ![p] = 1]

\* The call relies on the file as it is: it has seen the magic number, or has
\* emptied the file and is to write every node.
ReliesOnFile(p) == pc[p] \in {"map", "resize", "mapnew", "fill"}

(***************************************************************************)
(* ethash_full_new_internal and ethash_io_prepare, one action per access   *)
(* of the file.  The first attempt (force_create = false) opens an         *)
(* existing file; every mismatch ends at "create".                         *)
(***************************************************************************)
FullNew(p) ==
    /\ pc[p] = "idle"
    /\ Goto(p, "open")
    /\ disturbed' = [disturbed EXCEPT ![p] = FALSE]
    /\ UNCHANGED <<file, next, clashed>>

OpenExisting(p) ==
    /\ pc[p] = "open"
    /\ Goto(p, IF file.present THEN "stat" ELSE "create")
    /\ UNCHANGED <<file, next, disturbed, clashed>>

\* An empty file makes found_size - ETHASH_DAG_MAGIC_NUM_SIZE wrap around;
\* it is no DAG's size either way.
CheckSize(p) ==
    /\ pc[p] = "stat"
    /\ Goto(p, IF file.size = FullSize THEN "read" ELSE "create")
    /\ UNCHANGED <<file, next, disturbed, clashed>>

\* Defect: the file is taken for a DAG by its size alone.
CheckMagicNever(p) ==
    /\ pc[p] = "read"
    /\ Goto(p, "map")
    /\ UNCHANGED <<file, next, disturbed, clashed>>

\* Defect: an unfinished file makes the call fail instead of starting again.
CheckMagicOrFail(p) ==
    /\ pc[p] = "read"
    /\ Goto(p, IF file.magic THEN "map" ELSE "idle")
    /\ UNCHANGED <<file, next, disturbed, clashed>>

CheckMagic(p) ==
    /\ pc[p] = "read"
    /\ Goto(p, IF file.magic THEN "map" ELSE "create")
    /\ UNCHANGED <<file, next, disturbed, clashed>>

MapExisting(p) ==
    /\ pc[p] = "map"
    /\ Goto(p, "ready")
    /\ UNCHANGED <<file, next, disturbed, clashed>>

\* fopen(..., "wb+") truncates whatever is there, also what others have mapped
\* or are building: nothing locks the file.
CreateFile(p) ==
    /\ pc[p] = "create"
    /\ file' = [NoFile EXCEPT !.present = TRUE]
    /\ clashed' = (clashed \/ \E q \in Processes : q # p /\ ReliesOnFile(q))
    /\ Goto(p, "resize")
    /\ UNCHANGED <<next, disturbed>>

Resize(p) ==
    /\ pc[p] = "resize"
    /\ file' = [file EXCEPT !.size = FullSize]
    /\ Goto(p, "mapnew")
    /\ UNCHANGED <<next, disturbed, clashed>>

\* Defect: the magic number is written before the nodes.
MapNewFinalized(p) ==
    /\ pc[p] = "mapnew"
    /\ file' = [file EXCEPT !.magic = TRUE]
    /\ Goto(p, "fill")
    /\ ResetNode(p)
    /\ UNCHANGED <<disturbed, clashed>>

MapNew(p) ==
    /\ pc[p] = "mapnew"
    /\ Goto(p, "fill")
    /\ ResetNode(p)
    /\ UNCHANGED <<file, disturbed, clashed>>

\* Defect: the loop runs to n <= max_n.
ComputeNodeTooMany(p) ==
    /\ pc[p] = "fill"
    /\ next[p] <= Nodes + 1
    /\ file.size = FullSize
    /\ file' = [file EXCEPT !.nodes[next[p]] = TRUE]
    /\ next' = [next EXCEPT ![p] = @ + 1]
    /\ UNCHANGED <<pc, disturbed, clashed>>

ComputeNode(p) ==
    /\ pc[p] = "fill"
    /\ next[p] <= Nodes
    /\ file.size = FullSize
    /\ file' = [file EXCEPT !.nodes[next[p]] = TRUE]
    /\ next' = [next EXCEPT ![p] = @ + 1]
    /\ UNCHANGED <<pc, disturbed, clashed>>

\* The file after fwrite of the magic number at its beginning.
WithMagic(f) == [f EXCEPT !.magic = TRUE,
                          !.size = IF f.size = 0 THEN 1 ELSE f.size]

WriteMagic(p) ==
    /\ pc[p] = "fill"
    /\ next[p] > Nodes
    /\ file' = WithMagic(file)
    /\ Goto(p, "ready")
    /\ ResetNode(p)
    /\ UNCHANGED <<disturbed, clashed>>

FullDelete(p) ==
    /\ pc[p] = "ready"
    /\ Goto(p, "idle")
    /\ UNCHANGED <<file, next, disturbed, clashed>>

(***************************************************************************)
(* What can go wrong in a call.                                            *)
(***************************************************************************)
Disturb(p) == disturbed' = [disturbed EXCEPT ![p] = TRUE]

\* mkdir, malloc, fstat, fopen, fseek, fputc, fflush or mmap fails: the call
\* returns NULL.  A failing fflush may have reached the file, or fclose does.
IoFails(p) ==
    /\ pc[p] \in {"open", "stat", "create", "resize", "map", "mapnew"}
    /\ file' \in {file} \cup (IF pc[p] = "resize"
                              THEN {[file EXCEPT !.size = FullSize]} ELSE {})
    /\ Goto(p, "idle")
    /\ Disturb(p)
    /\ UNCHANGED <<next, clashed>>

\* fopen(..., "rb+") of an existing file or fread of the magic number fails:
\* both are treated as a file that has to be created.
ReadFails(p) ==
    /\ \/ pc[p] = "open" /\ file.present
       \/ pc[p] = "read"
    /\ Goto(p, "create")
    /\ Disturb(p)
    /\ UNCHANGED <<file, next, clashed>>

\* The progress callback asks to stop: ethash_compute_full_data is false.
Cancel(p) ==
    /\ pc[p] = "fill"
    /\ next[p] <= Nodes
    /\ Goto(p, "idle")
    /\ Disturb(p)
    /\ ResetNode(p)
    /\ UNCHANGED <<file, clashed>>

MagicFails(p) ==
    /\ pc[p] = "fill"
    /\ next[p] > Nodes
    /\ file' \in {file, WithMagic(file)}
    /\ Goto(p, "idle")
    /\ Disturb(p)
    /\ ResetNode(p)
    /\ UNCHANGED clashed

\* A mapped node lies beyond the end of a file that another process has
\* truncated: SIGBUS, in ethash_compute_full_data or in ethash_full_compute.
BusError(p) ==
    /\ \/ pc[p] = "ready"
       \/ pc[p] = "fill" /\ next[p] <= Nodes
    /\ file.size < FullSize
    /\ Goto(p, "idle")
    /\ Disturb(p)
    /\ ResetNode(p)
    /\ UNCHANGED <<file, clashed>>

Crash(p) ==
    /\ pc[p] # "idle"
    /\ Goto(p, "idle")
    /\ Disturb(p)
    /\ ResetNode(p)
    /\ UNCHANGED <<file, clashed>>

Prepare(p) == OpenExisting(p) \/ CheckSize(p) \/ CheckMagic(p) \/ CreateFile(p) \/ Resize(p)

Build(p) == MapExisting(p) \/ MapNew(p) \/ ComputeNode(p) \/ WriteMagic(p)

Call(p) == Prepare(p) \/ Build(p)

Fault(p) == IoFails(p) \/ ReadFails(p) \/ Cancel(p) \/ MagicFails(p) \/ BusError(p) \/ Crash(p)

Next == \E p \in Processes : FullNew(p) \/ Call(p) \/ FullDelete(p) \/ Fault(p)

\* A call that has begun runs on until it returns or meets a fault; writing a
\* node beyond the end of the file is one.
Fairness == \A p \in Processes : WF_vars(Call(p) \/ (pc[p] = "fill" /\ BusError(p)))

Spec == Init /\ [][Next]_vars /\ Fairness

(***************************************************************************)
(* Properties.                                                             *)
(***************************************************************************)

\* A file with the magic number holds every node, so that a process that
\* finds it may skip the computation: ethash_full_new_internal writes the
\* number after the nodes, and every creation starts from an empty file.  It
\* is so until two calls clash over the file, although nothing keeps calls
\* from overlapping in other ways.
MagicMeansComplete == ~clashed => (file.magic => Complete(file))

\* ethash_full_new returns no handle on a DAG with a node missing, whichever
\* calls were cancelled, failed or died before and whichever run at the same
\* time, as long as none has emptied the file behind another's back.
HandsOutCompleteDags ==
    [][\A p \in Processes :
         pc[p] # "ready" /\ pc'[p] = "ready" /\ ~clashed' => Complete(file')]_vars

\* A call that meets no failure of its own returns a handle, whatever an
\* earlier process left behind and others do to the file meanwhile: no
\* unfinished file is in the way for good.
UndisturbedCallsSucceed ==
    \A p \in Processes : pc[p] = "open" ~> (pc[p] = "ready" \/ disturbed[p])
=============================================================================
