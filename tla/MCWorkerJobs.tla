---------------------------- MODULE MCWorkerJobs ----------------------------
(***************************************************************************)
(* The constants of WorkerJobs for TLC.                                    *)
(***************************************************************************)
EXTENDS WorkerJobs

Instance == <<1>>

\* Blocks with no and with two transactions besides the miner's.
SmallTemplates ==
    {[header |-> "header", reserved |-> <<0, 0, 0, 0>>,
      txHashes |-> [i \in 1..n |-> [tx |-> i]]] : n \in {0, 2}}

ThreadSymmetry == Permutations(Threads)
=============================================================================
