------------------------------ MODULE JobCounter ------------------------------
(***************************************************************************)
(* Hypepool.Common/Mining/Jobs/JobCounter.cs: the id counter owned by the  *)
(* job manager (ids of jobs) and by every MoneroJob (ids of worker jobs).  *)
(*                                                                         *)
(* GetNext() is three separate accesses to the shared field _last: an      *)
(* interlocked compare-exchange that resets it, an interlocked increment,  *)
(* and a plain read that is returned.  Each access is atomic, the method   *)
(* is not: MoneroJob.CreateWorkerJob is called from thread-pool tasks      *)
(* (OnLogin) and from the broadcasting thread, so calls overlap.           *)
(***************************************************************************)
EXTENDS Integers, Sequences

CONSTANTS
  Threads,     \* the threads that call GetNext
  MaxValue,    \* int.MaxValue
  MaxCalls     \* bound of the model: calls of GetNext that may begin

ASSUME MaxValueAssumption == MaxValue \in Nat \ {0}
ASSUME MaxCallsAssumption == MaxCalls \in Nat

VARIABLES
  last,        \* the field _last
  pc,          \* pc[t]: the next access of GetNext thread t performs
  begun,       \* begun[t]: how many calls had returned when t's call began
  calls,       \* history: number of calls begun
  issued,      \* history: the calls that returned, in order of their returns
  wrapped      \* history: _last has been reset or has overflowed

vars == <<last, pc, begun, calls, issued, wrapped>>

\* int.MinValue: Interlocked.Increment wraps in two's complement.
MinValue == -MaxValue - 1

Access == {"idle", "reset", "increment", "read"}

Call == [id : MinValue..MaxValue, after : Nat]

TypeOK ==
  /\ last \in MinValue..MaxValue
  /\ pc \in [Threads -> Access]
  /\ begun \in [Threads -> Nat]
  /\ calls \in Nat
  /\ issued \in Seq(Call)
  /\ wrapped \in BOOLEAN

Init ==
  /\ last = 0
  /\ pc = [t \in Threads |-> "idle"]
  /\ begun = [t \in Threads |-> 0]
  /\ calls = 0
  /\ issued = <<>>
  /\ wrapped = FALSE

-------------------------------------------------------------------------------

\* Thread t enters GetNext.
Begin(t) ==
  /\ pc[t] = "idle"
  /\ calls < MaxCalls
  /\ calls' = calls + 1
  /\ pc' = [pc EXCEPT ![t] = "reset"]
  /\ begun' = [begun EXCEPT ![t] = Len(issued)]
  /\ UNCHANGED <<last, issued, wrapped>>

\* Defect: Exchange instead of CompareExchange, the comparison is dropped.
ResetAlways(t) ==
  /\ pc[t] = "reset"
  /\ last' = 0
  /\ wrapped' = (wrapped \/ last = MaxValue)
  /\ pc' = [pc EXCEPT ![t] = "increment"]
  /\ UNCHANGED <<begun, calls, issued>>

\* Interlocked.CompareExchange(ref _last, 0, int.MaxValue)
ResetAtMax(t) ==
  /\ pc[t] = "reset"
  /\ last' = IF last = MaxValue THEN 0 ELSE last
  /\ wrapped' = (wrapped \/ last = MaxValue)
  /\ pc' = [pc EXCEPT ![t] = "increment"]
  /\ UNCHANGED <<begun, calls, issued>>

\* Defect: the field is wider than the int that is returned.
IncrementWide(t) ==
  /\ pc[t] = "increment"
  /\ last' = last + 1
  /\ wrapped' = (wrapped \/ last = MaxValue)
  /\ pc' = [pc EXCEPT ![t] = "read"]
  /\ UNCHANGED <<begun, calls, issued>>

\* Interlocked.Increment(ref _last)
Increment(t) ==
  /\ pc[t] = "increment"
  /\ last' = IF last = MaxValue THEN MinValue ELSE last + 1
  /\ wrapped' = (wrapped \/ last = MaxValue)
  /\ pc' = [pc EXCEPT ![t] = "read"]
  /\ UNCHANGED <<begun, calls, issued>>

\* return _last: reads the field again, whatever other threads did to it.
Return(t) ==
  /\ pc[t] = "read"
  /\ issued' = Append(issued, [id |-> last, after |-> begun[t]])
  /\ pc' = [pc EXCEPT ![t] = "idle"]
  /\ UNCHANGED <<last, begun, calls, wrapped>>

GetNext(t) == Begin(t) \/ ResetAtMax(t) \/ Increment(t) \/ Return(t)

Next == \E t \in Threads : GetNext(t)

Spec == Init /\ [][Next]_vars

-------------------------------------------------------------------------------

(***************************************************************************)
(* Calls that do not overlap get increasing ids: as long as the counter    *)
(* has not wrapped, an id handed out is larger than every id whose call    *)
(* had returned before this call began, however the other callers of       *)
(* GetNext interleave.                                                     *)
(***************************************************************************)
LaterCallsGetLargerIds ==
  ~wrapped => \A k \in 1..Len(issued) :
                \A i \in 1..issued[k].after : issued[i].id < issued[k].id

(***************************************************************************)
(* JobCounter.cs: GetNext "Returns a new job id": no id is returned twice  *)
(* before the counter wraps.                                               *)
(***************************************************************************)
EveryIdIsNew ==
  ~wrapped => \A i, j \in 1..Len(issued) :
                i # j => issued[i].id # issued[j].id

===============================================================================
