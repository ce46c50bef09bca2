------------------------------ MODULE QuickSort ------------------------------
(***************************************************************************)
(* The quicksort of p9/src/qsort.c, serial (std_qsort) and with OpenMP     *)
(* tasks (omp_qsort).  A call is a record; the calls that have begun and   *)
(* not returned form a tree.  A step is one round of the loop of one call, *)
(* or the start, the recursion or the return of one.  Tasks may run in     *)
(* any interleaving, as with any number of threads.                        *)
(***************************************************************************)
EXTENDS Integers, FiniteSets

CONSTANTS
    Size,      \* len, the number of elements
    TaskSize,  \* 1000: wider ranges are split into two tasks
    Value      \* the elements the array may hold

ASSUME SortAssumption == Size \in Nat /\ TaskSize \in Nat /\ Value \subseteq Int

VARIABLES
    data,  \* p_data
    calls, \* the calls of the inner functions that have not returned
    input  \* the elements at the beginning

vars == <<data, calls, input>>

Index == 0 .. Size - 1

(* The fields of a call: its borders lo and hi; whether it is one of       *)
(* omp_qsort_inner; the locals pivot, less and more; and what it does next.*)
CallType == [lo : Int, hi : Int, omp : BOOLEAN, pivot : Int, less : Int,
             more : Int, at : {"start", "loop", "left", "right", "wait"}]

NewCall(l, r, o) == [lo |-> l, hi |-> r, omp |-> o, pivot |-> 0, less |-> l - 1,
                     more |-> l, at |-> "start"]

(* A call of a range with less than two elements returns at once.          *)
Call(l, r, o) == IF r > l THEN {NewCall(l, r, o)} ELSE {}

Running(l, r) == \E g \in calls : g.lo = l /\ g.hi = r

Init ==
    /\ data \in [Index -> Value]
    /\ input = data
    /\ \E o \in BOOLEAN : calls = Call(0, Size - 1, o)

Replace(f, C) == calls' = (calls \ {f}) \cup C

Start(f) ==
    /\ f.at = "start"
    /\ Replace(f, {[f EXCEPT !.at = "loop", !.pivot = data[f.hi]]})
    /\ UNCHANGED <<data, input>>

(* Mutant: the elements are moved without a temporary.                     *)
SwapLost(i, j) == data' = [data EXCEPT ![i] = data[j]]

Swap(i, j) == data' = [data EXCEPT ![i] = data[j], ![j] = data[i]]

Visit(f) ==
    /\ f.at = "loop" /\ f.more <= f.hi
    /\ IF data[f.more] <= f.pivot
       THEN /\ Swap(f.less + 1, f.more)
            /\ Replace(f, {[f EXCEPT !.less = @ + 1, !.more = @ + 1]})
       ELSE UNCHANGED data /\ Replace(f, {[f EXCEPT !.more = @ + 1]})
    /\ UNCHANGED input

(* Mutants: the pivot is sorted again; the right half begins at the left   *)
(* border, or one cell too far.                                            *)
LeftCallWithPivot(f, o) == Call(f.lo, f.less, o)
RightCallOfAll(f, o)    == Call(f.lo, f.hi, o)
RightCallShort(f, o)    == Call(f.less + 2, f.hi, o)

LeftCall(f, o)  == Call(f.lo, f.less - 1, o)
RightCall(f, o) == Call(f.less + 1, f.hi, o)

(* Two tasks for a wide range.                                             *)
Split(f) ==
    /\ f.at = "loop" /\ f.more > f.hi
    /\ f.omp /\ f.hi - f.lo > TaskSize
    /\ Replace(f, {[f EXCEPT !.at = "wait"]} \cup LeftCall(f, TRUE) \cup RightCall(f, TRUE))
    /\ UNCHANGED <<data, input>>

(* A plain call for the left half of a narrow one ...                      *)
GoLeft(f) ==
    /\ f.at = "loop" /\ f.more > f.hi
    /\ ~(f.omp /\ f.hi - f.lo > TaskSize)
    /\ Replace(f, {[f EXCEPT !.at = "left"]} \cup LeftCall(f, FALSE))
    /\ UNCHANGED <<data, input>>

(* ... and, when that has returned, for the right half.                    *)
GoRight(f) ==
    /\ f.at = "left" /\ ~Running(f.lo, f.less - 1)
    /\ Replace(f, {[f EXCEPT !.at = "right"]} \cup RightCall(f, FALSE))
    /\ UNCHANGED <<data, input>>

(* taskwait, or the return of the second plain call.                       *)
Return(f) ==
    /\ \/ f.at = "wait" /\ ~Running(f.lo, f.less - 1)
       \/ f.at = "right"
    /\ ~Running(f.less + 1, f.hi)
    /\ Replace(f, {})
    /\ UNCHANGED <<data, input>>

Step(f) == Start(f) \/ Visit(f) \/ Split(f) \/ GoLeft(f) \/ GoRight(f) \/ Return(f)

Next == \E f \in calls : Step(f)

(* A thread that has work does it.                                         *)
Spec == Init /\ [][Next]_vars /\ WF_vars(Next)

-----------------------------------------------------------------------------
Partitions(f) == f.at \in {"start", "loop"}

TypeOK ==
    /\ data \in [Index -> Value] /\ input \in [Index -> Value]
    /\ calls \subseteq CallType
    /\ \A f \in calls :
          /\ 0 <= f.lo /\ f.lo < f.hi /\ f.hi < Size
          /\ f.less \in f.lo - 1 .. f.hi /\ f.more \in f.lo .. f.hi + 1
          /\ f.less < f.more
          /\ ~Partitions(f) => f.less \in f.lo .. f.hi

(* Tasks share the array without a lock: no two calls that work on it at   *)
(* the same time have a cell in common.                                    *)
NoSharedCells ==
    \A f, g \in calls :
        f # g /\ Partitions(f) /\ Partitions(g) => f.hi < g.lo \/ g.hi < f.lo

(* A pivot is in its final place when its call recurs: nobody moves it any *)
(* more, nor puts anything on the wrong side of it.                        *)
PivotsArePlaced ==
    [][\A f \in calls : ~Partitions(f) =>
          /\ data'[f.less] = data[f.less]
          /\ \A i \in f.lo .. f.hi :
                /\ i < f.less => data'[i] <= data[f.less]
                /\ i > f.less => data'[i] >= data[f.less]]_vars

(* Sorting loses and invents nothing, at no moment.                        *)
SameElements ==
    \A v \in Value : Cardinality({i \in Index : data[i] = v})
                       = Cardinality({i \in Index : input[i] = v})

(* When the first call has returned, the array is sorted.                  *)
SortedAtEnd == calls = {} => \A i, j \in Index : i < j => data[i] <= data[j]

(* The recursion ends, whatever the input.                                 *)
Terminates == <>(calls = {})

=============================================================================
