--------------------------- MODULE ParallelProofs ---------------------------
(***************************************************************************)
(* The computations that share out their work: the properties of QuickSort *)
(* hold for arrays of every size and content, and BlockPartition gives     *)
(* every term to one rank.                                                 *)
(***************************************************************************)
EXTENDS QuickSort, BlockPartition, FiniteSetTheorems, TLAPS

(* The cells whose order a call, or the second half of it, has still to    *)
(* settle.                                                                 *)
Region(f) ==
    CASE Partitions(f)  -> f.lo .. f.hi
      [] f.at = "left"  -> f.less + 1 .. f.hi
      [] OTHER          -> {}

(* What a loop has done so far: small elements, large elements, and the    *)
(* pivot at the end, or in between when the loop is over.                  *)
LoopInv(f) ==
    /\ f.at = "start" => f.less = f.lo - 1 /\ f.more = f.lo
    /\ f.at = "loop" =>
          /\ \A i \in f.lo .. f.less : data[i] <= f.pivot
          /\ \A i \in f.less + 1 .. f.more - 1 : data[i] > f.pivot
          /\ f.more <= f.hi => data[f.hi] = f.pivot
          /\ f.more > f.hi  => f.less >= f.lo /\ data[f.less] = f.pivot

CallOK(f) ==
    /\ f \in CallType
    /\ 0 <= f.lo /\ f.lo < f.hi /\ f.hi < Size
    /\ f.less \in f.lo - 1 .. f.hi /\ f.more \in f.lo .. f.hi + 1
    /\ f.less < f.more
    /\ ~Partitions(f) => f.less \in f.lo .. f.hi
    /\ LoopInv(f)

(* No cell is in two regions, or under a pivot that is placed and in one.  *)
Apart(f, g)   == f # g => Region(f) \cap Region(g) = {}
Settled(f, g) == ~Partitions(f) => f.less \notin Region(g)

(* Two cells that are not in one region are in order.                      *)
Ordered ==
    \A i, j \in Index :
        i < j /\ (\A f \in calls : ~(i \in Region(f) /\ j \in Region(f)))
            => data[i] <= data[j]

IInv ==
    /\ data \in [Index -> Value] /\ input \in [Index -> Value]
    /\ \A f \in calls : CallOK(f)
    /\ \A f, g \in calls : Apart(f, g) /\ Settled(f, g)
    /\ Ordered

(* A call of a range is in order.                                          *)
LEMMA CallIsOK ==
    ASSUME NEW l \in Int, NEW r \in Int, NEW o \in BOOLEAN, 0 <= l, r < Size,
           NEW g \in Call(l, r, o)
    PROVE  /\ CallOK(g) /\ g.lo = l /\ g.hi = r
           /\ Partitions(g) /\ Region(g) = l .. r
           /\ r > l
  BY SortAssumption DEF Call, NewCall, CallOK, CallType, LoopInv, Partitions, Region

LEMMA CallIsMade ==
    ASSUME NEW l, NEW r, NEW o, r > l PROVE Call(l, r, o) # {}
  BY DEF Call

LEMMA InitInv == ASSUME Init PROVE IInv
<1>1. PICK o \in BOOLEAN : calls = Call(0, Size - 1, o)
  BY DEF Init
<1>2. \A g \in calls : CallOK(g) /\ g.lo = 0 /\ g.hi = Size - 1 /\ Partitions(g)
                       /\ Region(g) = 0 .. Size - 1
  BY <1>1, CallIsOK, SortAssumption
<1>3. \A f, g \in calls : f = g
  BY <1>1 DEF Call
<1>4. Size > 1 => \E g \in calls : TRUE
  <2>1. ASSUME Size > 1 PROVE Size - 1 > 0
    BY <2>1, SortAssumption
  <2>2. Size - 1 > 0 => Call(0, Size - 1, o) # {}
    BY CallIsMade
  <2>3. QED
    BY <1>1, <2>1, <2>2
<1>5. Ordered
  BY <1>2, <1>4, SortAssumption DEF Ordered, Index
<1>6. QED
  BY <1>2, <1>3, <1>5 DEF Init, IInv, Apart, Settled

(* A call may be replaced by calls that take over its region in parts, if  *)
(* what they leave out is in order.                                        *)
LEMMA Handover ==
    ASSUME IInv, NEW f \in calls, NEW C, Replace(f, C), UNCHANGED <<data, input>>,
           \A g \in C : CallOK(g) /\ Region(g) \subseteq Region(f),
           \A g, h \in C : Apart(g, h) /\ Settled(g, h),
           \A g \in C, h \in calls \ {f} : Settled(g, h),
           \A i, j \in Region(f) :
               i < j /\ (\A g \in C : ~(i \in Region(g) /\ j \in Region(g)))
                   => data[i] <= data[j]
    PROVE  IInv'
<1>1. calls' = (calls \ {f}) \cup C
  BY DEF Replace
<1>2. data' = data /\ input' = input
  OBVIOUS
<1>3. \A g \in calls' : CallOK(g)'
  BY <1>1, <1>2 DEF IInv, CallOK, LoopInv
<1>4. \A g \in C, h \in calls \ {f} : Apart(g, h) /\ Apart(h, g)
  BY DEF IInv, Apart
<1>5. \A g \in C, h \in calls \ {f} : Settled(h, g)
  BY DEF IInv, Settled
<1>6. \A g, h \in calls' : Apart(g, h) /\ Settled(g, h)
  BY <1>1, <1>4, <1>5 DEF IInv
<1>7. Ordered'
  <2> SUFFICES ASSUME NEW i \in Index, NEW j \in Index, i < j,
                      \A g \in calls' : ~(i \in Region(g) /\ j \in Region(g))
               PROVE  data[i] <= data[j]
    BY <1>2 DEF Ordered
  <2>1. CASE i \in Region(f) /\ j \in Region(f)
    BY <2>1, <1>1
  <2>2. CASE ~(i \in Region(f) /\ j \in Region(f))
    <3>1. \A g \in calls : ~(i \in Region(g) /\ j \in Region(g))
      BY <1>1, <2>2
    <3>2. QED
      BY <3>1 DEF IInv, Ordered
  <2>3. QED
    BY <2>1, <2>2
<1>8. QED
  BY <1>2, <1>3, <1>6, <1>7 DEF IInv, Apart, Settled, Region, Partitions

LEMMA StartInv == ASSUME IInv, NEW f \in calls, Start(f) PROVE IInv'
<1> DEFINE g == [f EXCEPT !.at = "loop", !.pivot = data[f.hi]]
<1>1. CallOK(f) /\ f.at = "start" /\ Partitions(f)
  BY DEF IInv, Start, Partitions
<1>2. /\ g \in CallType /\ g.lo = f.lo /\ g.hi = f.hi /\ g.less = f.less
      /\ g.more = f.more /\ g.at = "loop" /\ g.pivot = data[f.hi]
  <2>1. f.hi \in Index
    BY <1>1, SortAssumption DEF CallOK, CallType, Index
  <2>2. data[f.hi] \in Int
    BY <2>1, SortAssumption DEF IInv
  <2>3. QED
    BY <1>1, <2>2 DEF CallOK, CallType
<1>3. CallOK(g) /\ Partitions(g)
  BY <1>1, <1>2 DEF CallOK, CallType, LoopInv, Partitions
<1>4. Region(g) = Region(f)
  BY <1>1, <1>2, <1>3 DEF Region
<1>5. \A i, j \in Region(f) : i \in Region(g) /\ j \in Region(g)
  BY <1>4
<1>6. \A h \in calls \ {f} : Settled(g, h)
  BY <1>3 DEF Settled
<1>7. Replace(f, {g}) /\ UNCHANGED <<data, input>>
  BY DEF Start
<1> HIDE DEF g
<1>8. QED
  BY <1>3, <1>4, <1>5, <1>6, <1>7, Handover DEF Apart, Settled

(* A call that has its pivot in place and hands the left part, the right   *)
(* part or both on to calls of their own.                                  *)
LEMMA RecurInv ==
    ASSUME IInv, NEW f \in calls, UNCHANGED <<data, input>>,
           NEW o \in BOOLEAN, NEW at \in {"left", "right", "wait"}, NEW C,
           Replace(f, {[f EXCEPT !.at = at]} \cup C),
           \/ /\ f.at = "loop" /\ f.more > f.hi /\ at = "wait"
              /\ C = LeftCall(f, o) \cup RightCall(f, o)
           \/ f.at = "loop" /\ f.more > f.hi /\ at = "left" /\ C = LeftCall(f, o)
           \/ f.at = "left" /\ at = "right" /\ C = RightCall(f, o)
    PROVE  IInv'
<1> DEFINE g == [f EXCEPT !.at = at]
<1>1. CallOK(f) /\ f.at \in {"loop", "left"}
  BY DEF IInv
<1>2. /\ g \in CallType /\ g.lo = f.lo /\ g.hi = f.hi /\ g.less = f.less
      /\ g.more = f.more /\ g.at = at
  BY <1>1 DEF CallOK, CallType
<1>3. f.less \in f.lo .. f.hi /\ f.lo \in Int /\ f.hi \in Int /\ 0 <= f.lo /\ f.hi < Size
  BY <1>1 DEF CallOK, LoopInv, CallType, Partitions
<1>4. CallOK(g) /\ ~Partitions(g)
  BY <1>1, <1>2, <1>3 DEF CallOK, LoopInv, Partitions
<1> HIDE DEF g
<1>5. Region(g) = IF at = "left" THEN f.less + 1 .. f.hi ELSE {}
  BY <1>2, <1>4 DEF Region
<1>6. Region(f) = IF f.at = "loop" THEN f.lo .. f.hi ELSE f.less + 1 .. f.hi
  BY <1>1 DEF Region, Partitions
<1>7. \A h \in LeftCall(f, o) : CallOK(h) /\ Partitions(h) /\ Region(h) = f.lo .. f.less - 1
  BY <1>3, CallIsOK, SortAssumption DEF LeftCall
<1>8. \A h \in RightCall(f, o) : CallOK(h) /\ Partitions(h) /\ Region(h) = f.less + 1 .. f.hi
  BY <1>3, CallIsOK, SortAssumption DEF RightCall
<1>9. \A h, k \in LeftCall(f, o) : h = k
  BY DEF LeftCall, Call
<1>10. \A h, k \in RightCall(f, o) : h = k
  BY DEF RightCall, Call
<1>11. \A h \in {g} \cup C : CallOK(h) /\ Region(h) \subseteq Region(f)
  BY <1>3, <1>4, <1>5, <1>6, <1>7, <1>8
<1>12. \A h \in C : Apart(g, h) /\ Apart(h, g)
  BY <1>3, <1>5, <1>7, <1>8 DEF Apart
<1>13. \A h, k \in C : Apart(h, k)
  BY <1>3, <1>7, <1>8, <1>9, <1>10 DEF Apart
<1>14. \A h, k \in {g} \cup C : Apart(h, k)
  BY <1>12, <1>13 DEF Apart
<1>15. \A h \in {g} \cup C : f.less \notin Region(h)
  BY <1>3, <1>5, <1>7, <1>8
<1>16. \A h \in calls \ {f} : f.less \notin Region(h)
  <2>1. CASE f.at = "loop"
    BY <2>1, <1>3, <1>6 DEF IInv, Apart
  <2>2. CASE f.at = "left"
    BY <2>2 DEF IInv, Settled, Partitions
  <2>3. QED
    BY <1>1, <2>1, <2>2
<1>17. \A h, k \in {g} \cup C : Settled(h, k)
  BY <1>2, <1>7, <1>8, <1>15 DEF Settled
<1>18. \A h \in {g} \cup C, k \in calls \ {f} : Settled(h, k)
  BY <1>2, <1>7, <1>8, <1>16 DEF Settled
<1>19. ASSUME NEW i \in Region(f), NEW j \in Region(f), i < j,
              \A h \in {g} \cup C : ~(i \in Region(h) /\ j \in Region(h))
       PROVE  data[i] <= data[j]
  <2>1. Region(f) \subseteq Index /\ i \in Int /\ j \in Int
    BY <1>3, <1>6, SortAssumption DEF Index
  <2>2. data[i] \in Int /\ data[j] \in Int
    BY <2>1, SortAssumption DEF IInv
  <2>3. i < f.less /\ j < f.less /\ f.at = "loop" => LeftCall(f, o) # {}
    <3>1. i < f.less /\ j < f.less /\ f.at = "loop" => f.less - 1 > f.lo
      BY <1>3, <1>6, <2>1, <1>19
    <3>2. QED
      BY <3>1, CallIsMade DEF LeftCall
  <2>4. i > f.less /\ j > f.less => RightCall(f, o) # {}
    <3>1. i > f.less /\ j > f.less => f.hi > f.less + 1
      BY <1>1, <1>3, <1>6, <2>1, <1>19
    <3>2. QED
      BY <3>1, CallIsMade DEF RightCall
  <2>5. ~(i > f.less /\ j > f.less)
    <3>1. CASE at = "left"
      BY <3>1, <1>3, <1>5, <1>6, <1>19, <2>1
    <3>2. CASE at # "left"
      <4>1. RightCall(f, o) \subseteq C
        BY <3>2
      <4>2. ASSUME i > f.less, j > f.less PROVE FALSE
        <5>1. PICK h \in RightCall(f, o) : TRUE
          BY <2>4, <4>2
        <5>2. i \in Region(h) /\ j \in Region(h)
          BY <1>3, <1>6, <1>8, <1>1, <2>1, <4>2
        <5>3. QED
          BY <5>2, <4>1, <1>19
      <4>3. QED
        BY <4>2
    <3>3. QED
      BY <3>1, <3>2
  <2>6. f.at = "loop" /\ f.more > f.hi
    BY <1>3, <1>6, <2>1, <2>5, <1>1, <1>19
  <2>7. ~(i < f.less /\ j < f.less)
    <3>1. LeftCall(f, o) \subseteq C
      BY <2>6
    <3>2. ASSUME i < f.less, j < f.less PROVE FALSE
      <4>1. PICK h \in LeftCall(f, o) : TRUE
        BY <2>3, <2>6, <3>2
      <4>2. i \in Region(h) /\ j \in Region(h)
        BY <1>3, <1>6, <1>7, <2>1, <2>6, <3>2
      <4>3. QED
        BY <4>2, <3>1, <1>19
    <3>3. QED
      BY <3>2
  <2>8. i \in f.lo .. f.less /\ j \in f.less .. f.hi
    BY <1>3, <1>6, <2>1, <2>5, <2>6, <2>7, <1>19
  <2>9. f.more - 1 = f.hi
    BY <1>1, <1>3, <2>6 DEF CallOK, CallType
  <2>10. /\ data[i] <= f.pivot /\ f.pivot \in Int
         /\ j = f.less => data[j] = f.pivot
         /\ j > f.less => data[j] > f.pivot
    BY <1>1, <1>3, <2>1, <2>6, <2>8, <2>9 DEF CallOK, CallType, LoopInv
  <2>11. QED
    BY <1>3, <2>1, <2>2, <2>8, <2>10
<1>20. QED
  BY <1>11, <1>14, <1>17, <1>18, <1>19, Handover DEF g

(* The loop moves elements of its own range only, each of which is still   *)
(* on the right side of every cell outside.                                *)
LEMMA VisitInv == ASSUME IInv, NEW f \in calls, Visit(f) PROVE IInv'
<1>1. /\ CallOK(f) /\ f.at = "loop" /\ f.more <= f.hi /\ Partitions(f)
      /\ f.lo \in Int /\ f.hi \in Int /\ f.less \in Int /\ f.more \in Int
      /\ 0 <= f.lo /\ f.hi < Size /\ f.lo <= f.more /\ f.lo - 1 <= f.less /\ f.less < f.more
      /\ data \in [Index -> Value] /\ f.pivot \in Int
  BY DEF IInv, Visit, CallOK, CallType, Partitions
<1>2. Region(f) = f.lo .. f.hi /\ f.lo .. f.hi \subseteq Index
  BY <1>1, SortAssumption DEF Region, Index
<1>3. \A i \in Index : data[i] \in Int
  BY <1>1, SortAssumption
<1>4. /\ \A i \in f.lo .. f.less : data[i] <= f.pivot
      /\ \A i \in f.less + 1 .. f.more - 1 : data[i] > f.pivot
      /\ data[f.hi] = f.pivot
  BY <1>1 DEF CallOK, LoopInv
<1>5. \E g : /\ calls' = (calls \ {f}) \cup {g} /\ g \in CallType
             /\ g.lo = f.lo /\ g.hi = f.hi /\ g.at = "loop" /\ g.pivot = f.pivot
             /\ g.more = f.more + 1
             /\ \/ data[f.more] <= f.pivot /\ g.less = f.less + 1 /\ Swap(f.less + 1, f.more)
                \/ data[f.more] > f.pivot /\ g.less = f.less /\ data' = data
  <2>1. CASE data[f.more] <= f.pivot
    <3> DEFINE g == [f EXCEPT !.less = @ + 1, !.more = @ + 1]
    <3>1. /\ g \in CallType /\ g.lo = f.lo /\ g.hi = f.hi /\ g.at = "loop"
          /\ g.pivot = f.pivot /\ g.more = f.more + 1 /\ g.less = f.less + 1
      <4>1. f \in CallType /\ f.less + 1 \in Int /\ f.more + 1 \in Int
        BY <1>1 DEF CallOK
      <4>2. QED
        BY <4>1, <1>1 DEF CallType
    <3>2. calls' = (calls \ {f}) \cup {g} /\ Swap(f.less + 1, f.more)
      BY <2>1 DEF Visit, Replace
    <3>3. QED
      BY <2>1, <3>1, <3>2
  <2>2. CASE ~(data[f.more] <= f.pivot)
    <3> DEFINE g == [f EXCEPT !.more = @ + 1]
    <3>1. /\ g \in CallType /\ g.lo = f.lo /\ g.hi = f.hi /\ g.at = "loop"
          /\ g.pivot = f.pivot /\ g.more = f.more + 1 /\ g.less = f.less
      BY <1>1 DEF CallOK, CallType
    <3>2. calls' = (calls \ {f}) \cup {g} /\ data' = data
      BY <2>2 DEF Visit, Replace
    <3>3. data[f.more] > f.pivot
      BY <1>1, <1>2, <1>3, <2>2
    <3>4. QED
      BY <3>1, <3>2, <3>3
  <2>3. QED
    BY <2>1, <2>2
<1>6. PICK g : /\ calls' = (calls \ {f}) \cup {g} /\ g \in CallType
               /\ g.lo = f.lo /\ g.hi = f.hi /\ g.at = "loop" /\ g.pivot = f.pivot
               /\ g.more = f.more + 1
               /\ \/ data[f.more] <= f.pivot /\ g.less = f.less + 1 /\ Swap(f.less + 1, f.more)
                  \/ data[f.more] > f.pivot /\ g.less = f.less /\ data' = data
  BY <1>5
<1>7. /\ data' \in [Index -> Value]
      /\ \A i \in Index \ Region(f) : data'[i] = data[i]
      /\ \A i \in Region(f) : \E k \in Region(f) : data'[i] = data[k]
  <2>1. f.less + 1 \in Region(f) /\ f.more \in Region(f)
    BY <1>1, <1>2
  <2>2. CASE Swap(f.less + 1, f.more)
    <3> DEFINE m == f.less + 1
    <3>1. m \in Index /\ f.more \in Index /\ m \in Region(f)
      BY <2>1, <1>2
    <3>2. data' = [data EXCEPT ![m] = data[f.more], ![f.more] = data[m]]
      BY <2>2 DEF Swap
    <3> HIDE DEF m
    <3>3. data' \in [Index -> Value]
      BY <1>1, <3>1, <3>2
    <3>4. \A i \in Index : data'[i] = IF i = f.more THEN data[m]
                                      ELSE IF i = m THEN data[f.more] ELSE data[i]
      BY <1>1, <3>1, <3>2
    <3>5. QED
      BY <1>2, <2>1, <3>1, <3>3, <3>4
  <2>3. CASE data' = data
    BY <2>3, <1>1, <1>2
  <2>4. QED
    BY <1>6, <2>2, <2>3
<1>8. Partitions(g) /\ Region(g) = Region(f)
  BY <1>1, <1>2, <1>6 DEF Partitions, Region
<1>9. CallOK(g)'
  <2>1. g.less \in g.lo - 1 .. g.hi /\ g.more \in g.lo .. g.hi + 1 /\ g.less < g.more
    BY <1>1, <1>6
  <2>2. /\ \A i \in g.lo .. g.less : data'[i] <= g.pivot
        /\ \A i \in g.less + 1 .. g.more - 1 : data'[i] > g.pivot
        /\ g.more <= g.hi => data'[g.hi] = g.pivot
        /\ g.more > g.hi  => g.less >= g.lo /\ data'[g.less] = g.pivot
    <3>1. CASE data[f.more] <= f.pivot /\ g.less = f.less + 1 /\ Swap(f.less + 1, f.more)
      <4> DEFINE m == f.less + 1
      <4>1. m \in Index /\ f.more \in Index /\ m \in f.lo .. f.more /\ m \in Int
        BY <1>1, <1>2
      <4>2. data' = [data EXCEPT ![m] = data[f.more], ![f.more] = data[m]] /\ g.less = m
        BY <3>1 DEF Swap
      <4>3. \A i \in f.lo .. f.less : i < m
        BY <1>1
      <4>4. \A i \in m .. f.more - 1 : data[i] > f.pivot
        BY <1>4
      <4>5. m = f.less + 1
        OBVIOUS
      <4> HIDE DEF m
      <4>6. \A i \in Index : data'[i] = IF i = f.more THEN data[m]
                                        ELSE IF i = m THEN data[f.more] ELSE data[i]
        BY <1>1, <4>1, <4>2
      <4>7. ASSUME NEW i \in f.lo .. m PROVE data'[i] <= f.pivot
        <5>1. i \in Index /\ i \in Int /\ i <= f.more
          BY <1>1, <1>2, <4>1
        <5>2. CASE i = m
          BY <5>2, <4>1, <4>6, <3>1
        <5>3. CASE i # m
          BY <5>3, <5>1, <1>1, <1>2, <1>4, <4>1, <4>5, <4>6
        <5>4. QED
          BY <5>2, <5>3
      <4>8. ASSUME NEW i \in m + 1 .. f.more PROVE data'[i] > f.pivot
        <5>1. i \in Index /\ i \in Int /\ i # m /\ m \in m .. f.more - 1
          BY <1>1, <1>2, <4>1
        <5>2. CASE i = f.more
          BY <5>1, <5>2, <4>4, <4>6
        <5>3. CASE i # f.more
          BY <5>1, <5>3, <4>1, <4>4, <4>6, <1>1
        <5>4. QED
          BY <5>2, <5>3
      <4>9. f.more < f.hi => data'[f.hi] = f.pivot
        BY <1>1, <1>2, <1>4, <4>1, <4>6
      <4>10. f.more = f.hi => data'[m] = f.pivot
        BY <1>4, <4>1, <4>6
      <4>11. g.less = m /\ g.more = f.more + 1 /\ g.more - 1 = f.more
        BY <1>1, <1>6, <4>2
      <4>12. g.more <= g.hi => f.more < f.hi
        BY <1>1, <1>6
      <4>13. g.more > g.hi => f.more = f.hi /\ m >= f.lo
        BY <1>1, <1>6, <4>1
      <4>14. g.lo = f.lo /\ g.hi = f.hi /\ g.pivot = f.pivot
        BY <1>6
      <4>15. QED
        BY <4>7, <4>8, <4>9, <4>10, <4>11, <4>12, <4>13, <4>14
    <3>2. CASE data[f.more] > f.pivot /\ g.less = f.less /\ data' = data
      BY <3>2, <1>1, <1>2, <1>4, <1>6
    <3>3. QED
      BY <3>1, <3>2, <1>6
  <2>3. QED
    BY <1>1, <1>6, <2>1, <2>2 DEF CallOK, LoopInv, Partitions
<1>10. ASSUME NEW h \in calls \ {f} PROVE CallOK(h)'
  <2>1. CallOK(h) /\ Region(h) \cap Region(f) = {}
    BY DEF IInv, Apart
  <2>2. \A i \in h.lo .. h.hi : Partitions(h) => i \in Index /\ i \notin Region(f)
    <3>1. Partitions(h) => Region(h) = h.lo .. h.hi
      BY DEF Region, Partitions
    <3>2. h.lo .. h.hi \subseteq Index
      BY <2>1, SortAssumption DEF CallOK, CallType, Index
    <3>3. QED
      BY <2>1, <3>1, <3>2
  <2>3. \A i \in h.lo .. h.hi : Partitions(h) => data'[i] = data[i]
    BY <2>2, <1>7
  <2>4. LoopInv(h)'
    <3>1. CASE h.at = "loop"
      <4>1. /\ \A i \in h.lo .. h.hi : data'[i] = data[i]
            /\ h.lo \in Int /\ h.hi \in Int /\ h.less \in Int /\ h.more \in Int
            /\ h.lo < h.hi /\ h.less < h.more /\ h.more <= h.hi + 1 /\ h.lo - 1 <= h.less
        BY <2>1, <2>3, <3>1 DEF CallOK, CallType, Partitions
      <4>2. LoopInv(h)
        BY <2>1 DEF CallOK
      <4>3. QED
        BY <3>1, <4>1, <4>2 DEF LoopInv
    <3>2. CASE h.at # "loop"
      BY <3>2, <2>1 DEF CallOK, LoopInv
    <3>3. QED
      BY <3>1, <3>2
  <2>5. QED
    BY <2>1, <2>4 DEF CallOK, Partitions
<1>11. \A h, k \in calls' : Apart(h, k) /\ Settled(h, k)
  BY <1>6, <1>8 DEF IInv, Apart, Settled
<1>12. Ordered'
  <2> SUFFICES ASSUME NEW i \in Index, NEW j \in Index, i < j,
                      \A h \in calls' : ~(i \in Region(h) /\ j \in Region(h))
               PROVE  data'[i] <= data'[j]
    BY DEF Ordered, Region, Partitions
  <2>1. \A h \in calls : ~(i \in Region(h) /\ j \in Region(h))
    BY <1>6, <1>8
  <2>2. \A k, l \in Index : k < l /\ (\A h \in calls : ~(k \in Region(h) /\ l \in Region(h)))
                              => data[k] <= data[l]
    BY DEF IInv, Ordered
  <2>3. CASE i \in Region(f)
    <3>1. PICK k \in Region(f) : data'[i] = data[k]
      BY <2>3, <1>7
    <3>2. j \notin Region(f) /\ data'[j] = data[j]
      BY <2>1, <2>3, <1>7
    <3>3. k \in Index /\ k < j
      BY <1>1, <1>2, <2>3, <3>2 DEF Index
    <3>4. \A h \in calls : ~(k \in Region(h) /\ j \in Region(h))
      BY <3>2 DEF IInv, Apart
    <3>5. QED
      BY <2>2, <3>1, <3>2, <3>3, <3>4
  <2>4. CASE j \in Region(f)
    <3>1. PICK k \in Region(f) : data'[j] = data[k]
      BY <2>4, <1>7
    <3>2. i \notin Region(f) /\ data'[i] = data[i]
      BY <2>1, <2>4, <1>7
    <3>3. k \in Index /\ i < k
      BY <1>1, <1>2, <2>4, <3>2 DEF Index
    <3>4. \A h \in calls : ~(i \in Region(h) /\ k \in Region(h))
      BY <3>2 DEF IInv, Apart
    <3>5. QED
      BY <2>2, <3>1, <3>2, <3>3, <3>4
  <2>5. CASE i \notin Region(f) /\ j \notin Region(f)
    BY <2>5, <2>1, <2>2, <1>7
  <2>6. QED
    BY <2>3, <2>4, <2>5
<1>13. input' = input
  BY DEF Visit
<1>14. QED
  BY <1>6, <1>7, <1>9, <1>10, <1>11, <1>12, <1>13
     DEF IInv, Apart, Settled, Region, Partitions

LEMMA ReturnInv == ASSUME IInv, NEW f \in calls, Return(f) PROVE IInv'
<1>1. Region(f) = {}
  BY DEF Return, Region, Partitions
<1>2. QED
  BY <1>1, Handover DEF Return

LEMMA NextInv == ASSUME IInv, [Next]_vars PROVE IInv'
<1>1. CASE UNCHANGED vars
  BY <1>1 DEF vars, IInv, CallOK, LoopInv, Apart, Settled, Ordered, Region, Partitions
<1>2. ASSUME NEW f \in calls, Step(f) PROVE IInv'
  <2>1. CASE Start(f)   BY <2>1, StartInv
  <2>2. CASE Visit(f)   BY <2>2, VisitInv
  <2>3. CASE Split(f)   
    <3>1. Replace(f, {[f EXCEPT !.at = "wait"]} \cup (LeftCall(f, TRUE) \cup RightCall(f, TRUE)))
      BY <2>3 DEF Split, Replace
    <3>2. QED
      BY <2>3, <3>1, RecurInv DEF Split
  <2>4. CASE GoLeft(f)  BY <2>4, RecurInv DEF GoLeft
  <2>5. CASE GoRight(f) BY <2>5, RecurInv DEF GoRight
  <2>6. CASE Return(f)  BY <2>6, ReturnInv
  <2>7. QED
    BY <1>2, <2>1, <2>2, <2>3, <2>4, <2>5, <2>6 DEF Step
<1>3. QED
  BY <1>1, <1>2 DEF Next

THEOREM InvHolds == Spec => []IInv
  BY InitInv, NextInv, PTL DEF Spec

(* The variables and the calls have their types.                           *)
THEOREM TypeCorrect == Spec => []TypeOK
<1>1. IInv => TypeOK
  BY DEF IInv, TypeOK, CallOK
<1>2. QED
  BY <1>1, InvHolds, PTL

(* Calls that partition at the same time have no cell in common.           *)
THEOREM TasksAreApart == Spec => []NoSharedCells
<1>1. ASSUME IInv PROVE NoSharedCells
  <2> SUFFICES ASSUME NEW f \in calls, NEW g \in calls,
                      f # g, Partitions(f), Partitions(g)
               PROVE  f.hi < g.lo \/ g.hi < f.lo
    BY DEF NoSharedCells
  <2>1. Region(f) = f.lo .. f.hi /\ Region(g) = g.lo .. g.hi
    BY DEF Region, Partitions
  <2>2. Region(f) \cap Region(g) = {}
    BY <1>1 DEF IInv, Apart
  <2>3. /\ f.lo \in Int /\ f.hi \in Int /\ f.lo < f.hi
        /\ g.lo \in Int /\ g.hi \in Int /\ g.lo < g.hi
    BY <1>1 DEF IInv, CallOK, CallType
  <2>4. f.lo \notin g.lo .. g.hi /\ g.lo \notin f.lo .. f.hi
    BY <2>1, <2>2, <2>3
  <2>5. QED
    BY <2>3, <2>4
<1>2. QED
  BY <1>1, InvHolds, PTL

(* When the first call has returned no region is left, and all cells are   *)
(* in order.                                                               *)
THEOREM SortIsCorrect == Spec => []SortedAtEnd
<1>1. IInv => SortedAtEnd
  BY DEF IInv, Ordered, SortedAtEnd
<1>2. QED
  BY <1>1, InvHolds, PTL

(* A step of one call takes no other away.                                 *)
LEMMA StepReplaces ==
    ASSUME NEW e \in calls, Step(e) PROVE calls \ {e} \subseteq calls'
<1>1. ASSUME NEW C, Replace(e, C) PROVE calls \ {e} \subseteq calls'
  BY <1>1 DEF Replace
<1>2. CASE Visit(e)
  BY <1>1, <1>2 DEF Visit
<1>3. CASE Start(e) \/ Return(e)
  BY <1>1, <1>3 DEF Start, Return
<1>4. CASE Split(e)
  BY <1>1, <1>4 DEF Split
<1>5. CASE GoLeft(e) \/ GoRight(e)
  BY <1>1, <1>5 DEF GoLeft, GoRight
<1>6. QED
  BY <1>2, <1>3, <1>4, <1>5 DEF Step

(* Steps of the calls below leave a pivot where it is, and every element   *)
(* on its side of it.                                                      *)
THEOREM PivotsStay == Spec => PivotsArePlaced
<1> DEFINE Placed == \A f \in calls : ~Partitions(f) =>
              /\ data'[f.less] = data[f.less]
              /\ \A i \in f.lo .. f.hi :
                    /\ i < f.less => data'[i] <= data[f.less]
                    /\ i > f.less => data'[i] >= data[f.less]
<1>1. ASSUME IInv, IInv', [Next]_vars PROVE Placed
  <2> SUFFICES ASSUME NEW f \in calls, ~Partitions(f)
               PROVE  /\ data'[f.less] = data[f.less]
                      /\ \A i \in f.lo .. f.hi :
                            /\ i < f.less => data'[i] <= data[f.less]
                            /\ i > f.less => data'[i] >= data[f.less]
    OBVIOUS
  <2>1. /\ f.less \in Index /\ f.lo .. f.hi \subseteq Index
        /\ \A g \in calls : f.less \notin Region(g)
    BY <1>1, SortAssumption DEF IInv, CallOK, CallType, Settled, Index
  <2>2. \A g \in calls' : f.less \notin Region(g)
    <3>1. CASE f \in calls'
      BY <3>1, <1>1 DEF IInv, Settled, Region, Partitions
    <3>2. CASE f \notin calls'
      <4>1. Step(f)
        <5>1. CASE UNCHANGED vars
          BY <5>1, <3>2 DEF vars
        <5>2. CASE Next
          BY <5>2, <3>2, StepReplaces DEF Next
        <5>3. QED
          BY <1>1, <5>1, <5>2
      <4>2. CASE GoRight(f)
        <5> DEFINE g == [f EXCEPT !.at = "right"]
        <5>1. g \in calls' /\ g.less = f.less /\ g.at = "right"
          BY <4>2, <1>1 DEF GoRight, Replace, IInv, CallOK, CallType
        <5>2. ~Partitions(g)
          BY <5>1 DEF Partitions
        <5> HIDE DEF g
        <5>3. QED
          BY <5>1, <5>2, <1>1 DEF IInv, Settled, Region, Partitions
      <4>3. CASE Return(f)
        BY <4>3, <2>1 DEF Return, Replace
      <4>4. QED
        BY <4>1, <4>2, <4>3 DEF Step, Start, Visit, Split, GoLeft, Partitions
    <3>3. QED
      BY <3>1, <3>2
  <2>3. data'[f.less] = data[f.less]
    <3>1. CASE data' = data
      BY <3>1
    <3>2. CASE \E e \in calls : Visit(e) /\ Swap(e.less + 1, e.more)
      <4>1. PICK e \in calls : Visit(e) /\ Swap(e.less + 1, e.more)
        BY <3>2
      <4>2. Region(e) = e.lo .. e.hi
        BY <4>1 DEF Visit, Region, Partitions
      <4>3. e.less + 1 \in Region(e) /\ e.more \in Region(e)
        BY <4>1, <4>2, <1>1 DEF Visit, IInv, CallOK, CallType
      <4>4. f.less # e.less + 1 /\ f.less # e.more
        BY <4>3, <2>1
      <4>5. QED
        BY <4>1, <4>4, <2>1, <1>1 DEF Swap, IInv
    <3>3. QED
      BY <1>1, <3>1, <3>2
         DEF Next, vars, Step, Start, Visit, Split, GoLeft, GoRight, Return
  <2>4. ASSUME NEW i \in f.lo .. f.hi PROVE
           /\ i < f.less => data'[i] <= data'[f.less]
           /\ i > f.less => data'[i] >= data'[f.less]
    <3>1. i \in Index /\ \A g \in calls' : ~(i \in Region(g) /\ f.less \in Region(g))
      BY <2>1, <2>2
    <3>2. Ordered'
      BY <1>1 DEF IInv
    <3>3. data'[i] \in Int /\ data'[f.less] \in Int
      BY <1>1, <2>1, <3>1, SortAssumption DEF IInv
    <3>4. QED
      BY <2>1, <3>1, <3>2, <3>3 DEF Ordered, Region, Partitions, Index
  <2>5. QED
    BY <2>3, <2>4
<1>2. IInv /\ IInv' /\ [Next]_vars => [Placed]_vars
  BY <1>1
<1>3. Spec => [][Placed]_vars
  BY <1>2, InvHolds, PTL DEF Spec
<1>4. QED
  BY <1>3 DEF PivotsArePlaced

(* An exchange of two elements changes the count of no element.            *)
LEMMA SwapKeepsCounts ==
    ASSUME data \in [Index -> Value], NEW i \in Index, NEW j \in Index, Swap(i, j), NEW v
    PROVE  Cardinality({k \in Index : data'[k] = v}) = Cardinality({k \in Index : data[k] = v})
<1> DEFINE S == {k \in Index : data[k] = v}
           T == {k \in Index : data'[k] = v}
           x == [k \in S |-> IF k = i THEN j ELSE IF k = j THEN i ELSE k]
<1>1. IsFiniteSet(S)
  <2>1. IsFiniteSet(Index)
    BY FS_Interval, SortAssumption DEF Index
  <2>2. QED
    BY <2>1, FS_Subset
<1>2. \A k \in Index : data'[k] = IF k = j THEN data[i] ELSE IF k = i THEN data[j] ELSE data[k]
  BY DEF Swap
<1>3. x \in [S -> T]
  BY <1>2
<1>4. \A k, l \in S : x[k] = x[l] => k = l
  OBVIOUS
<1>5. \A t \in T : \E k \in S : x[k] = t
  <2> SUFFICES ASSUME NEW t \in T PROVE \E k \in S : x[k] = t
    OBVIOUS
  <2> DEFINE k == IF t = i THEN j ELSE IF t = j THEN i ELSE t
  <2>1. k \in S
    BY <1>2
  <2>2. x[k] = t
    BY <2>1
  <2>3. QED
    BY <2>1, <2>2
<1>6. ExistsBijection(S, T)
  <2>1. x \in Injection(S, T)
    BY <1>3, <1>4 DEF Injection, IsInjective
  <2>2. x \in Surjection(S, T)
    BY <1>3, <1>5 DEF Surjection
  <2>3. QED
    BY <2>1, <2>2 DEF ExistsBijection, Bijection
<1>7. QED
  BY <1>1, <1>6, FS_Bijection

(* At every moment each element is there as often as at the beginning.     *)
THEOREM NothingIsLost == Spec => []SameElements
<1>1. Init => SameElements
  BY DEF Init, SameElements
<1>2. ASSUME IInv, SameElements, [Next]_vars PROVE SameElements'
  <2>1. CASE data' = data /\ input' = input
    BY <1>2, <2>1 DEF SameElements
  <2>2. CASE \E e \in calls : Visit(e) /\ Swap(e.less + 1, e.more)
    <3>1. PICK e \in calls : Visit(e) /\ Swap(e.less + 1, e.more)
      BY <2>2
    <3>2. e.less + 1 \in Index /\ e.more \in Index
      BY <3>1, <1>2, SortAssumption DEF Visit, IInv, CallOK, CallType, Index
    <3>3. data \in [Index -> Value] /\ input' = input
      BY <1>2, <3>1 DEF IInv, Visit
    <3>4. \A v : Cardinality({k \in Index : data'[k] = v}) = Cardinality({k \in Index : data[k] = v})
      BY <3>1, <3>2, <3>3, SwapKeepsCounts
    <3>5. QED
      BY <1>2, <3>3, <3>4 DEF SameElements
  <2>3. QED
    BY <1>2, <2>1, <2>2
       DEF Next, vars, Step, Start, Visit, Split, GoLeft, GoRight, Return
<1>3. QED
  BY <1>1, <1>2, InvHolds, PTL DEF Spec
-----------------------------------------------------------------------------
\* Facts about products that the provers need.
LEMMA Division ==
    ASSUME NEW n \in Nat, NEW m \in Nat \ {0}
    PROVE  /\ n \div m \in Nat /\ (n % m) \in 0 .. m - 1
           /\ n = m * (n \div m) + (n % m)
  BY Z3

LEMMA Monotone ==
    ASSUME NEW a \in Nat, NEW b \in Nat, NEW s \in Nat, a <= b
    PROVE  a * s <= b * s /\ a * s \in Nat /\ b * s \in Nat
  BY Z3

\* A rank but the last has one portion, and the last has what is left.
LEMMA TermsAre ==
    ASSUME NEW N \in Nat, NEW P \in Nat \ {0}, NEW rank \in 0 .. P - 1
    PROVE  Terms(N, P, rank) =
              rank * (N \div P) .. IF rank = P - 1 THEN N - 1 ELSE (rank + 1) * (N \div P) - 1
  <1> DEFINE s == N \div P
             t == N % P
  <1>1. s \in Nat /\ t \in Nat /\ N = P * s + t
    BY Division
  <1>2. /\ rank * s \in Int /\ P * s \in Int
        /\ (rank + 1) * s = rank * s + s
        /\ rank = P - 1 => rank * s = P * s - s
    BY <1>1, Z3
  <1>3. Terms(N, P, rank) = rank * s .. rank * s + (s + IF rank = P - 1 THEN t ELSE 0) - 1
    BY DEF Terms, PortionSize, StdPortionSize, Rest
  <1> QED BY <1>1, <1>2, <1>3

\* Every term is summed, by one rank only (p10.cpp:33), also when there are
\* more ranks than terms and all but the last have nothing to do.
THEOREM EveryTermOnce ==
    ASSUME NEW N \in Nat, NEW P \in Nat \ {0}
    PROVE  /\ \A i \in 0 .. N - 1 : \E rank \in 0 .. P - 1 : i \in Terms(N, P, rank)
           /\ \A r, q \in 0 .. P - 1 : r # q => Terms(N, P, r) \cap Terms(N, P, q) = {}
           /\ \A r \in 0 .. P - 1 : Terms(N, P, r) \subseteq 0 .. N - 1
  <1> DEFINE s == N \div P
             t == N % P
             From(r) == r * s
  <1>1. s \in Nat /\ t \in Nat /\ N = From(P) + t
    BY Division
  <1>2. \A r \in 0 .. P - 1 :
           /\ r # P - 1 => Terms(N, P, r) = From(r) .. From(r + 1) - 1
           /\ r = P - 1 => Terms(N, P, r) = From(r) .. N - 1
    BY TermsAre
  <1>3. \A a, b \in Nat : a <= b => From(a) <= From(b) /\ From(a) \in Nat /\ From(b) \in Nat
    BY Monotone, <1>1
  <1>4. \A i \in Nat : s # 0 =>
           i \div s \in Nat /\ From(i \div s) <= i /\ i < From((i \div s) + 1)
    <2> SUFFICES ASSUME NEW i \in Nat, s # 0
                 PROVE  i \div s \in Nat /\ From(i \div s) <= i /\ i < From((i \div s) + 1)
      OBVIOUS
    <2>1. i \div s \in Nat /\ (i % s) \in 0 .. s - 1 /\ i = s * (i \div s) + (i % s)
      BY <1>1, Division
    <2> HIDE DEF s
    <2>2. \A r, m \in Nat : m < s /\ i = s * r + m => r * s <= i /\ i < (r + 1) * s
      BY <1>1, Z3
    <2> QED BY <1>1, <2>1, <2>2
  <1>5. s = 0 => From(P - 1) = 0
    BY Z3
  <1> HIDE DEF s, t, From
  <1>6. ASSUME NEW i \in 0 .. N - 1
        PROVE  \E rank \in 0 .. P - 1 : i \in Terms(N, P, rank)
    <2>1. CASE From(P - 1) <= i
      <3>1. From(P - 1) \in Nat /\ P - 1 \in 0 .. P - 1
        BY <1>3
      <3>2. i \in Terms(N, P, P - 1)
        BY <1>2, <2>1, <3>1
      <3> QED BY <3>1, <3>2
    <2>2. CASE i < From(P - 1)
      <3>1. s # 0
        BY <2>2, <1>5
      <3>2. PICK r \in Nat : From(r) <= i /\ i < From(r + 1)
        BY <3>1, <1>4
      <3>3. From(r) \in Nat /\ From(r + 1) \in Nat
        BY <1>3
      <3>4. r \in 0 .. P - 1 /\ r # P - 1
        BY <1>3, <2>2, <3>2
      <3>5. i \in Terms(N, P, r)
        BY <1>2, <3>2, <3>3, <3>4
      <3> QED BY <3>4, <3>5
    <2>3. From(P - 1) \in Nat
      BY <1>3
    <2> QED BY <2>1, <2>2, <2>3
  <1>7. ASSUME NEW r \in 0 .. P - 1, NEW q \in 0 .. P - 1, r < q
        PROVE  Terms(N, P, r) \cap Terms(N, P, q) = {}
    <2>1. Terms(N, P, r) = From(r) .. From(r + 1) - 1
      BY <1>2, <1>7
    <2>2. From(r + 1) <= From(q) /\ From(r) \in Nat /\ From(q) \in Nat /\ From(r + 1) \in Nat
      BY <1>3, <1>7
    <2>3. \E hi \in Int : Terms(N, P, q) = From(q) .. hi
      <3>1. From(q + 1) \in Nat
        BY <1>3
      <3> QED BY <1>2, <3>1
    <2> QED BY <2>1, <2>2, <2>3
  <1>8. ASSUME NEW r \in 0 .. P - 1
        PROVE  Terms(N, P, r) \subseteq 0 .. N - 1
    <2>1. From(r) \in Nat /\ From(r + 1) \in Nat /\ From(r + 1) <= From(P) /\ From(P) \in Nat
      BY <1>3
    <2>2. CASE r = P - 1
      <3>1. Terms(N, P, r) = From(r) .. N - 1
        BY <1>2, <2>2
      <3> QED BY <2>1, <3>1
    <2>3. CASE r # P - 1
      <3>1. Terms(N, P, r) = From(r) .. From(r + 1) - 1
        BY <1>2, <2>3
      <3>2. From(r + 1) - 1 <= N - 1
        BY <1>1, <2>1
      <3> QED BY <2>1, <3>1, <3>2
    <2> QED BY <2>2, <2>3
  <1> QED BY <1>6, <1>7, <1>8
=============================================================================
