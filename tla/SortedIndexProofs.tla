------------------------- MODULE SortedIndexProofs -------------------------
(* What getSortedIndex() returns, for lists of every length and content.   *)
EXTENDS SortedIndex, ListLemmas

\* The search state of a loop iteration is well typed and brackets the value.
IInv == TypeOK /\ Bracketed

LEMMA InitIInv == Init => IInv
<1>. SUFFICES ASSUME Init PROVE IInv
  OBVIOUS
<1>1. PICK n \in 0..MaxLength : array \in [1..n -> Capacities]
  BY DEF Init
<1>2. array \in Seq(Capacities)
  BY <1>1, MaxLengthAssumption
<1>. QED
  BY <1>2 DEF Init, IInv, TypeOK, Bracketed

LEMMA CallIInv == ASSUME IInv, NEW v \in Capacities, Call(v) PROVE IInv'
  BY DEF IInv, TypeOK, Bracketed, Call

LEMMA IterateIInv == ASSUME IInv, Iterate PROVE IInv'
<1>. DEFINE mid == (low + high) \div 2
<1>1. /\ mid \in Nat /\ low <= mid /\ mid < high
      /\ array' = array /\ value' = value /\ searching' = searching
  BY DEF IInv, TypeOK, Bracketed, Iterate
<1>2. CASE Compare(At(mid), value)
  <2>1. low' = mid + 1 /\ high' = high
    BY <1>2 DEF Iterate
  <2>. QED
    BY <1>1, <1>2, <2>1 DEF IInv, TypeOK, Bracketed, Compare, At, Iterate
<1>3. CASE ~Compare(At(mid), value)
  <2>1. low' = low /\ high' = mid
    BY <1>3 DEF Iterate
  <2>. QED
    BY <1>1, <1>3, <2>1 DEF IInv, TypeOK, Bracketed, Compare, At, Iterate
<1>. QED
  BY <1>2, <1>3

LEMMA InsertIInv == ASSUME IInv, Insert PROVE IInv'
<1>1. /\ array \in Seq(Capacities) /\ value \in Capacities
      /\ low + 1 \in 1..(Len(array) + 1) /\ array' = InsertAt(array, low + 1, value)
  BY DEF IInv, TypeOK, Bracketed, Insert
<1>2. array' \in Seq(Capacities)
  BY <1>1, InsertAtElements
<1>. QED
  BY <1>2 DEF IInv, TypeOK, Bracketed, Insert

LEMMA NextIInv == ASSUME IInv, [Next]_vars PROVE IInv'
<1>1. CASE \E v \in Capacities : Call(v)
  BY <1>1, CallIInv
<1>2. CASE Iterate
  BY <1>2, IterateIInv
<1>3. CASE Insert
  BY <1>3, InsertIInv
<1>4. CASE UNCHANGED vars
  BY <1>4 DEF IInv, TypeOK, Bracketed, At, vars
<1>. QED
  BY <1>1, <1>2, <1>3, <1>4 DEF Next

LEMMA SearchInvariant == Spec => []IInv
<1>. QED
  BY InitIInv, NextIInv, PTL DEF Spec

\* getSortedIndex() keeps its loop invariant on lists of any length, sorted or not.
THEOREM SearchBrackets == Spec => []Bracketed
<1>1. IInv => Bracketed
  BY DEF IInv
<1>. QED
  BY <1>1, SearchInvariant, PTL

LEMMA InsertKeepsOrder == ASSUME IInv, Insert, Descending(array) PROVE Descending(array')
<1>1. /\ array \in Seq(Capacities) /\ value \in Capacities
      /\ low + 1 \in 1..(Len(array) + 1) /\ array' = InsertAt(array, low + 1, value)
  BY DEF IInv, TypeOK, Bracketed, Insert
<1>2. /\ array' \in Seq(Capacities)
      /\ Len(array') = Len(array) + 1
      /\ \A k \in 1..low : array'[k] = array[k]
      /\ array'[low + 1] = value
      /\ \A k \in (low + 2)..(Len(array) + 1) : array'[k] = array[k - 1]
  <2>1. low \in Nat
    BY DEF IInv, TypeOK
  <2>2. /\ \A k \in 1..((low + 1) - 1) : array'[k] = array[k]
        /\ \A k \in ((low + 1) + 1)..(Len(array) + 1) : array'[k] = array[k - 1]
    BY <1>1, InsertAtElements
  <2>. QED
    BY <1>1, <2>1, <2>2, InsertAtElements
<1>5. /\ low \in 0..Len(array) /\ value \in Nat
      /\ \A k \in 1..Len(array) : array[k] \in Nat
  <2>1. \A k \in 1..Len(array) : array[k] \in Capacities
    BY <1>1, ElementOfSeq
  <2>2. /\ value \in Nat
        /\ \A k \in 1..Len(array) : array[k] \in Nat
    BY <1>1, <2>1, CapacitiesAssumption
  <2>3. low \in 0..Len(array)
    BY <1>1, LenProperties DEF IInv, TypeOK
  <2>. QED
    BY <2>2, <2>3
<1>3. \A k \in 1..low : array[k] > value
  BY <1>5 DEF IInv, TypeOK, Bracketed, Insert, Compare, At, Descending
<1>4. \A k \in (low + 1)..Len(array) : array[k] <= value
  BY <1>5 DEF IInv, TypeOK, Bracketed, Insert, Compare, At, Descending
<1>6. ASSUME NEW i \in 1..(Len(array) + 1), NEW j \in 1..(Len(array) + 1), i < j
      PROVE  array'[i] >= array'[j]
  <2>1. CASE j < low + 1
    <3>1. array[i] >= array[j]
      BY <1>5, <1>6, <2>1 DEF Descending
    <3>. QED
      BY <1>2, <1>5, <1>6, <2>1, <3>1
  <2>2. CASE j = low + 1
    BY <1>2, <1>3, <1>5, <1>6, <2>2
  <2>3. CASE i < low + 1 /\ low + 1 < j
    <3>1. array[i] > value /\ array[j - 1] <= value
      BY <1>3, <1>4, <1>5, <1>6, <2>3
    <3>. QED
      BY <1>2, <1>5, <1>6, <2>3, <3>1, SMTT(30)
  <2>4. CASE i = low + 1
    BY <1>2, <1>4, <1>5, <1>6, <2>4
  <2>5. CASE low + 1 < i
    <3>1. array[i - 1] >= array[j - 1]
      BY <1>5, <1>6, <2>5 DEF Descending
    <3>. QED
      BY <1>2, <1>5, <1>6, <2>5, <3>1
  <2>. QED
    BY <1>5, <2>1, <2>2, <2>3, <2>4, <2>5
<1>. QED
  BY <1>2, <1>6 DEF Descending

\* The lists of the pool stay sorted as long as no capacity changes.
THEOREM OrderKept == Spec => KeepsOrder
<1>1. ASSUME IInv, [Next]_vars PROVE [Descending(array) => Descending(array')]_vars
  <2>1. CASE Insert
    BY <1>1, <2>1, InsertKeepsOrder
  <2>2. CASE ~Insert
    BY <1>1, <2>2 DEF Next, Call, Iterate, vars
  <2>. QED
    BY <2>1, <2>2
<1>. QED
  BY <1>1, SearchInvariant, PTL DEF Spec, KeepsOrder
=============================================================================
