----------------------------- MODULE SortedIndex -----------------------------
(***************************************************************************)
(* getSortedIndex(array, value, compare) of source/agent.js, the binary    *)
(* search that finds where a session enters the pool, one loop iteration   *)
(* per step, and the splice its caller does with the result.  A session is *)
(* reduced to its capacity, all that compareSessions looks at.             *)
(*                                                                         *)
(* The agent does not sort a list again when a SETTINGS frame changes a    *)
(* capacity, so the search is also run on lists that are not sorted: Agent *)
(* relies on what it finds there (SortedIndexes).                          *)
(***************************************************************************)
EXTENDS Integers, Sequences, SequencesExt

CONSTANTS Capacities,   \* values of maxConcurrentStreams
          MaxLength     \* bound on the sessions of a list

ASSUME CapacitiesAssumption == Capacities \subseteq Nat
ASSUME MaxLengthAssumption == MaxLength \in Nat

VARIABLES array,        \* the capacities of the list, in its order
          value,        \* the capacity of the session to insert
          low, high,    \* the bounds of the search, 0-based like the source
          searching     \* whether a call is under way

vars == <<array, value, low, high, searching>>

\* compareSessions(a, b)
Compare(a, b) == a > b

Descending(s) == \A i, j \in 1..Len(s) : i < j => s[i] >= s[j]

\* array[index] of the source.
At(index) == array[index + 1]

Init ==
  /\ \E n \in 0..MaxLength : array \in [1..n -> Capacities]
  /\ value \in Capacities
  /\ low = 0 /\ high = 0
  /\ searching = FALSE

Call(v) ==
  /\ ~searching
  /\ Len(array) < MaxLength
  /\ searching' = TRUE
  /\ value' = v /\ low' = 0 /\ high' = Len(array)
  /\ UNCHANGED array

Iterate_Mutant ==
  /\ searching /\ low < high
  /\ LET mid == (low + high) \div 2
     IN IF Compare(At(mid), value)
        THEN low' = mid + 1 /\ high' = high
        ELSE low' = mid /\ high' = mid
  /\ UNCHANGED <<array, value, searching>>

Iterate_Stuck ==
  /\ searching /\ low < high
  /\ LET mid == (low + high) \div 2
     IN IF Compare(At(mid), value)
        THEN low' = mid /\ high' = high
        ELSE low' = low /\ high' = mid
  /\ UNCHANGED <<array, value, searching>>

Iterate ==
  /\ searching /\ low < high
  /\ LET mid == (low + high) \div 2
     IN IF Compare(At(mid), value)
        THEN low' = mid + 1 /\ high' = high
        ELSE low' = low /\ high' = mid
  /\ UNCHANGED <<array, value, searching>>

Insert_Mutant ==
  /\ searching /\ low = high
  /\ array' = InsertAt(array, IF low = 0 THEN 1 ELSE low, value)
  /\ searching' = FALSE
  /\ UNCHANGED <<value, low, high>>

\* sessions.splice(getSortedIndex(...), 0, session)
Insert ==
  /\ searching /\ low = high
  /\ array' = InsertAt(array, low + 1, value)
  /\ searching' = FALSE
  /\ UNCHANGED <<value, low, high>>

Next == (\E v \in Capacities : Call(v)) \/ Iterate \/ Insert

Spec == Init /\ [][Next]_vars

FairSpec == Spec /\ WF_vars(Iterate) /\ WF_vars(Insert)

------------------------------------------------------------------------------
TypeOK ==
  /\ array \in Seq(Capacities) /\ value \in Capacities
  /\ low \in Nat /\ high \in Nat
  /\ searching \in BOOLEAN

\* Whatever the list, everything just below low is larger than the value and
\* the element at high is not: the search never needs the list to be sorted.
Bracketed ==
  searching =>
    /\ low <= high /\ high <= Len(array)
    /\ low > 0 => Compare(At(low - 1), value)
    /\ high < Len(array) => ~Compare(At(high), value)

\* On a sorted list the insertion keeps the order getSession() scans in.
KeepsOrder == [][Descending(array) => Descending(array')]_vars

\* Every search ends: the loop has no input on which low < high for ever.
SearchEnds == searching ~> ~searching
=============================================================================
