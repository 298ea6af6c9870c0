----------------------------- MODULE ListLemmas ------------------------------
(* What splice() leaves in a list: InsertAt and RemoveAt element by element. *)
EXTENDS Integers, Sequences, SequencesExt, SequenceTheorems, TLAPS

\* array.splice(i - 1, 0, e) shifts what stood at i and after by one.
LEMMA InsertAtElements ==
  ASSUME NEW S, NEW s \in Seq(S), NEW i \in 1..(Len(s) + 1), NEW e \in S
  PROVE  /\ InsertAt(s, i, e) \in Seq(S)
         /\ Len(InsertAt(s, i, e)) = Len(s) + 1
         /\ \A k \in 1..(i - 1) : InsertAt(s, i, e)[k] = s[k]
         /\ InsertAt(s, i, e)[i] = e
         /\ \A k \in (i + 1)..(Len(s) + 1) : InsertAt(s, i, e)[k] = s[k - 1]
<1>. DEFINE front == SubSeq(s, 1, i - 1)
            back == SubSeq(s, i, Len(s))
            start == front \o <<e>>
<1>1. /\ Len(s) \in Nat /\ i \in Int
      /\ \A k \in 1..Len(s) : s[k] \in S
  BY LenProperties, ElementOfSeq
<1>2. /\ front \in Seq(S) /\ Len(front) = i - 1
      /\ \A k \in 1..(i - 1) : front[k] = s[k]
  <2>1. \A k \in 1..(i - 1) : s[k] \in S
    BY <1>1
  <2>. QED
    BY <1>1, <2>1, SubSeqProperties
<1>3. /\ back \in Seq(S) /\ Len(back) = Len(s) - i + 1
      /\ \A k \in 1..(Len(s) - i + 1) : back[k] = s[i + k - 1]
  <2>1. \A k \in i..Len(s) : s[k] \in S
    BY <1>1
  <2>. QED
    BY <1>1, <2>1, SubSeqProperties
<1>4. /\ <<e>> \in Seq(S) /\ Len(<<e>>) = 1 /\ <<e>>[1] = e
  OBVIOUS
<1>5. /\ start \in Seq(S) /\ Len(start) = i
      /\ \A k \in 1..i : start[k] = IF k < i THEN s[k] ELSE e
  <2>1. /\ start \in Seq(S) /\ Len(start) = Len(front) + Len(<<e>>)
        /\ \A k \in 1..(Len(front) + Len(<<e>>)) :
             start[k] = IF k <= Len(front) THEN front[k] ELSE <<e>>[k - Len(front)]
    BY <1>2, <1>4, ConcatProperties
  <2>. QED
    BY <1>1, <1>2, <1>4, <2>1
<1>6. /\ start \o back \in Seq(S) /\ Len(start \o back) = Len(start) + Len(back)
      /\ \A k \in 1..(Len(start) + Len(back)) :
           (start \o back)[k] = IF k <= Len(start) THEN start[k] ELSE back[k - Len(start)]
  BY <1>3, <1>5, ConcatProperties, ZenonT(30)
<1>7. InsertAt(s, i, e) = start \o back
  BY DEF InsertAt
<1>. HIDE DEF front, back, start
<1>8. ASSUME NEW k \in 1..(i - 1) PROVE (start \o back)[k] = s[k]
  <2>1. (start \o back)[k] = start[k]
    BY <1>1, <1>3, <1>5, <1>6
  <2>. QED
    BY <1>1, <1>5, <2>1
<1>9. (start \o back)[i] = e
  <2>1. (start \o back)[i] = start[i]
    BY <1>1, <1>3, <1>5, <1>6
  <2>. QED
    BY <1>1, <1>5, <2>1
<1>10. ASSUME NEW k \in (i + 1)..(Len(s) + 1) PROVE (start \o back)[k] = s[k - 1]
  <2>1. /\ (start \o back)[k] = back[k - i]
        /\ k - i \in 1..(Len(s) - i + 1) /\ i + (k - i) - 1 = k - 1
    BY <1>1, <1>3, <1>5, <1>6
  <2>2. back[k - i] = s[i + (k - i) - 1]
    BY <1>3, <2>1
  <2>. QED
    BY <2>1, <2>2
<1>11. Len(start \o back) = Len(s) + 1
  BY <1>1, <1>3, <1>5, <1>6
<1>. QED
  BY <1>6, <1>7, <1>8, <1>9, <1>10, <1>11

(* The same, place by place. *)

LEMMA InsertAtBelow ==
  ASSUME NEW S, NEW s \in Seq(S), NEW i \in 1..(Len(s) + 1), NEW e \in S,
         NEW k \in Int, 1 <= k, k < i
  PROVE  InsertAt(s, i, e)[k] = s[k]
<1>1. \A j \in 1..(i - 1) : InsertAt(s, i, e)[j] = s[j]
  BY InsertAtElements
<1>2. k \in 1..(i - 1)
  OBVIOUS
<1>. QED
  BY <1>1, <1>2

LEMMA InsertAtAbove ==
  ASSUME NEW S, NEW s \in Seq(S), NEW i \in 1..(Len(s) + 1), NEW e \in S,
         NEW k \in Int, i < k, k <= Len(s) + 1
  PROVE  InsertAt(s, i, e)[k] = s[k - 1]
<1>1. \A j \in (i + 1)..(Len(s) + 1) : InsertAt(s, i, e)[j] = s[j - 1]
  BY InsertAtElements
<1>2. k \in (i + 1)..(Len(s) + 1)
  BY LenProperties
<1>. QED
  BY <1>1, <1>2

LEMMA InsertAtSeq ==
  ASSUME NEW S, NEW s \in Seq(S), NEW i \in 1..(Len(s) + 1), NEW e \in S
  PROVE  InsertAt(s, i, e) \in Seq(S) /\ Len(InsertAt(s, i, e)) = Len(s) + 1
<1>1. InsertAt(s, i, e) \in Seq(S)
  BY InsertAtElements
<1>2. Len(InsertAt(s, i, e)) = Len(s) + 1
  BY InsertAtElements
<1>. QED
  BY <1>1, <1>2

LEMMA InsertAtPlace ==
  ASSUME NEW S, NEW s \in Seq(S), NEW i \in 1..(Len(s) + 1), NEW e \in S
  PROVE  InsertAt(s, i, e)[i] = e
  BY InsertAtElements

\* array.splice(i - 1, 1) closes the gap.
LEMMA RemoveAtElements ==
  ASSUME NEW S, NEW s \in Seq(S), NEW i \in 1..Len(s)
  PROVE  /\ RemoveAt(s, i) \in Seq(S)
         /\ Len(RemoveAt(s, i)) = Len(s) - 1
         /\ \A k \in 1..(i - 1) : RemoveAt(s, i)[k] = s[k]
         /\ \A k \in i..(Len(s) - 1) : RemoveAt(s, i)[k] = s[k + 1]
<1>. DEFINE front == SubSeq(s, 1, i - 1)
            back == SubSeq(s, i + 1, Len(s))
<1>1. /\ Len(s) \in Nat /\ i \in Int
      /\ \A k \in 1..Len(s) : s[k] \in S
  BY LenProperties, ElementOfSeq
<1>2. /\ front \in Seq(S) /\ Len(front) = i - 1
      /\ \A k \in 1..(i - 1) : front[k] = s[k]
  <2>1. \A k \in 1..(i - 1) : s[k] \in S
    BY <1>1
  <2>. QED
    BY <1>1, <2>1, SubSeqProperties
<1>3. /\ back \in Seq(S) /\ Len(back) = Len(s) - i
      /\ \A k \in 1..(Len(s) - i) : back[k] = s[i + k]
  <2>1. \A k \in (i + 1)..Len(s) : s[k] \in S
    BY <1>1
  <2>2. /\ back \in Seq(S)
        /\ Len(back) = IF i + 1 <= Len(s) THEN Len(s) - (i + 1) + 1 ELSE 0
        /\ \A k \in 1..(Len(s) - (i + 1) + 1) : back[k] = s[(i + 1) + k - 1]
    BY <1>1, <2>1, SubSeqProperties
  <2>. QED
    BY <1>1, <2>2
<1>5. RemoveAt(s, i) = front \o back
  BY DEF RemoveAt
<1>. HIDE DEF front, back
<1>4. /\ front \o back \in Seq(S) /\ Len(front \o back) = Len(s) - 1
      /\ \A k \in 1..(Len(s) - 1) :
           (front \o back)[k] = IF k < i THEN front[k] ELSE back[k - (i - 1)]
  <2>1. /\ front \o back \in Seq(S) /\ Len(front \o back) = Len(front) + Len(back)
        /\ \A k \in 1..(Len(front) + Len(back)) :
             (front \o back)[k] = IF k <= Len(front) THEN front[k] ELSE back[k - Len(front)]
    BY <1>2, <1>3, ConcatProperties
  <2>2. Len(front) + Len(back) = Len(s) - 1
    <3>1. Len(front) = i - 1 /\ Len(back) = Len(s) - i
      BY <1>2, <1>3
    <3>. QED
      BY <1>1, <3>1
  <2>. QED
    BY <1>1, <1>2, <2>1, <2>2
<1>6. ASSUME NEW k \in 1..(i - 1) PROVE (front \o back)[k] = s[k]
  BY <1>1, <1>2, <1>4
<1>7. ASSUME NEW k \in i..(Len(s) - 1) PROVE (front \o back)[k] = s[k + 1]
  <2>1. k - (i - 1) \in 1..(Len(s) - i) /\ i + (k - (i - 1)) = k + 1
    BY <1>1
  <2>2. (front \o back)[k] = back[k - (i - 1)]
    BY <1>1, <1>4
  <2>3. back[k - (i - 1)] = s[i + (k - (i - 1))]
    BY <1>3, <2>1
  <2>. QED
    BY <2>1, <2>2, <2>3
<1>. QED
  BY <1>4, <1>5, <1>6, <1>7
=============================================================================
