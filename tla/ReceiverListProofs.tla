-------------------------- MODULE ReceiverListProofs --------------------------
(***************************************************************************)
(* What the removal loop of UnsubscribeAll does to a receiver list, for    *)
(* lists of every length.                                                  *)
(*                                                                         *)
(* ArrayAfter is a recursive function, so each fact about it is an         *)
(* induction; the induction is an argument by the least counterexample     *)
(* (LeastNumber).                                                          *)
(***************************************************************************)
EXTENDS ReceiverList, FiniteSetTheorems, WellFoundedInduction, TLAPS

(* Every non-empty set of naturals has a least element.                    *)
LEMMA LeastNumber ==
    ASSUME NEW T, T \subseteq Nat, T # {}
    PROVE  \E x \in T : \A y \in T : x <= y
<1> DEFINE Upto(x) == 0 .. x
           D == {Upto(x) : x \in T}
           R == StrictSubsetOrdering(Nat)
<1>1. D \subseteq FiniteSubsetsOf(Nat)
  <2>1. ASSUME NEW x \in T PROVE Upto(x) \in SUBSET Nat /\ IsFiniteSet(Upto(x))
    BY <2>1, FS_Interval
  <2>2. QED BY <2>1 DEF FiniteSubsetsOf
<1>2. D # {}
  OBVIOUS
<1>3. IsWellFoundedOn(R, FiniteSubsetsOf(Nat))
  BY FS_StrictSubsetOrderingWellFounded
<1>4. PICK d \in D : \A e \in D : <<e, d>> \notin R
  <2> HIDE DEF D, R
  <2>1. QED BY <1>1, <1>2, <1>3, WFMin
<1>5. PICK x \in T : d = Upto(x)
  BY <1>4
<1>6. ASSUME NEW y \in T, y < x PROVE FALSE
  <2>1. Upto(y) \subseteq Upto(x) /\ Upto(y) # Upto(x) /\ Upto(x) \in SUBSET Nat
    BY <1>6
  <2>2. <<Upto(y), Upto(x)>> \in R
    BY <2>1 DEF StrictSubsetOrdering
  <2>3. QED BY <1>4, <1>5, <2>2
<1>7. QED BY <1>6

-----------------------------------------------------------------------------
(* What a loop iteration does to the array it finds.                       *)
Iteration(f, i, receivers, msgs) ==
    IF i = 0 THEN receivers
    ELSE IF f[i - 1][i] = msgs THEN ShiftLeft(f[i - 1], i)
    ELSE f[i - 1]

(* f describes the first k iterations of the loop.                         *)
Describes(f, k, receivers, msgs) ==
    f = [i \in 0 .. k |-> Iteration(f, i, receivers, msgs)]

(* The recursion of ArrayAfter is well-defined.                            *)
LEMMA ArrayAfterUnfolds ==
    ASSUME NEW receivers, NEW msgs, Len(receivers) \in Nat
    PROVE  Describes(ArrayAfter(receivers, msgs), Len(receivers), receivers, msgs)
<1> DEFINE Some(k) == \E f : Describes(f, k, receivers, msgs)
           T == {k \in Nat : ~Some(k)}
<1>1. \A k \in Nat : Some(k)
  <2>1. SUFFICES ASSUME T # {} PROVE FALSE
    OBVIOUS
  <2>2. PICK k \in T : \A y \in T : k <= y
    BY <2>1, LeastNumber
  <2>3. CASE k = 0
    <3>1. Describes([i \in 0 .. 0 |-> receivers], 0, receivers, msgs)
      BY DEF Describes, Iteration
    <3>2. QED BY <2>3, <3>1
  <2>4. CASE k # 0
    <3>1. k - 1 \in Nat /\ k - 1 \notin T
      BY <2>2, <2>4
    <3>2. PICK f : Describes(f, k - 1, receivers, msgs)
      BY <3>1
    <3> DEFINE g == [i \in 0 .. k |-> IF i = k THEN Iteration(f, k, receivers, msgs) ELSE f[i]]
    <3>3. ASSUME NEW i \in 0 .. k PROVE g[i] = Iteration(g, i, receivers, msgs)
      <4>1. CASE i = 0
        <5>1. f[0] = receivers
          BY <3>1, <3>2 DEF Describes, Iteration
        <5>2. QED BY <2>4, <4>1, <5>1 DEF Iteration
      <4>2. CASE i # 0 /\ i # k
        <5>1. f[i] = Iteration(f, i, receivers, msgs)
          BY <3>2, <4>2, i \in 0 .. (k - 1) DEF Describes
        <5>2. g[i] = f[i] /\ g[i - 1] = f[i - 1]
          BY <4>2, i - 1 \in 0 .. k, i - 1 # k
        <5>3. QED BY <4>2, <5>1, <5>2 DEF Iteration
      <4>3. CASE i # 0 /\ i = k
        <5>1. g[k] = Iteration(f, k, receivers, msgs) /\ g[k - 1] = f[k - 1]
          BY <2>2, <4>3, k - 1 \in 0 .. k, k - 1 # k
        <5> HIDE DEF g
        <5>2. QED BY <4>3, <5>1 DEF Iteration
      <4>4. QED BY <4>1, <4>2, <4>3
    <3>4. g = [i \in 0 .. k |-> g[i]]
      OBVIOUS
    <3>5. Describes(g, k, receivers, msgs)
      <4> HIDE DEF g
      <4>1. QED BY <3>3, <3>4 DEF Describes
    <3>6. QED BY <2>2, <3>5
  <2>5. QED BY <2>3, <2>4
<1>2. Some(Len(receivers))
  BY <1>1
<1>3. QED BY <1>2 DEF Describes, Iteration, ArrayAfter

(* One iteration at a time.                                                *)
LEMMA ArrayAfterSteps ==
    ASSUME NEW S, NEW receivers \in Seq(S), NEW msgs
    PROVE  LET arr == ArrayAfter(receivers, msgs)
           IN  /\ arr[0] = receivers
               /\ \A i \in 1 .. Len(receivers) :
                     arr[i] = IF arr[i - 1][i] = msgs THEN ShiftLeft(arr[i - 1], i)
                              ELSE arr[i - 1]
<1> DEFINE arr == ArrayAfter(receivers, msgs)
           n == Len(receivers)
<1>1. n \in Nat
  OBVIOUS
<1>2. Describes(arr, n, receivers, msgs)
  BY <1>1, ArrayAfterUnfolds
<1> HIDE DEF arr
<1>3. \A i \in 0 .. n : arr[i] = Iteration(arr, i, receivers, msgs)
  BY <1>2 DEF Describes
<1>4. arr[0] = receivers
  BY <1>1, <1>3 DEF Iteration
<1>5. ASSUME NEW i \in 1 .. n
      PROVE  arr[i] = IF arr[i - 1][i] = msgs THEN ShiftLeft(arr[i - 1], i) ELSE arr[i - 1]
  BY <1>1, <1>3, i \in 0 .. n, i # 0 DEF Iteration
<1>6. QED BY <1>4, <1>5 DEF arr

-----------------------------------------------------------------------------
(* The loop moves receivers about but makes none up.                       *)
LEMMA ShiftLeftType ==
    ASSUME NEW S, NEW arr \in Seq(S), NEW i \in 1 .. Len(arr)
    PROVE  ShiftLeft(arr, i) \in Seq(S) /\ Len(ShiftLeft(arr, i)) = Len(arr)
<1>1. ShiftLeft(arr, i) \in [1 .. Len(arr) -> S]
  BY DEF ShiftLeft
<1>2. QED BY <1>1

LEMMA ArrayAfterType ==
    ASSUME NEW S, NEW receivers \in Seq(S), NEW msgs, NEW i \in 0 .. Len(receivers)
    PROVE  /\ ArrayAfter(receivers, msgs)[i] \in Seq(S)
           /\ Len(ArrayAfter(receivers, msgs)[i]) = Len(receivers)
<1> DEFINE arr == ArrayAfter(receivers, msgs)
           n == Len(receivers)
           Good(k) == arr[k] \in Seq(S) /\ Len(arr[k]) = n
           T == {k \in 0 .. n : ~Good(k)}
<1>1. n \in Nat
  OBVIOUS
<1>2. /\ arr[0] = receivers
      /\ \A k \in 1 .. n : arr[k] = IF arr[k - 1][k] = msgs THEN ShiftLeft(arr[k - 1], k)
                                    ELSE arr[k - 1]
  BY ArrayAfterSteps
<1> HIDE DEF arr
<1>3. SUFFICES ASSUME T # {} PROVE FALSE
  BY DEF arr
<1>4. PICK k \in T : \A y \in T : k <= y
  BY <1>3, T \subseteq Nat, LeastNumber
<1>5. k # 0
  BY <1>2, <1>4
<1>6. Good(k - 1)
  BY <1>1, <1>4, <1>5
<1>7. k \in 1 .. Len(arr[k - 1])
  BY <1>1, <1>4, <1>5, <1>6
<1>8. ShiftLeft(arr[k - 1], k) \in Seq(S) /\ Len(ShiftLeft(arr[k - 1], k)) = n
  BY <1>6, <1>7, ShiftLeftType
<1>9. QED BY <1>1, <1>2, <1>4, <1>5, <1>6, <1>8

LEMMA RemoveReceiverType ==
    ASSUME NEW S, NEW receivers \in Seq(S), NEW msgs
    PROVE  RemoveReceiver(receivers, msgs) \in Seq(S)
<1> DEFINE last == ArrayAfter(receivers, msgs)[Len(receivers)]
<1>1. CASE Occurrences(receivers, msgs) = {}
  BY <1>1 DEF RemoveReceiver
<1>2. CASE Occurrences(receivers, msgs) # {}
  <2>1. Len(receivers) \in Nat \ {0}
    BY <1>2 DEF Occurrences
  <2>2. last \in Seq(S) /\ Len(last) = Len(receivers)
    BY <2>1, ArrayAfterType
  <2> HIDE DEF last
  <2>3. SubSeq(last, 1, Len(receivers) - 1) \in Seq(S)
    BY <2>1, <2>2
  <2>4. QED BY <1>2, <2>3 DEF RemoveReceiver, last
<1>3. QED BY <1>1, <1>2

-----------------------------------------------------------------------------
(* A stream that is in the list once.                                      *)

AllDistinct(q) == \A i, j \in DOMAIN q : q[i] = q[j] => i = j

(* The list without its p-th element.                                      *)
Without(q, p) == [j \in 1 .. Len(q) - 1 |-> IF j < p THEN q[j] ELSE q[j + 1]]

(* Behind the removed element the loop finds nothing more to remove: what  *)
(* is shifted into the places it has yet to visit is not the stream.       *)
LEMMA ArrayAfterOnce ==
    ASSUME NEW S, NEW receivers \in Seq(S), NEW p \in 1 .. Len(receivers), NEW msgs,
           \A i \in 1 .. Len(receivers) : receivers[i] = msgs <=> i = p
    PROVE  \A i \in 0 .. Len(receivers) :
               ArrayAfter(receivers, msgs)[i] =
                   IF i < p THEN receivers ELSE ShiftLeft(receivers, p)
<1> DEFINE arr == ArrayAfter(receivers, msgs)
           n == Len(receivers)
           shifted == ShiftLeft(receivers, p)
           Good(k) == arr[k] = IF k < p THEN receivers ELSE shifted
           T == {k \in 0 .. n : ~Good(k)}
<1>1. n \in Nat /\ p \in Nat /\ p > 0 /\ p <= n
  OBVIOUS
<1>2. /\ arr[0] = receivers
      /\ \A k \in 1 .. n : arr[k] = IF arr[k - 1][k] = msgs THEN ShiftLeft(arr[k - 1], k)
                                    ELSE arr[k - 1]
  BY ArrayAfterSteps
<1>3. \A k \in 1 .. n : shifted[k] = IF p <= k /\ k < n THEN receivers[k + 1] ELSE receivers[k]
  BY DEF ShiftLeft
<1> HIDE DEF arr
<1>4. SUFFICES ASSUME T # {} PROVE FALSE
  BY DEF arr
<1> HIDE DEF shifted
<1>5. PICK k \in T : \A y \in T : k <= y
  BY <1>4, T \subseteq Nat, LeastNumber
<1>6. k \in 1 .. n
  BY <1>1, <1>2, <1>5
<1>7. Good(k - 1)
  BY <1>1, <1>5, <1>6
<1>8. CASE k < p
  BY <1>1, <1>2, <1>5, <1>6, <1>7, <1>8
<1>9. CASE k = p
  BY <1>1, <1>2, <1>5, <1>6, <1>7, <1>9 DEF shifted
<1>10. CASE k > p
  <2>1. arr[k - 1] = shifted
    BY <1>1, <1>6, <1>7, <1>10
  <2>2. shifted[k] # msgs
    BY <1>1, <1>3, <1>6, <1>10
  <2>3. QED BY <1>1, <1>2, <1>5, <1>6, <1>10, <2>1, <2>2
<1>11. QED BY <1>1, <1>6, <1>8, <1>9, <1>10

(* broker.go:138-143: with the stream in the list once, the loop removes   *)
(* that element and keeps all others in their order, although it shifts    *)
(* the array it ranges over.                                               *)
THEOREM RemovalIsExact ==
    ASSUME NEW S, NEW receivers \in Seq(S), NEW p \in 1 .. Len(receivers), NEW msgs,
           \A i \in 1 .. Len(receivers) : receivers[i] = msgs <=> i = p
    PROVE  RemoveReceiver(receivers, msgs) = Without(receivers, p)
<1> DEFINE n == Len(receivers)
           shifted == ShiftLeft(receivers, p)
<1>1. n \in Nat \ {0} /\ p \in Occurrences(receivers, msgs)
  BY DEF Occurrences
<1>2. ArrayAfter(receivers, msgs)[n] = shifted
  BY <1>1, ArrayAfterOnce
<1>3. shifted \in Seq(S) /\ Len(shifted) = n
  BY ShiftLeftType
<1>4. \A k \in 1 .. n : shifted[k] = IF p <= k /\ k < n THEN receivers[k + 1] ELSE receivers[k]
  BY DEF ShiftLeft
<1>5. RemoveReceiver(receivers, msgs) = SubSeq(shifted, 1, n - 1)
  BY <1>1, <1>2 DEF RemoveReceiver
<1> HIDE DEF shifted
<1>6. SubSeq(shifted, 1, n - 1) = [k \in 1 .. n - 1 |-> shifted[k]]
  BY <1>1, <1>3
<1>7. \A k \in 1 .. n - 1 : shifted[k] = IF k < p THEN receivers[k] ELSE receivers[k + 1]
  BY <1>1, <1>4
<1>8. QED BY <1>5, <1>6, <1>7 DEF Without

(* What is left of a list without duplicates.                              *)
LEMMA RemovalFromDistinct ==
    ASSUME NEW S, NEW receivers \in Seq(S), NEW msgs, AllDistinct(receivers)
    PROVE  LET rest == RemoveReceiver(receivers, msgs)
           IN  /\ AllDistinct(rest)
               /\ Occurrences(rest, msgs) = {}
               /\ \A r : Occurrences(rest, r) # {} => Occurrences(receivers, r) # {}
<1>1. CASE Occurrences(receivers, msgs) = {}
  BY <1>1 DEF RemoveReceiver
<1>2. CASE Occurrences(receivers, msgs) # {}
  <2>1. PICK p \in 1 .. Len(receivers) : receivers[p] = msgs
    BY <1>2 DEF Occurrences
  <2>2. \A i \in 1 .. Len(receivers) : receivers[i] = msgs <=> i = p
    BY <2>1 DEF AllDistinct
  <2> DEFINE rest == Without(receivers, p)
  <2>3. RemoveReceiver(receivers, msgs) = rest
    BY <2>2, RemovalIsExact
  <2>4. Len(receivers) \in Nat \ {0} /\ DOMAIN receivers = 1 .. Len(receivers)
    BY <2>1
  <2>5. /\ DOMAIN rest = 1 .. Len(receivers) - 1 /\ Len(rest) = Len(receivers) - 1
        /\ \A j \in DOMAIN rest : rest[j] = IF j < p THEN receivers[j] ELSE receivers[j + 1]
    BY <2>4 DEF Without
  <2> HIDE DEF rest
  <2>6. AllDistinct(rest)
    BY <2>4, <2>5 DEF AllDistinct
  <2>7. Occurrences(rest, msgs) = {}
    BY <2>2, <2>4, <2>5 DEF Occurrences
  <2>8. \A r : Occurrences(rest, r) # {} => Occurrences(receivers, r) # {}
    BY <2>4, <2>5 DEF Occurrences
  <2>9. QED BY <2>3, <2>6, <2>7, <2>8
<1>3. QED BY <1>1, <1>2

LEMMA AppendToDistinct ==
    ASSUME NEW S, NEW receivers \in Seq(S), NEW s \in S,
           AllDistinct(receivers), Occurrences(receivers, s) = {}
    PROVE  AllDistinct(Append(receivers, s))
<1> DEFINE q == Append(receivers, s)
           n == Len(receivers)
<1>1. n \in Nat /\ DOMAIN receivers = 1 .. n /\ \A i \in 1 .. n : receivers[i] # s
  BY DEF Occurrences
<1>2. DOMAIN q = 1 .. n + 1 /\ \A i \in 1 .. n + 1 : q[i] = IF i <= n THEN receivers[i] ELSE s
  BY <1>1
<1> HIDE DEF q
<1>3. QED BY <1>1, <1>2 DEF AllDistinct

LEMMA AppendOccurrences ==
    ASSUME NEW S, NEW receivers \in Seq(S), NEW s \in S, NEW r,
           Occurrences(Append(receivers, s), r) # {}
    PROVE  Occurrences(receivers, r) # {} \/ r = s
<1> DEFINE q == Append(receivers, s)
           n == Len(receivers)
<1>1. n \in Nat /\ Len(q) = n + 1 /\ \A i \in 1 .. n + 1 : q[i] = IF i <= n THEN receivers[i] ELSE s
  OBVIOUS
<1> HIDE DEF q
<1>2. QED BY <1>1 DEF Occurrences, q

=============================================================================
