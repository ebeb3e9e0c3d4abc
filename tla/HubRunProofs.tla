----------------------------- MODULE HubRunProofs -----------------------------
(***************************************************************************)
(* Theorems about HubRun and its rate limiter, for any set of callers,       *)
(* limits, size of the table and length of the window.                       *)
(***************************************************************************)
EXTENDS HubRun, SequenceTheorems, WellFoundedInduction, TLAPS

Ages == 0..Window
BucketSet == [key : Keys, age : Ages, count : Nat \ {0}, idle : Ages]

AdmittedType == admitted \in [Keys -> [age : Ages, count : Nat]]

\* A table is sound when a bucket was accessed since its window began and is within its
\* limit, the buckets agree with the admissions, a key has one bucket ...
SoundTable(table) ==
  /\ table \in Seq(BucketSet) /\ Len(table) <= MaxBuckets
  /\ \A i \in DOMAIN table :
       /\ table[i].idle <= table[i].age /\ table[i].count <= Limit[table[i].key]
       /\ admitted[table[i].key].age = table[i].age
       /\ admitted[table[i].key].count = table[i].count
  /\ \A i, j \in DOMAIN table : table[i].key = table[j].key => i = j
  /\ \A i, j \in DOMAIN table : i < j => table[i].idle >= table[j].idle

\* ... and a key whose window has not passed keeps its bucket: no churn removes it.
ActiveKept(table) ==
  \A k \in Keys : admitted[k].age < Window => \E i \in DOMAIN table : table[i].key = k

LimiterInv ==
  AdmittedType /\ SoundTable(buckets) /\ ActiveKept(buckets) /\ AdmittedWithinLimit

-----------------------------------------------------------------------------
(* The table without its expired buckets.                                    *)

\* What is left is an end of the table, and whatever was dropped has expired.
LEMMA LeastElement == ASSUME NEW S, S \subseteq Nat, S # {} PROVE \E m \in S : \A j \in S : m <= j
<1> DEFINE less == {ss \in Nat \X Nat : ss[1] < ss[2]}
<1>1. IsWellFoundedOn(less, Nat)
  BY NatLessThanWellFounded DEF OpToRel
<1>2. \A i, j \in Nat : i < j => <<i, j>> \in less
  OBVIOUS
<1> HIDE DEF less
<1>3. PICK m \in S : \A j \in S : ~(<<j, m>> \in less)
  BY <1>1, WFMin
<1>4. \A j \in S : ~(j < m)
  BY <1>2, <1>3
<1> QED
  BY <1>4

LEMMA UnexpiredIsAnEnd ==
  ASSUME buckets \in Seq(BucketSet)
  PROVE  /\ Unexpired \in Seq(BucketSet) /\ Len(Unexpired) <= Len(buckets)
         /\ \E o \in Nat :
              /\ \A i \in DOMAIN Unexpired : i + o \in DOMAIN buckets /\ Unexpired[i] = buckets[i + o]
              /\ \A j \in DOMAIN buckets : buckets[j].idle < Window =>
                   j > o /\ j - o \in DOMAIN Unexpired
<1> DEFINE fresh == {i \in DOMAIN buckets : buckets[i].idle < Window}
<1>1. buckets \in Seq(BucketSet) /\ Len(buckets) \in Nat /\ DOMAIN buckets = 1..Len(buckets)
  BY LenProperties
<1>2. CASE fresh = {}
  <2>1. Unexpired = << >>
    BY <1>2 DEF Unexpired
  <2> QED
    BY <1>1, <1>2, <2>1, EmptySeq
<1>3. CASE fresh # {}
  <2>1. \E m \in fresh : \A j \in fresh : m <= j
    <3>1. fresh \subseteq Nat
      BY <1>1
    <3> QED
      BY <3>1, <1>3, LeastElement
  <2> DEFINE m == CHOOSE i \in fresh : \A j \in fresh : i <= j
  <2>2. m \in fresh /\ \A j \in fresh : m <= j
    BY <2>1
  <2>3. m \in 1..Len(buckets) /\ Unexpired = SubSeq(buckets, m, Len(buckets))
    BY <1>1, <1>3, <2>2 DEF Unexpired
  <2> HIDE DEF m
  <2>4. \A i \in m..Len(buckets) : buckets[i] \in BucketSet
    BY <1>1, <2>3, ElementOfSeq
  <2>5. /\ Unexpired \in Seq(BucketSet)
        /\ Len(Unexpired) = Len(buckets) - m + 1
        /\ \A i \in 1..(Len(buckets) - m + 1) : Unexpired[i] = buckets[m + i - 1]
    <3>1. m \in Int /\ Len(buckets) \in Int /\ m <= Len(buckets)
      BY <1>1, <2>3
    <3> HIDE DEF BucketSet
    <3> QED
      BY <2>3, <2>4, <3>1, SubSeqProperties, Z3
  <2>6. DOMAIN Unexpired = 1..(Len(buckets) - m + 1)
    BY <2>5, LenProperties
  <2>7. \A i \in DOMAIN Unexpired : i + (m - 1) \in DOMAIN buckets /\ Unexpired[i] = buckets[i + (m - 1)]
    BY <1>1, <2>3, <2>5, <2>6
  <2>8. \A j \in DOMAIN buckets : buckets[j].idle < Window =>
          j > m - 1 /\ j - (m - 1) \in DOMAIN Unexpired
    BY <1>1, <2>2, <2>3, <2>6
  <2>9. m - 1 \in Nat /\ Len(Unexpired) <= Len(buckets)
    BY <1>1, <2>3, <2>5
  <2> QED
    BY <2>5, <2>7, <2>8, <2>9
<1> QED
  BY <1>2, <1>3
LEMMA UnexpiredSound ==
  ASSUME LimiterInv
  PROVE  SoundTable(Unexpired) /\ ActiveKept(Unexpired)
<1>1. buckets \in Seq(BucketSet) /\ Len(buckets) <= MaxBuckets
  BY DEF LimiterInv, SoundTable
<1>2. /\ Unexpired \in Seq(BucketSet) /\ Len(Unexpired) <= Len(buckets)
      /\ Len(Unexpired) \in Nat /\ Len(buckets) \in Nat
      /\ DOMAIN Unexpired \subseteq Nat
  BY <1>1, UnexpiredIsAnEnd, LenProperties
<1>3. PICK o \in Nat :
        /\ \A i \in DOMAIN Unexpired : i + o \in DOMAIN buckets /\ Unexpired[i] = buckets[i + o]
        /\ \A j \in DOMAIN buckets : buckets[j].idle < Window => j > o /\ j - o \in DOMAIN Unexpired
  BY <1>1, UnexpiredIsAnEnd
<1>4. SoundTable(Unexpired)
  <2>1. Len(Unexpired) <= MaxBuckets
    BY <1>1, <1>2, LimiterAssumption
  <2>2. \A i, j \in DOMAIN Unexpired : i < j => Unexpired[i].idle >= Unexpired[j].idle
    BY <1>2, <1>3 DEF LimiterInv, SoundTable
  <2>3. \A i, j \in DOMAIN Unexpired : Unexpired[i].key = Unexpired[j].key => i = j
    BY <1>2, <1>3 DEF LimiterInv, SoundTable
  <2> QED
    BY <1>2, <1>3, <2>1, <2>2, <2>3 DEF LimiterInv, SoundTable
<1>5. ActiveKept(Unexpired)
  <2> SUFFICES ASSUME NEW k \in Keys, admitted[k].age < Window
               PROVE  \E i \in DOMAIN Unexpired : Unexpired[i].key = k
    BY DEF ActiveKept
  <2>1. PICK j \in DOMAIN buckets : buckets[j].key = k
    BY DEF LimiterInv, ActiveKept
  <2>2. buckets[j] \in BucketSet /\ DOMAIN buckets \subseteq Nat
    BY <1>1, LenProperties, ElementOfSeq
  <2>3. buckets[j].idle < Window
    BY <2>1, <2>2, LimiterAssumption DEF LimiterInv, SoundTable, BucketSet, Ages
  <2>4. j - o \in DOMAIN Unexpired /\ Unexpired[j - o] = buckets[(j - o) + o] /\ (j - o) + o = j
    BY <1>3, <2>2, <2>3
  <2> QED
    BY <2>1, <2>4
<1> QED
  BY <1>4, <1>5

LEMMA Moved ==
  ASSUME NEW S, NEW table \in Seq(S), NEW i \in DOMAIN table, NEW b \in S,
         NEW new, new = Append(RemoveAt(table, i), b)
  PROVE  /\ new \in Seq(S) /\ Len(new) = Len(table) /\ DOMAIN new = 1..Len(table)
         /\ \A j \in 1..(Len(table) - 1) : new[j] = IF j < i THEN table[j] ELSE table[j + 1]
         /\ new[Len(table)] = b
<1>1. Len(table) \in Nat /\ i \in 1..Len(table) /\ \A j \in 1..Len(table) : table[j] \in S
  BY LenProperties, ElementOfSeq
<1> DEFINE left == SubSeq(table, 1, i - 1)
           right == SubSeq(table, i + 1, Len(table))
<1>2. /\ left \in Seq(S) /\ Len(left) = i - 1
      /\ \A j \in 1..(i - 1) : left[j] = table[j]
  <2>1. 1 \in Int /\ i - 1 \in Int /\ \A j \in 1..(i - 1) : table[j] \in S
    BY <1>1
  <2>2. /\ left \in Seq(S) /\ Len(left) = (IF 1 <= i - 1 THEN (i - 1) - 1 + 1 ELSE 0)
        /\ \A j \in 1..((i - 1) - 1 + 1) : left[j] = table[1 + j - 1]
    BY <2>1, SubSeqProperties, Z3
  <2> QED
    BY <1>1, <2>2
<1>3. /\ right \in Seq(S) /\ Len(right) = Len(table) - i
      /\ \A j \in 1..(Len(table) - i) : right[j] = table[i + j]
  <2>1. i + 1 \in Int /\ Len(table) \in Int /\ \A j \in (i + 1)..Len(table) : table[j] \in S
    BY <1>1
  <2>2. /\ right \in Seq(S)
        /\ Len(right) = (IF i + 1 <= Len(table) THEN Len(table) - (i + 1) + 1 ELSE 0)
        /\ \A j \in 1..(Len(table) - (i + 1) + 1) : right[j] = table[(i + 1) + j - 1]
    BY <2>1, SubSeqProperties, Z3
  <2> QED
    BY <1>1, <2>2
<1>4. RemoveAt(table, i) = left \o right
  BY DEF RemoveAt
<1> HIDE DEF left, right
<1>5. /\ left \o right \in Seq(S) /\ Len(left \o right) = Len(table) - 1
      /\ \A j \in 1..(Len(table) - 1) :
           (left \o right)[j] = IF j < i THEN table[j] ELSE table[j + 1]
  <2>1. /\ left \o right \in Seq(S) /\ Len(left \o right) = Len(left) + Len(right)
        /\ \A j \in 1..(Len(left) + Len(right)) : (left \o right)[j] =
             IF j <= Len(left) THEN left[j] ELSE right[j - Len(left)]
    BY <1>2, <1>3, ConcatProperties
  <2>2. Len(left) + Len(right) = Len(table) - 1
    BY <1>1, <1>2, <1>3
  <2>3. ASSUME NEW j \in 1..(Len(table) - 1)
        PROVE  (left \o right)[j] = IF j < i THEN table[j] ELSE table[j + 1]
    <3>1. (left \o right)[j] = IF j <= i - 1 THEN left[j] ELSE right[j - (i - 1)]
      BY <1>2, <2>1, <2>2
    <3>2. CASE j < i
      <4>1. j <= i - 1 /\ j \in 1..(i - 1)
        BY <1>1, <3>2
      <4> QED
        BY <1>2, <3>1, <3>2, <4>1
    <3>3. CASE ~(j < i)
      <4>1. ~(j <= i - 1) /\ j - (i - 1) \in 1..(Len(table) - i) /\ i + (j - (i - 1)) = j + 1
        BY <1>1, <3>3
      <4> QED
        BY <1>3, <3>1, <3>3, <4>1
    <3> QED
      BY <3>2, <3>3
  <2> QED
    BY <2>1, <2>2, <2>3
<1> DEFINE rest == left \o right
<1>6. new = Append(rest, b) /\ rest \in Seq(S) /\ Len(rest) = Len(table) - 1
  BY <1>4, <1>5
<1>7. \A j \in 1..(Len(table) - 1) : rest[j] = IF j < i THEN table[j] ELSE table[j + 1]
  BY <1>5
<1> HIDE DEF rest
<1> QED
  BY <1>1, <1>6, <1>7

-----------------------------------------------------------------------------
(* The steps of the limiter.                                                 *)

\* An access to a bucket, whose key is admitted or not.
LEMMA MovedSound ==
  ASSUME LimiterInv, NEW table, SoundTable(table), ActiveKept(table),
         NEW i \in DOMAIN table, NEW age \in Ages, NEW count \in Nat \ {0},
         MovedToEnd(i, table, Bucket(table[i].key, age, count)),
         count <= Limit[table[i].key],
         AdmittedType',
         admitted'[table[i].key] = [age |-> age, count |-> count],
         \A k \in Keys : k # table[i].key => admitted'[k] = admitted[k]
  PROVE  LimiterInv'
<1> DEFINE b == Bucket(table[i].key, age, count)
<1>1. table \in Seq(BucketSet) /\ DOMAIN table = 1..Len(table) /\ Len(table) \in Nat
      /\ \A j \in DOMAIN table : table[j] \in BucketSet
  BY LenProperties, ElementOfSeq DEF SoundTable
<1>2. b \in BucketSet /\ b.key = table[i].key /\ b.age = age /\ b.count = count /\ b.idle = 0
  BY <1>1, LimiterAssumption DEF BucketSet, Bucket, Ages
<1>3. buckets' = Append(RemoveAt(table, i), b)
  BY DEF MovedToEnd
<1> HIDE DEF b
<1>4. /\ buckets' \in Seq(BucketSet) /\ Len(buckets') = Len(table)
      /\ DOMAIN buckets' = 1..Len(table)
      /\ \A j \in 1..(Len(table) - 1) :
           buckets'[j] = IF j < i THEN table[j] ELSE table[j + 1]
      /\ buckets'[Len(table)] = b
  <2>1. table \in Seq(BucketSet) /\ b \in BucketSet
    BY <1>1, <1>2
  <2>2. buckets' \in Seq(BucketSet)
    BY <1>3, <2>1, Moved, Zenon
  <2>3. Len(buckets') = Len(table) /\ DOMAIN buckets' = 1..Len(table)
    BY <1>3, <2>1, Moved, SMT
  <2>4. \A j \in 1..(Len(table) - 1) :
          buckets'[j] = IF j < i THEN table[j] ELSE table[j + 1]
    BY <1>3, <2>1, Moved, SMT
  <2>5. buckets'[Len(table)] = b
    BY <1>3, <2>1, Moved, SMT
  <2> QED
    BY <2>2, <2>3, <2>4, <2>5
<1> DEFINE from(j) == IF j = Len(table) THEN i ELSE IF j < i THEN j ELSE j + 1
<1>5. \A j \in DOMAIN buckets' : from(j) \in DOMAIN table
  BY <1>1, <1>4
<1>6. \A j \in DOMAIN buckets' : buckets'[j] = IF j = Len(table) THEN b ELSE table[from(j)]
  BY <1>1, <1>4
<1>7. \A j \in DOMAIN buckets' : j # Len(table) => from(j) # i
  BY <1>1, <1>4
<1>8. \A j, l \in DOMAIN buckets' : from(j) = from(l) => j = l
  BY <1>1, <1>4
<1>9. \A j, l \in DOMAIN buckets' : j < l /\ l # Len(table) => from(j) < from(l)
  BY <1>1, <1>4
<1>10. \A l \in DOMAIN table : \E j \in DOMAIN buckets' : from(j) = l
  <2> SUFFICES ASSUME NEW l \in DOMAIN table PROVE \E j \in DOMAIN buckets' : from(j) = l
    OBVIOUS
  <2> DEFINE j == IF l = i THEN Len(table) ELSE IF l < i THEN l ELSE l - 1
  <2>1. j \in DOMAIN buckets' /\ from(j) = l
    BY <1>1, <1>4
  <2> QED
    BY <2>1
<1> HIDE DEF from
<1>11. \A j \in DOMAIN buckets' : buckets'[j].key = table[from(j)].key
  <2> SUFFICES ASSUME NEW j \in DOMAIN buckets' PROVE buckets'[j].key = table[from(j)].key
    OBVIOUS
  <2>1. CASE j = Len(table)
    BY <1>2, <1>6, <2>1 DEF from
  <2>2. CASE j # Len(table)
    BY <1>6, <2>2
  <2> QED
    BY <2>1, <2>2
<1>12. \A j \in DOMAIN buckets' : j # Len(table) => buckets'[j].key # table[i].key
  BY <1>5, <1>7, <1>11 DEF SoundTable
<1>13. SoundTable(buckets)'
  <2>1. Len(buckets') <= MaxBuckets
    BY <1>4 DEF SoundTable
  <2>2. ASSUME NEW j \in DOMAIN buckets'
        PROVE  /\ buckets'[j].idle <= buckets'[j].age
               /\ buckets'[j].count <= Limit[buckets'[j].key]
               /\ admitted'[buckets'[j].key].age = buckets'[j].age
               /\ admitted'[buckets'[j].key].count = buckets'[j].count
    <3>1. CASE j = Len(table)
      BY <1>2, <1>6, <3>1, LimiterAssumption DEF Ages
    <3>2. CASE j # Len(table)
      <4>1. buckets'[j] = table[from(j)] /\ from(j) \in DOMAIN table
        BY <1>5, <1>6, <3>2
      <4>2. buckets'[j].key \in Keys /\ buckets'[j].key # table[i].key
        BY <1>1, <1>12, <3>2, <4>1 DEF BucketSet
      <4>3. admitted'[buckets'[j].key] = admitted[buckets'[j].key]
        BY <4>2
      <4> QED
        BY <4>1, <4>3 DEF SoundTable
    <3> QED
      BY <3>1, <3>2
  <2>3. \A j, l \in DOMAIN buckets' : buckets'[j].key = buckets'[l].key => j = l
    BY <1>5, <1>8, <1>11 DEF SoundTable
  <2>4. ASSUME NEW j \in DOMAIN buckets', NEW l \in DOMAIN buckets', j < l
        PROVE  buckets'[j].idle >= buckets'[l].idle
    <3>1. CASE l = Len(table)
      <4>1. buckets'[l].idle = 0 /\ buckets'[j] \in BucketSet
        BY <1>2, <1>4, <1>6, <3>1, ElementOfSeq
      <4> QED
        BY <4>1, LimiterAssumption DEF BucketSet, Ages
    <3>2. CASE l # Len(table)
      <4>1. j # Len(table)
        BY <1>1, <1>4, <2>4, <3>2
      <4>2. from(j) < from(l) /\ from(j) \in DOMAIN table /\ from(l) \in DOMAIN table
        BY <1>5, <1>9, <2>4, <3>2
      <4> QED
        BY <1>6, <3>2, <4>1, <4>2 DEF SoundTable
    <3> QED
      BY <3>1, <3>2
  <2> QED
    BY <1>4, <2>1, <2>2, <2>3, <2>4 DEF SoundTable
<1>14. ActiveKept(buckets)'
  <2> SUFFICES ASSUME NEW k \in Keys, admitted'[k].age < Window
               PROVE  \E j \in DOMAIN buckets' : buckets'[j].key = k
    BY DEF ActiveKept
  <2>1. \E l \in DOMAIN table : table[l].key = k
    <3>1. CASE k = table[i].key
      BY <3>1
    <3>2. CASE k # table[i].key
      BY <3>2 DEF ActiveKept
    <3> QED
      BY <3>1, <3>2
  <2> QED
    BY <1>10, <1>11, <2>1
<1>15. AdmittedWithinLimit'
  <2> SUFFICES ASSUME NEW k \in Keys PROVE admitted'[k].count <= Limit[k]
    BY DEF AdmittedWithinLimit
  <2>1. CASE k = table[i].key
    BY <2>1
  <2>2. CASE k # table[i].key
    BY <2>2 DEF LimiterInv, AdmittedWithinLimit
  <2> QED
    BY <2>1, <2>2
<1> QED
  BY <1>13, <1>14, <1>15 DEF LimiterInv
LEMMA AdmitCounts ==
  ASSUME AdmittedType, NEW k \in Keys, Admit(k)
  PROVE  /\ AdmittedType'
         /\ admitted'[k] = IF admitted[k].age >= Window THEN [age |-> 0, count |-> 1]
                           ELSE [age |-> admitted[k].age, count |-> admitted[k].count + 1]
         /\ \A l \in Keys : l # k => admitted'[l] = admitted[l]
  BY LimiterAssumption DEF AdmittedType, Admit, Ages

LEMMA KnownKeyKeeps ==
  ASSUME LimiterInv, NEW table, SoundTable(table), ActiveKept(table),
         NEW i \in DOMAIN table, KnownKey(i, table)
  PROVE  LimiterInv'
<1> DEFINE k == table[i].key
           age == table[i].age
           count == table[i].count
<1>1. table[i] \in BucketSet
  BY LenProperties, ElementOfSeq DEF SoundTable
<1>2. k \in Keys /\ age \in Ages /\ count \in Nat \ {0} /\ Limit[k] \in Nat \ {0}
  BY <1>1, LimiterAssumption DEF BucketSet
<1>3. admitted[k].age = age /\ admitted[k].count = count /\ count <= Limit[k]
  BY DEF SoundTable
<1>4. AdmittedType /\ admitted[k] \in [age : Ages, count : Nat]
  BY <1>2 DEF LimiterInv, AdmittedType
<1>5. admitted[k] = [age |-> age, count |-> count]
  BY <1>3, <1>4
<1>6. age \in Nat /\ Window \in Nat /\ 0 \in Ages /\ 1 \in Nat \ {0} /\ count + 1 \in Nat \ {0}
  BY <1>2, LimiterAssumption DEF Ages
<1>7. CASE age >= Window /\ MovedToEnd(i, table, Bucket(k, 0, 1)) /\ Admit(k)
  <2>1. /\ AdmittedType' /\ admitted'[k] = [age |-> 0, count |-> 1]
        /\ \A l \in Keys : l # k => admitted'[l] = admitted[l]
    BY <1>2, <1>3, <1>4, <1>7, AdmitCounts
  <2>2. 1 <= Limit[k]
    BY <1>2
  <2> QED
    BY <1>6, <1>7, <2>1, <2>2, MovedSound
<1>8. CASE /\ age < Window /\ count < Limit[k]
           /\ MovedToEnd(i, table, Bucket(k, age, count + 1)) /\ Admit(k)
  <2>1. ~(admitted[k].age >= Window)
    BY <1>3, <1>6, <1>8
  <2>2. /\ AdmittedType' /\ admitted'[k] = [age |-> age, count |-> count + 1]
        /\ \A l \in Keys : l # k => admitted'[l] = admitted[l]
    BY <1>2, <1>3, <1>4, <1>8, <2>1, AdmitCounts
  <2>3. count + 1 <= Limit[k]
    BY <1>2, <1>8
  <2> QED
    BY <1>2, <1>6, <1>8, <2>2, <2>3, MovedSound
<1>9. CASE /\ age < Window /\ count >= Limit[k]
           /\ MovedToEnd(i, table, Bucket(k, age, count)) /\ UNCHANGED admitted
  <2>1. /\ AdmittedType' /\ admitted'[k] = [age |-> age, count |-> count]
        /\ \A l \in Keys : l # k => admitted'[l] = admitted[l]
    BY <1>4, <1>5, <1>9 DEF AdmittedType
  <2> QED
    BY <1>2, <1>3, <1>9, <2>1, MovedSound
<1> QED
  BY <1>7, <1>8, <1>9 DEF KnownKey

LEMMA NewKeyKeeps ==
  ASSUME LimiterInv, NEW table, SoundTable(table), ActiveKept(table), NEW k \in Keys,
         \A i \in DOMAIN table : table[i].key # k,
         NewKey(k, table)
  PROVE  LimiterInv'
<1>1. /\ table \in Seq(BucketSet) /\ DOMAIN table = 1..Len(table) /\ Len(table) \in Nat
      /\ \A j \in DOMAIN table : table[j] \in BucketSet
  BY LenProperties, ElementOfSeq DEF SoundTable
<1>2. CASE Len(table) >= MaxBuckets /\ buckets' = table /\ UNCHANGED admitted
  BY <1>2 DEF LimiterInv, AdmittedType, SoundTable, ActiveKept, AdmittedWithinLimit
<1>3. CASE /\ ~(Len(table) >= MaxBuckets)
           /\ buckets' = Append(table, Bucket(k, 0, 1)) /\ Admit(k)
  <2> DEFINE b == Bucket(k, 0, 1)
  <2>1. b \in BucketSet /\ b.key = k /\ b.age = 0 /\ b.count = 1 /\ b.idle = 0
    BY LimiterAssumption DEF BucketSet, Bucket, Ages
  <2>2. ~(admitted[k].age < Window)
    BY DEF ActiveKept
  <2>3. admitted[k].age >= Window
    BY <2>2, LimiterAssumption DEF LimiterInv, AdmittedType, Ages
  <2>4. /\ AdmittedType' /\ admitted'[k] = [age |-> 0, count |-> 1]
        /\ \A l \in Keys : l # k => admitted'[l] = admitted[l]
    BY <1>3, <2>3, AdmitCounts DEF LimiterInv
  <2> HIDE DEF b
  <2>5. /\ buckets' \in Seq(BucketSet) /\ Len(buckets') = Len(table) + 1
        /\ DOMAIN buckets' = 1..(Len(table) + 1)
        /\ \A j \in 1..Len(table) : buckets'[j] = table[j]
        /\ buckets'[Len(table) + 1] = b
    BY <1>1, <1>3, <2>1 DEF b
  <2>6. SoundTable(buckets)'
    <3>1. Len(buckets') <= MaxBuckets
      BY <1>1, <1>3, <2>5, LimiterAssumption
    <3>2. ASSUME NEW j \in DOMAIN buckets'
          PROVE  /\ buckets'[j].idle <= buckets'[j].age
                 /\ buckets'[j].count <= Limit[buckets'[j].key]
                 /\ admitted'[buckets'[j].key].age = buckets'[j].age
                 /\ admitted'[buckets'[j].key].count = buckets'[j].count
      <4>1. CASE j = Len(table) + 1
        BY <2>1, <2>4, <2>5, <4>1, LimiterAssumption
      <4>2. CASE j # Len(table) + 1
        <5>1. j \in DOMAIN table /\ buckets'[j] = table[j]
          BY <1>1, <2>5, <4>2
        <5>2. table[j].key \in Keys /\ table[j].key # k
          BY <1>1, <5>1 DEF BucketSet
        <5>3. admitted'[table[j].key] = admitted[table[j].key]
          BY <2>4, <5>2
        <5> QED
          BY <5>1, <5>3 DEF SoundTable
      <4> QED
        BY <4>1, <4>2
    <3>3. \A j, l \in DOMAIN buckets' : buckets'[j].key = buckets'[l].key => j = l
      BY <1>1, <2>1, <2>5 DEF SoundTable
    <3>4. ASSUME NEW j \in DOMAIN buckets', NEW l \in DOMAIN buckets', j < l
          PROVE  buckets'[j].idle >= buckets'[l].idle
      <4>1. CASE l = Len(table) + 1
        <5>1. buckets'[l].idle = 0 /\ buckets'[j] \in BucketSet
          BY <2>1, <2>5, <4>1, ElementOfSeq
        <5> QED
          BY <5>1, LimiterAssumption DEF BucketSet, Ages
      <4>2. CASE l # Len(table) + 1
        BY <1>1, <2>5, <3>4, <4>2 DEF SoundTable
      <4> QED
        BY <4>1, <4>2
    <3> QED
      BY <2>5, <3>1, <3>2, <3>3, <3>4 DEF SoundTable
  <2>7. ActiveKept(buckets)'
    <3> SUFFICES ASSUME NEW l \in Keys, admitted'[l].age < Window
                 PROVE  \E j \in DOMAIN buckets' : buckets'[j].key = l
      BY DEF ActiveKept
    <3>1. CASE l = k
      BY <1>1, <2>1, <2>5, <3>1
    <3>2. CASE l # k
      <4>1. PICK j \in DOMAIN table : table[j].key = l
        BY <2>4, <3>2 DEF ActiveKept
      <4> QED
        BY <1>1, <2>5, <4>1
    <3> QED
      BY <3>1, <3>2
  <2>8. AdmittedWithinLimit'
    <3> SUFFICES ASSUME NEW l \in Keys PROVE admitted'[l].count <= Limit[l]
      BY DEF AdmittedWithinLimit
    <3>1. CASE l = k
      BY <2>4, <3>1, LimiterAssumption
    <3>2. CASE l # k
      BY <2>4, <3>2 DEF LimiterInv, AdmittedWithinLimit
    <3> QED
      BY <3>1, <3>2
  <2> QED
    BY <2>4, <2>6, <2>7, <2>8 DEF LimiterInv
<1> QED
  BY <1>2, <1>3 DEF NewKey

LEMMA CheckKeeps == ASSUME LimiterInv, NEW k \in Keys, Check(k) PROVE LimiterInv'
<1>1. PICK table : table = Unexpired
  OBVIOUS
<1>2. SoundTable(table) /\ ActiveKept(table)
  BY <1>1, UnexpiredSound
<1>3. CASE \E i \in DOMAIN table : KnownKey(i, table)
  BY <1>2, <1>3, KnownKeyKeeps
<1>4. CASE (\A i \in DOMAIN table : table[i].key # k) /\ NewKey(k, table)
  BY <1>2, <1>4, NewKeyKeeps
<1> QED
  BY <1>1, <1>3, <1>4 DEF Check

LEMMA OlderAge ==
  ASSUME NEW a \in Ages
  PROVE  Older(a) \in Ages /\ a <= Older(a) /\ (Older(a) < Window => a < Window)
         /\ \A b \in Ages : a <= b => Older(a) <= Older(b)
  BY LimiterAssumption DEF Ages, Older

LEMMA TickKeeps == ASSUME LimiterInv, Tick PROVE LimiterInv'
<1>1. /\ buckets \in Seq(BucketSet) /\ DOMAIN buckets = 1..Len(buckets) /\ Len(buckets) \in Nat
      /\ \A j \in DOMAIN buckets : buckets[j] \in BucketSet
  BY LenProperties, ElementOfSeq DEF LimiterInv, SoundTable
<1>2. \A j \in DOMAIN buckets :
        [key |-> buckets[j].key, age |-> Older(buckets[j].age), count |-> buckets[j].count,
         idle |-> Older(buckets[j].idle)] \in BucketSet
  BY <1>1, OlderAge DEF BucketSet
<1>3. buckets' = [j \in 1..Len(buckets) |->
        [key |-> buckets[j].key, age |-> Older(buckets[j].age), count |-> buckets[j].count,
         idle |-> Older(buckets[j].idle)]]
  BY <1>1, Zenon DEF Tick, Aged
<1>4. buckets' \in Seq(BucketSet) /\ Len(buckets') = Len(buckets) /\ DOMAIN buckets' = DOMAIN buckets
  BY <1>1, <1>2, <1>3
<1>5. admitted' = [k \in Keys |-> [age |-> Older(admitted[k].age), count |-> admitted[k].count]]
  <2>1. \A a \in [age : Ages, count : Nat] :
          [a EXCEPT !.age = Older(@)] = [age |-> Older(a.age), count |-> a.count]
    OBVIOUS
  <2>2. \A k \in Keys :
          [admitted[k] EXCEPT !.age = Older(@)] =
            [age |-> Older(admitted[k].age), count |-> admitted[k].count]
    BY <2>1 DEF LimiterInv, AdmittedType
  <2> QED
    BY <2>2, Zenon DEF Tick
<1>6. AdmittedType'
  BY <1>5, OlderAge DEF LimiterInv, AdmittedType
<1>7. SoundTable(buckets)'
  <2>1. \A j \in DOMAIN buckets' :
          /\ buckets'[j].idle <= buckets'[j].age
          /\ buckets'[j].count <= Limit[buckets'[j].key]
          /\ admitted'[buckets'[j].key].age = buckets'[j].age
          /\ admitted'[buckets'[j].key].count = buckets'[j].count
    <3> SUFFICES ASSUME NEW j \in DOMAIN buckets
                 PROVE  /\ buckets'[j].idle <= buckets'[j].age
                        /\ buckets'[j].count <= Limit[buckets'[j].key]
                        /\ admitted'[buckets'[j].key].age = buckets'[j].age
                        /\ admitted'[buckets'[j].key].count = buckets'[j].count
      BY <1>4
    <3>1. /\ buckets'[j].idle = Older(buckets[j].idle) /\ buckets'[j].age = Older(buckets[j].age)
          /\ buckets'[j].count = buckets[j].count /\ buckets'[j].key = buckets[j].key
      BY <1>1, <1>3
    <3>2. buckets[j].key \in Keys /\ buckets[j].age \in Ages /\ buckets[j].idle \in Ages
      BY <1>1 DEF BucketSet
    <3>3. /\ buckets[j].idle <= buckets[j].age /\ buckets[j].count <= Limit[buckets[j].key]
          /\ admitted[buckets[j].key].age = buckets[j].age
          /\ admitted[buckets[j].key].count = buckets[j].count
      BY DEF LimiterInv, SoundTable
    <3>4. /\ admitted'[buckets[j].key].age = Older(buckets[j].age)
          /\ admitted'[buckets[j].key].count = buckets[j].count
      BY <1>5, <3>2, <3>3
    <3>5. Older(buckets[j].idle) <= Older(buckets[j].age)
      BY <3>2, <3>3, OlderAge
    <3> QED
      BY <3>1, <3>3, <3>4, <3>5
  <2>2. \A i, j \in DOMAIN buckets' : buckets'[i].key = buckets'[j].key => i = j
    BY <1>1, <1>3, <1>4 DEF LimiterInv, SoundTable
  <2>3. ASSUME NEW i \in DOMAIN buckets, NEW j \in DOMAIN buckets, i < j
        PROVE  buckets'[i].idle >= buckets'[j].idle
    <3>1. buckets[i].idle \in Ages /\ buckets[j].idle \in Ages /\ buckets[j].idle <= buckets[i].idle
      BY <1>1, <2>3 DEF LimiterInv, SoundTable, BucketSet, Ages
    <3>2. Older(buckets[j].idle) <= Older(buckets[i].idle) /\ Older(buckets[i].idle) \in Ages
          /\ Older(buckets[j].idle) \in Ages
      BY <3>1, OlderAge
    <3>3. buckets'[i].idle = Older(buckets[i].idle) /\ buckets'[j].idle = Older(buckets[j].idle)
      BY <1>1, <1>3
    <3> QED
      BY <3>2, <3>3, LimiterAssumption DEF Ages
  <2> QED
    BY <1>4, <2>1, <2>2, <2>3 DEF LimiterInv, SoundTable
<1>8. ActiveKept(buckets)'
  <2> SUFFICES ASSUME NEW k \in Keys, admitted'[k].age < Window
               PROVE  \E j \in DOMAIN buckets' : buckets'[j].key = k
    BY DEF ActiveKept
  <2>1. admitted[k].age \in Ages /\ Older(admitted[k].age) < Window
    BY <1>5 DEF LimiterInv, AdmittedType
  <2>2. PICK j \in DOMAIN buckets : buckets[j].key = k
    BY <2>1, OlderAge DEF LimiterInv, ActiveKept
  <2> QED
    BY <1>1, <1>3, <1>4, <2>2
<1>9. AdmittedWithinLimit'
  BY <1>5 DEF LimiterInv, AdmittedWithinLimit
<1> QED
  BY <1>6, <1>7, <1>8, <1>9 DEF LimiterInv

-----------------------------------------------------------------------------
(* The run of the hub.                                                       *)

LimiterStep == Tick \/ \E k \in Keys : Check(k)

LEMMA LimiterMoves == ASSUME [Next]_vars PROVE LimiterStep \/ UNCHANGED limiter_vars
<1>1. CASE UNCHANGED vars
  BY <1>1 DEF vars
<1>2. CASE MainThread
  BY <1>2 DEF MainThread, Preflight, Configure, RequireConfigured, StartMonitor,
    InitializeDatabase, LookAhead, Decrypt, RequireCreated, CreateServer, LastLook, Bind,
    Shutdown, Unwind, Require, Unserved
<1>3. CASE Monitor
  BY <1>3 DEF Monitor, Guarded, CallbackStopsServer, Unserved
<1>4. CASE Answer
  BY <1>4 DEF Answer, limiter_vars
<1>5. CASE Environment
  BY <1>5 DEF Environment, Guarded, Interrupt, TimePasses, Request, Unserved, LimiterStep
<1> QED
  BY <1>1, <1>2, <1>3, <1>4, <1>5 DEF Next

LEMMA LimiterStarts == Init => LimiterInv
<1> SUFFICES ASSUME Init PROVE LimiterInv
  OBVIOUS
<1>1. buckets = << >> /\ admitted = [k \in Keys |-> [age |-> Window, count |-> 0]]
  BY DEF Init, LimiterInit
<1>2. AdmittedType
  BY <1>1, LimiterAssumption DEF AdmittedType, Ages
<1>3. SoundTable(buckets)
  BY <1>1, EmptySeq, LimiterAssumption DEF SoundTable
<1>4. ActiveKept(buckets) /\ AdmittedWithinLimit
  BY <1>1, LimiterAssumption DEF ActiveKept, AdmittedWithinLimit
<1> QED
  BY <1>2, <1>3, <1>4 DEF LimiterInv

LEMMA LimiterKeeps == LimiterInv /\ [Next]_vars => LimiterInv'
<1> SUFFICES ASSUME LimiterInv, [Next]_vars PROVE LimiterInv'
  OBVIOUS
<1>1. CASE LimiterStep
  BY <1>1, TickKeeps, CheckKeeps DEF LimiterStep
<1>2. CASE UNCHANGED limiter_vars
  BY <1>2 DEF limiter_vars, LimiterInv, AdmittedType, SoundTable, ActiveKept, AdmittedWithinLimit
<1> QED
  BY <1>1, <1>2, LimiterMoves

\* However callers come and go, in a window that begins with a key's admission no more than
\* its limit are admitted (InMemoryRateLimiter.check): neither the bound of the table nor
\* the removal of expired buckets resets the count of a key whose window is open.
THEOREM QuotasHold == Spec => []AdmittedWithinLimit
<1>1. LimiterInv => AdmittedWithinLimit
  BY DEF LimiterInv
<1> QED
  BY <1>1, LimiterStarts, LimiterKeeps, PTL DEF Spec

\* The buckets stay ordered by their last access, so that _remove_expired, which stops at
\* the first that is fresh, leaves no expired one behind.
THEOREM TableStaysOrdered == Spec => []OrderedByAccess
<1>1. LimiterInv => OrderedByAccess
  BY DEF LimiterInv, SoundTable, OrderedByAccess
<1> QED
  BY <1>1, LimiterStarts, LimiterKeeps, PTL DEF Spec

-----------------------------------------------------------------------------
(* Types, and the names decrypted at the start.                              *)

Flags == {winamax, blocked, notified, monStop, server, shouldExit} \subseteq BOOLEAN

RunTypes ==
  /\ boot \in Booting \cup {"serving", "draining", "unwind", "exit"}
  /\ mon \in {"none", "poll", "notify", "callback", "dead"}
  /\ checked \in 0..Opponents /\ late \in 0..checked
  /\ work \in 0..Handlers /\ (work > 0 => server /\ boot \in {"serving", "draining"})

\* A name is decrypted only while one is left; a name decrypted late is the last; whoever
\* listens has a server.
RunInv ==
  /\ RunTypes
  /\ boot = "decrypt" => checked < Opponents
  /\ late <= 1
  /\ late = 1 => blocked /\ boot \in {"validate", "unwind", "exit"}
  /\ boot \in {"last", "bind", "serving", "draining"} => server

LEMMA FlagsStart == Init => Flags
  BY Zenon DEF Init, GuardInit, Flags

LEMMA FlagsKeep == Flags /\ [Next]_vars => Flags'
<1> SUFFICES ASSUME Flags, [Next]_vars PROVE Flags'
  OBVIOUS
<1> USE DEF Flags, guard_vars, hub_vars
<1>1. CASE UNCHANGED vars
  BY <1>1, Zenon DEF vars
<1>2. ASSUME NEW pc, NEW next, NEW refused, Require(pc, next, refused) PROVE Flags'
  BY <1>2, Zenon DEF Require, RequireAbsent
<1>3. CASE Preflight \/ RequireConfigured \/ InitializeDatabase \/ RequireCreated
  BY <1>2, <1>3, Zenon DEF Preflight, RequireConfigured, InitializeDatabase, RequireCreated
<1>4. CASE StartMonitor
  BY <1>4, Zenon DEF StartMonitor
<1>5. CASE Configure \/ LookAhead \/ Decrypt \/ CreateServer \/ LastLook
  BY <1>5, Zenon DEF Configure, LookAhead, Decrypt, CreateServer, LastLook
<1>6. CASE Bind \/ Shutdown \/ Unwind \/ Interrupt
  BY <1>6, Zenon DEF Bind, Shutdown, Unwind, Interrupt
<1>7. CASE Monitor
  BY <1>7, Zenon DEF Monitor, Guarded, Poll, Notify, MonitorEnds, CallbackStopsServer
<1>8. CASE Answer \/ TimePasses \/ \E k \in Keys : Request(k)
  BY <1>8, Zenon DEF Answer, TimePasses, Request
<1>9. CASE Guarded /\ (WinamaxToggles \/ ProbeFails)
  BY <1>9, Zenon DEF Guarded, WinamaxToggles, ProbeFails
<1> QED
  BY <1>1, <1>3, <1>4, <1>5, <1>6, <1>7, <1>8, <1>9 DEF Next, MainThread, Environment

LEMMA RunStarts == Init => RunInv
  BY HubAssumption DEF Init, GuardInit, RunInv, RunTypes, Booting

LEMMA RunKeeps == RunInv /\ [Next]_vars => RunInv'
<1> SUFFICES ASSUME RunInv, [Next]_vars PROVE RunInv'
  OBVIOUS
<1> USE HubAssumption DEF RunInv, RunTypes, Booting, At, Running, EnsureAllowed
<1>1. CASE UNCHANGED vars
  BY <1>1 DEF vars, guard_vars, hub_vars
<1>2. ASSUME NEW pc \in Booting, NEW next, NEW refused, Require(pc, next, refused),
             next \in {"configure", "monitor", "validate", "server"},
             refused \in {"exit", "unwind"}, pc # "validate"
      PROVE  RunInv'
  BY <1>2 DEF Require, RequireAbsent, hub_vars, Unserved
<1>3. CASE Preflight \/ RequireConfigured \/ InitializeDatabase \/ RequireCreated
  BY <1>2, <1>3 DEF Preflight, RequireConfigured, InitializeDatabase, RequireCreated
<1>4. CASE Configure \/ StartMonitor
  BY <1>4 DEF Configure, StartMonitor, guard_vars, hub_vars, Unserved
<1>5. CASE LookAhead
  BY <1>5 DEF LookAhead, guard_vars, hub_vars, Unserved
<1>6. CASE Decrypt
  BY <1>6 DEF Decrypt, guard_vars, Unserved
<1>7. CASE CreateServer \/ LastLook \/ Bind
  BY <1>7 DEF CreateServer, LastLook, Bind, guard_vars, hub_vars, Unserved
<1>8. CASE Shutdown \/ Unwind \/ Interrupt
  BY <1>8 DEF Shutdown, Unwind, Interrupt, guard_vars, hub_vars, Unserved
<1>9. CASE Monitor
  BY <1>9 DEF Monitor, Guarded, Poll, Notify, MonitorEnds, CallbackStopsServer, hub_vars, Unserved
<1>10. CASE Answer
  BY <1>10 DEF Answer, guard_vars
<1>11. CASE Environment
  <2>1. CASE Running /\ Guarded /\ (WinamaxToggles \/ ProbeFails)
    BY <2>1 DEF Guarded, WinamaxToggles, ProbeFails, hub_vars, Unserved
  <2>2. CASE TimePasses
    BY <2>2 DEF TimePasses, guard_vars, hub_vars
  <2>3. CASE \E k \in Keys : Request(k)
    BY <2>3 DEF Request, guard_vars
  <2> QED
    BY <1>8, <1>11, <2>1, <2>2, <2>3 DEF Environment
<1> QED
  BY <1>1, <1>3, <1>4, <1>5, <1>6, <1>7, <1>8, <1>9, <1>10, <1>11 DEF Next, MainThread

\* Once the latch is tripped, create_hub_app decrypts at most the name under way, however
\* many the database holds (api.py:109).
THEOREM OneNameAtMost == Spec => []AtMostOneLateName
<1>1. RunInv => AtMostOneLateName
  BY DEF RunInv, AtMostOneLateName
<1> QED
  BY <1>1, RunStarts, RunKeeps, PTL DEF Spec

\* Types; the table of buckets never exceeds its bound nor holds a key twice, a count never
\* exceeds its limit, and there are handlers only while there is a server.
THEOREM HubTypesHold == Spec => []TypeOK
<1>1. LimiterInv => LimiterTypes
  <2> SUFFICES ASSUME LimiterInv PROVE LimiterTypes
    OBVIOUS
  <2>1. \A i \in DOMAIN buckets : buckets[i] \in BucketSet
    BY LenProperties, ElementOfSeq DEF LimiterInv, SoundTable
  <2>2. \A i \in DOMAIN buckets : buckets[i].count \in 1..Limit[buckets[i].key]
    BY <2>1, LimiterAssumption DEF LimiterInv, SoundTable, BucketSet
  <2> QED
    BY <2>1, <2>2 DEF LimiterInv, SoundTable, LimiterTypes, BucketSet, Ages
<1>2. RunInv /\ Flags /\ LimiterInv => TypeOK
  BY <1>1 DEF RunInv, RunTypes, Flags, TypeOK
<1> QED
  BY <1>2, FlagsStart, FlagsKeep, RunStarts, RunKeeps, LimiterStarts, LimiterKeeps, PTL DEF Spec
=============================================================================
