----------------------------- MODULE RateLimiter -----------------------------
(***************************************************************************)
(* community_hub/rate_limit.py: InMemoryRateLimiter, whose table of fixed    *)
(* windows is bounded.  The event loop calls check, one request at a time.   *)
(* HubRun composes it with the process that serves.                          *)
(*                                                                          *)
(* Times are kept as ages in ticks, which stop at Window: whatever is that   *)
(* old has expired.                                                         *)
(***************************************************************************)
EXTENDS Naturals, Sequences, SequencesExt

CONSTANTS
  Keys,        \* a scope (enroll, sync, other) with a peer, and for sync a token's digest
  Limit,       \* Limit[k]: requests in one window
  MaxBuckets,  \* max_buckets
  Window       \* window_seconds, in ticks

ASSUME LimiterAssumption ==
  /\ MaxBuckets \in Nat \ {0} /\ Window \in Nat \ {0}
  /\ Limit \in [Keys -> Nat \ {0}]

VARIABLES
  buckets,  \* the OrderedDict: records of key, age of the window, count, age of the last access
  admitted  \* history: each key's windows as its admissions alone define them

limiter_vars == <<buckets, admitted>>

LimiterInit == buckets = << >> /\ admitted = [k \in Keys |-> [age |-> Window, count |-> 0]]

Older(age) == IF age < Window THEN age + 1 ELSE Window

Aged(b) ==
  [key |-> b.key, age |-> Older(b.age), count |-> b.count, idle |-> Older(b.idle)]

\* A tick of time.monotonic.
Tick ==
  /\ buckets' = [i \in DOMAIN buckets |-> Aged(buckets[i])]
  /\ admitted' = [k \in Keys |-> [admitted[k] EXCEPT !.age = Older(@)]]

\* _remove_expired, from the oldest on and no further than the first that is fresh.
Unexpired ==
  LET fresh == {i \in DOMAIN buckets : buckets[i].idle < Window}
  IN  IF fresh = {} THEN << >>
      ELSE SubSeq(buckets, CHOOSE i \in fresh : \A j \in fresh : i <= j, Len(buckets))

Bucket(k, age, count) == [key |-> k, age |-> age, count |-> count, idle |-> 0]

Admit(k) ==
  admitted' = [admitted EXCEPT ![k] = IF @.age >= Window THEN [age |-> 0, count |-> 1]
                                      ELSE [age |-> @.age, count |-> @.count + 1]]

\* Mutant: when the table is full the bucket accessed longest ago makes room.
NewKeyEvicts(k, table) ==
  /\ buckets' = Append(IF Len(table) >= MaxBuckets THEN Tail(table) ELSE table,
                       Bucket(k, 0, 1))
  /\ Admit(k)

\* A full table refuses a new key rather than forget another's count.
NewKey(k, table) ==
  IF Len(table) >= MaxBuckets
  THEN buckets' = table /\ UNCHANGED admitted
  ELSE buckets' = Append(table, Bucket(k, 0, 1)) /\ Admit(k)

\* Mutant: an access leaves the bucket where it is.
Accessed(i, table, bucket) == buckets' = [table EXCEPT ![i] = bucket]

\* move_to_end.
MovedToEnd(i, table, bucket) == buckets' = Append(RemoveAt(table, i), bucket)

\* A window that has passed begins anew; within it the count stops at the limit.
KnownKey(i, table) ==
  LET k == table[i].key
      age == table[i].age
      count == table[i].count
  IN  \/ /\ age >= Window
         /\ MovedToEnd(i, table, Bucket(k, 0, 1)) /\ Admit(k)
      \/ /\ age < Window /\ count < Limit[k]
         /\ MovedToEnd(i, table, Bucket(k, age, count + 1)) /\ Admit(k)
      \/ /\ age < Window /\ count >= Limit[k]
         /\ MovedToEnd(i, table, Bucket(k, age, count)) /\ UNCHANGED admitted

Check(k) ==
  LET table == Unexpired
  IN  \/ \E i \in DOMAIN table : table[i].key = k /\ KnownKey(i, table)
      \/ (\A i \in DOMAIN table : table[i].key # k) /\ NewKey(k, table)

\* The decision is allowed exactly when an admission is noted.
Allowed == admitted' # admitted

-----------------------------------------------------------------------------
LimiterTypes ==
  /\ Len(buckets) <= MaxBuckets
  /\ \A i \in DOMAIN buckets :
       /\ buckets[i].key \in Keys
       /\ buckets[i].count \in 1..Limit[buckets[i].key]
       /\ buckets[i].idle <= buckets[i].age /\ buckets[i].age \in 0..Window
       /\ \A j \in DOMAIN buckets : buckets[i].key = buckets[j].key => i = j

\* The buckets are ordered by their last access, which _remove_expired relies on
\* (rate_limit.py:64): otherwise one that is still fresh hides expired ones behind it, and
\* the table stays full for new keys.
OrderedByAccess ==
  \A i, j \in DOMAIN buckets : i < j => buckets[i].idle >= buckets[j].idle

\* Whatever happens to the table, in a window that begins with a key's admission no more
\* than its limit are admitted (rate_limit.py:35, key churn resets nobody's quota).
AdmittedWithinLimit == \A k \in Keys : admitted[k].count <= Limit[k]
=============================================================================
