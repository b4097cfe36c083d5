------------------------- MODULE RateLimiterProofs -------------------------
(***************************************************************************)
(* What one limiter keeps when its callers pass windows of different       *)
(* lengths, as the setup ring does: five minutes for the host, one for the *)
(* phone.                                                                  *)
(***************************************************************************)
EXTENDS RateLimiter, TLAPS

(* A bucket is open while its own window lasts, whatever window the try of *)
(* another key comes with.                                                 *)
Open(bucket, window, at) == bucket.start <= at /\ ~Ended(bucket, window, at)

(* A try of another key never touches an open bucket, provided that its    *)
(* window is at least half as long as the bucket's: forgetting above       *)
(* maxBuckets gives nobody a fresh start.  That is so between any two      *)
(* tries of a limiter whose callers agree on the window, and of a host's   *)
(* try and a phone's bucket; a phone's try and a host's bucket are outside. *)
THEOREM OpenBucketsStay ==
  ASSUME NEW buckets, NEW key, NEW other \in DOMAIN buckets \ {key},
         NEW window \in Nat, NEW longer \in Nat, longer <= 2 * window,
         NEW at \in Nat, NEW maxBuckets \in Nat,
         buckets[other] \in Bucket, Open(buckets[other], longer, at)
  PROVE  LET after == AfterTry(buckets, key, window, at, maxBuckets)
         IN other \in DOMAIN after /\ after[other] = buckets[other]
<1> DEFINE tried == Put(buckets, key, Counted(buckets, key, window, at))
<1>1. other \in DOMAIN tried /\ tried[other] = buckets[other]
  BY DEF Put
<1>2. ~(at - buckets[other].start > 2 * window)
  BY DEF Open, Ended, Bucket
<1>3. other \notin Forgotten(tried, window, at, maxBuckets)
  BY <1>1, <1>2 DEF Forgotten
<1>4. QED
  BY <1>1, <1>3 DEF AfterTry, Without

(* A try is counted, refused or not, in the open bucket of its key or in a *)
(* new one, and its own pruning never forgets it.                          *)
THEOREM TriesAreCounted ==
  ASSUME NEW buckets, NEW key, NEW window \in Nat, NEW at \in Nat,
         NEW maxBuckets \in Nat,
         key \in DOMAIN buckets => buckets[key] \in Bucket
  PROVE  LET after == AfterTry(buckets, key, window, at, maxBuckets)
         IN /\ key \in DOMAIN after
            /\ key \in DOMAIN buckets /\ ~Ended(buckets[key], window, at) =>
                 /\ after[key].start = buckets[key].start
                 /\ after[key].count = buckets[key].count + 1
            /\ ~(key \in DOMAIN buckets /\ ~Ended(buckets[key], window, at)) =>
                 after[key] = [start |-> at, count |-> 1]
<1> DEFINE tried == Put(buckets, key, Counted(buckets, key, window, at))
<1>1. key \in DOMAIN tried /\ tried[key] = Counted(buckets, key, window, at)
  BY DEF Put
<1>2. ~(at - tried[key].start > 2 * window)
  <2>1. CASE key \in DOMAIN buckets /\ ~Ended(buckets[key], window, at)
    BY <1>1, <2>1 DEF Counted, Ended, Bucket
  <2>2. CASE ~(key \in DOMAIN buckets /\ ~Ended(buckets[key], window, at))
    BY <1>1, <2>2 DEF Counted
  <2>3. QED
    BY <2>1, <2>2
<1>3. key \notin Forgotten(tried, window, at, maxBuckets)
  BY <1>2 DEF Forgotten
<1>4. /\ key \in DOMAIN AfterTry(buckets, key, window, at, maxBuckets)
      /\ AfterTry(buckets, key, window, at, maxBuckets)[key]
           = Counted(buckets, key, window, at)
  BY <1>1, <1>3 DEF AfterTry, Without
<1>5. QED
  BY <1>4 DEF Counted, Bucket
=============================================================================
