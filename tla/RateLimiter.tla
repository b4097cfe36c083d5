---------------------------- MODULE RateLimiter ----------------------------
(***************************************************************************)
(* The fixed-window limiter of internal/webapp/ratelimit.go: a bucket for  *)
(* each key that was seen, opened by its first try and replaced by the     *)
(* first try after its window.  Above maxBuckets (10,000 in the code) the  *)
(* old ones are dropped.                                                   *)
(***************************************************************************)
EXTENDS Tables, FiniteSets

Bucket == [start : Nat, count : Nat]

(* The window of a bucket ends at the instant it has lasted a window;      *)
(* ending it one unit early would be a bug.                                *)
EndsEarly(bucket, window, at) == at - bucket.start >= window - 1

Ended(bucket, window, at) == at - bucket.start >= window

(* The bucket of key after one more try, refused tries included.           *)
Counted(buckets, key, window, at) ==
  IF key \in DOMAIN buckets /\ ~Ended(buckets[key], window, at)
  THEN [buckets[key] EXCEPT !.count = @ + 1]
  ELSE [start |-> at, count |-> 1]

Forgotten(buckets, window, at, maxBuckets) ==
  IF Cardinality(DOMAIN buckets) > maxBuckets
  THEN {key \in DOMAIN buckets : at - buckets[key].start > 2 * window}
  ELSE {}

(* allow(key, limit, window): the buckets it leaves, and its answer.       *)
AfterTry(buckets, key, window, at, maxBuckets) ==
  LET tried == Put(buckets, key, Counted(buckets, key, window, at))
  IN Without(tried, Forgotten(tried, window, at, maxBuckets))

Allows(buckets, key, limit, window, at) ==
  Counted(buckets, key, window, at).count <= limit
=============================================================================
