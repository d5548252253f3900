------------------------------- MODULE RateLimit -------------------------------
(***************************************************************************)
(* backend/app/api/rate_limit.py: the sliding-window limiter of the query  *)
(* endpoint.  check reads the clock, waits for the lock, and then decides  *)
(* with the time it has read.  Times are whole seconds of the monotonic    *)
(* clock; buckets keep the order in which they were used last.             *)
(***************************************************************************)
EXTENDS Integers, Sequences, FiniteSets, SequencesExt

CONSTANTS Callers,           \* request threads
          Keys,              \* client keys (_query_client_key)
          Limit, Window, MaxKeys,
          MaxTime            \* bound: the clock stops there

ASSUME LimitAssumption == {Limit, Window, MaxKeys} \subseteq Nat \ {0}
ASSUME TimeAssumption  == MaxTime \in Nat

VARIABLES clock,             \* time.monotonic
          buckets,           \* _events: the times granted, by key
          recent,            \* the order of the keys in _events
          checking,          \* the call of each thread: its key and its time
          crossed,           \* history: two calls were under way at once
          lately             \* history: until then, the grants of the last window of each
                             \* key, and none for a key whose bucket was thrown away

limitVars == <<clock, buckets, recent, checking, crossed, lately>>

NotChecking == [key |-> "none", time |-> 0]
Waiting     == {t \in Callers : checking[t] # NotChecking}
Tracked     == Range(recent)

LimitInit ==
  /\ clock = 0
  /\ buckets = [k \in Keys |-> <<>>] /\ recent = <<>>
  /\ checking = [t \in Callers |-> NotChecking]
  /\ crossed = FALSE /\ lately = [k \in Keys |-> <<>>]

----------------------------------------------------------------------------
Tick ==
  /\ clock < MaxTime
  /\ clock' = clock + 1
  /\ UNCHANGED <<buckets, recent, checking, crossed, lately>>

(* check: the clock is read before the lock is taken.                      *)
ReadClock(t, k) ==
  /\ checking[t] = NotChecking
  /\ checking' = [checking EXCEPT ![t] = [key |-> k, time |-> clock]]
  /\ crossed' = (crossed \/ Waiting # {})
  /\ UNCHANGED <<clock, buckets, recent, lately>>

\* The times from the first one that is later than t on.
From(times, t) ==
  LET later == {i \in 1..Len(times) : times[i] > t}
  IN  IF later = {} THEN <<>>
      ELSE SubSeq(times, CHOOSE i \in later : \A j \in later : i <= j, Len(times))

\* Mutant of Expired: events leave the bucket a second early.
OlderByOne(bucket, now) == From(bucket, now - Window + 1)

\* Events at the head that are as old as the window leave the bucket.
Expired(bucket, now) == From(bucket, now - Window)

\* The key is now the one used last (move_to_end), or a new one.
Touched(k) ==
  IF k \in Tracked
  THEN Append(RemoveAt(recent, CHOOSE i \in 1..Len(recent) : recent[i] = k), k)
  ELSE Append(recent, k)

\* Mutant of Kept: one bucket too many stays.
KeptOneMore(order) == IF Len(order) > MaxKeys + 1 THEN Tail(order) ELSE order

\* A new key may push out the oldest.
Kept(order) == IF Len(order) > MaxKeys THEN Tail(order) ELSE order

(* Under the lock: refused with the bucket as it is, or granted.           *)
Decide(t) ==
  /\ checking[t] # NotChecking
  /\ LET k == checking[t].key
         now == checking[t].time
         bucket == Expired(buckets[k], now)
         order == Kept(Touched(k))
     IN  IF Len(bucket) >= Limit
         THEN /\ buckets' = [buckets EXCEPT ![k] = bucket]
              /\ recent' = Touched(k)
              /\ UNCHANGED lately
         ELSE /\ recent' = order
              /\ buckets' = [x \in Keys |-> IF x = k THEN Append(bucket, now)
                                            ELSE IF x \in Range(order) THEN buckets[x] ELSE <<>>]
              /\ lately' = [x \in Keys |->
                              IF crossed \/ x \notin Range(order) THEN <<>>
                              ELSE From(IF x = k THEN Append(lately[x], now) ELSE lately[x],
                                        now - Window)]
  /\ checking' = [checking EXCEPT ![t] = NotChecking]
  /\ UNCHANGED <<clock, crossed>>

LimitNext == Tick \/ \E t \in Callers : Decide(t) \/ \E k \in Keys : ReadClock(t, k)

LimitSpec == LimitInit /\ [][LimitNext]_limitVars

----------------------------------------------------------------------------
(* rate_limit.py:20 (a bounded limiter): the types, and with them that no  *)
(* bucket outgrows the limit and that max_keys buckets are kept at most.   *)
LimitTypeOK ==
  /\ clock \in 0..MaxTime
  /\ buckets \in [Keys -> Seq(0..MaxTime)]
  /\ recent \in Seq(Keys) /\ IsInjective(recent)
  /\ checking \in [Callers -> [key : Keys \cup {"none"}, time : 0..MaxTime]]
  /\ lately \in [Keys -> Seq(0..MaxTime)]
  /\ \A k \in Keys \ Tracked : buckets[k] = <<>>
  /\ \A k \in Keys : Len(buckets[k]) <= Limit
  /\ Len(recent) <= MaxKeys

(* main.py:1066-1091: a client gets at most the limit in any window, while *)
(* its bucket is kept and no two calls have crossed.                       *)
WindowRespected == \A k \in Keys : Len(lately[k]) <= Limit

============================================================================
