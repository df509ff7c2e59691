----------------------------- MODULE RateLimiter -----------------------------
(***************************************************************************)
(* OrderRateLimiter of openmatch-core (security.rs): per user, a sliding   *)
(* window of the timestamps of recent accepted orders and a per-epoch      *)
(* counter.  check_and_record is called with the caller's clock, which     *)
(* the `windows` field documents as monotonically increasing; the model    *)
(* lets the clock advance by Tick between calls.                           *)
(***************************************************************************)
EXTENDS Integers, Sequences, FiniteSets

CONSTANTS
  Users,
  WindowMs,       \* window_ms
  MaxPerWindow,   \* max_per_window
  MaxPerEpoch,    \* max_per_epoch
  MaxTime         \* bound: the last millisecond the model reaches

VARIABLES
  now,            \* the now_ms the next call passes
  windows,        \* windows[u]: VecDeque<u64>, absent = <<>>
  epochCounts,    \* epoch_counts[u], absent = 0
  result,         \* what the last check_and_record returned
  log             \* history: timestamps of the calls accepted since reset_epoch

vars == <<now, windows, epochCounts, result, log>>

Init ==
  /\ now = 0
  /\ windows = [u \in Users |-> <<>>]
  /\ epochCounts = [u \in Users |-> 0]
  /\ result = "Ok"
  /\ log = [u \in Users |-> <<>>]

(* now_ms.saturating_sub(window_ms)                                        *)
Cutoff(t) == IF t > WindowMs THEN t - WindowMs ELSE 0

(* mutant: the prune also drops the entry equal to the cutoff              *)
RECURSIVE PruneInclusive(_, _)
PruneInclusive(w, c) ==
  IF w # <<>> /\ Head(w) <= c THEN PruneInclusive(Tail(w), c) ELSE w

(* the `while let Some(&front)` loop: pop entries older than the cutoff   *)
(* from the front, stopping at the first one that is not                  *)
RECURSIVE Prune(_, _)
Prune(w, c) ==
  IF w # <<>> /\ Head(w) < c THEN Prune(Tail(w), c) ELSE w

(* mutant: the epoch cap is checked with > instead of >=                   *)
EpochCapReachedLate(u) == epochCounts[u] > MaxPerEpoch

EpochCapReached(u) == epochCounts[u] >= MaxPerEpoch

(* check_and_record(user, now_ms): the epoch cap first; then the window is *)
(* pruned (the pruning stays even when the call is then rejected) and the  *)
(* per-window cap checked; on success the timestamp is pushed and the      *)
(* epoch counter incremented.                                              *)
CheckAndRecord(u) ==
  LET w == Prune(windows[u], Cutoff(now)) IN
  /\ IF EpochCapReached(u)
     THEN /\ result' = "OrderFloodDetected"
          /\ UNCHANGED <<windows, epochCounts, log>>
     ELSE IF Len(w) >= MaxPerWindow
     THEN /\ result' = "RateLimitExceeded"
          /\ windows' = [windows EXCEPT ![u] = w]
          /\ UNCHANGED <<epochCounts, log>>
     ELSE /\ result' = "Ok"
          /\ windows' = [windows EXCEPT ![u] = Append(w, now)]
          /\ epochCounts' = [epochCounts EXCEPT ![u] = @ + 1]
          /\ log' = [log EXCEPT ![u] = Append(@, now)]
  /\ UNCHANGED now

(* reset_epoch: both maps cleared                                           *)
ResetEpoch ==
  /\ windows' = [u \in Users |-> <<>>]
  /\ epochCounts' = [u \in Users |-> 0]
  /\ log' = [u \in Users |-> <<>>]
  /\ UNCHANGED <<now, result>>

Tick ==
  /\ now < MaxTime
  /\ now' = now + 1
  /\ UNCHANGED <<windows, epochCounts, result, log>>

Next ==
  \/ \E u \in Users : CheckAndRecord(u)
  \/ ResetEpoch
  \/ Tick

Spec == Init /\ [][Next]_vars

-----------------------------------------------------------------------------
TypeOK ==
  /\ now \in 0..MaxTime
  /\ windows \in [Users -> Seq(0..MaxTime)]
  /\ epochCounts \in [Users -> 0..MaxPerEpoch]
  /\ result \in {"Ok", "OrderFloodDetected", "RateLimitExceeded"}
  /\ log \in [Users -> Seq(0..MaxTime)]

AcceptedIn(u, lo, hi) == {i \in DOMAIN log[u] : lo <= log[u][i] /\ log[u][i] <= hi}

(* The sliding window (spec section 4.7): within one epoch no user has     *)
(* more than max_per_window orders accepted in any window of window_ms     *)
(* milliseconds [t - window_ms, t], whatever the interleaving of calls and *)
(* clock ticks; the pruning keeps exactly the entries that can still count *)
(* against a later call.                                                   *)
WindowLimit ==
  \A u \in Users, t \in 0..now :
    Cardinality(AcceptedIn(u, t - WindowMs, t)) <= MaxPerWindow
====
