----------------------------- MODULE BurstPool -----------------------------
(***************************************************************************)
(* NodeBurstPool (batch_sim/scheduler/burst_pool.py): the pool of burst    *)
(* RAM of one node.  A job claims its burst before its preprocess phase    *)
(* and gives it back afterwards; a job whose burst does not fit waits, and *)
(* release() hands the freed room to the waiters that now fit.             *)
(*                                                                         *)
(* Jobs are numbered in the order they were submitted.  RAM is counted in  *)
(* whole units; only sums and comparisons of amounts matter.               *)
(***************************************************************************)
EXTENDS Totals, SequencesExt

CONSTANTS
  NumJobs,     \* the jobs placed on the node are 1..NumJobs
  Burst,       \* Burst[j]: what job j asks of the pool
  Reservation  \* the tier's spike_max_gb, the capacity of a fixed pool

Jobs == 1..NumJobs

ASSUME PoolAssumption ==
  /\ NumJobs \in Nat
  /\ Burst \in [Jobs -> Nat]
  /\ Reservation \in Nat

VARIABLES
  fixed,     \* _fixed_headroom: the pool was built with a headroom
  headroom,  \* _headroom
  in_use,    \* _in_use
  waiters,   \* _waiters, as the jobs that wait in it
  at         \* at[j]: where job j's process stands with the pool

poolVars == <<fixed, headroom, in_use, waiters, at>>

(* "placed" on the node; "outside": not placed yet; "waiting" at the yield *)
(* of acquire; "woken": release made the claim, the process has not run    *)
(* again yet; "holding" a claim; "returned" it.                            *)
Stages == {"outside", "placed", "waiting", "woken", "holding", "returned"}

(* The types of the variables; _in_use never turns negative.               *)
PoolTypeOK ==
  /\ fixed \in BOOLEAN
  /\ headroom \in Nat
  /\ in_use \in Nat
  /\ waiters \in Seq(Jobs)
  /\ at \in [Jobs -> Stages]

(* __init__: a fixed pool has its reservation, a legacy one starts empty.  *)
PoolInit ==
  /\ fixed \in BOOLEAN
  /\ headroom = IF fixed THEN Reservation ELSE 0
  /\ in_use = 0
  /\ waiters = <<>>
  /\ at = [j \in Jobs |-> "outside"]

-----------------------------------------------------------------------------
Fits(used, j) == used + Burst[j] <= headroom

(* update_max_peak, called when job j is placed: a legacy pool grows to    *)
(* the largest burst placed so far, and wakes nobody; a fixed pool ignores *)
(* the call.                                                               *)
UpdateMaxPeak(j) ==
  /\ at[j] = "outside"
  /\ headroom' = IF fixed \/ Burst[j] <= headroom THEN headroom ELSE Burst[j]
  /\ at' = [at EXCEPT ![j] = "placed"]
  /\ UNCHANGED <<fixed, in_use, waiters>>

(* acquire, up to its return or its yield.                                 *)
Acquire(j) ==
  /\ at[j] = "placed"
  /\ \/ /\ Fits(in_use, j)
        /\ in_use' = in_use + Burst[j]
        /\ at' = [at EXCEPT ![j] = "holding"]
        /\ UNCHANGED waiters
     \/ /\ ~Fits(in_use, j)
        /\ waiters' = Append(waiters, j)
        /\ at' = [at EXCEPT ![j] = "waiting"]
        /\ UNCHANGED in_use
  /\ UNCHANGED <<fixed, headroom>>

(* Mutant: the woken path claims like the other one.                       *)
ResumeClaimsAgain(j) ==
  /\ at[j] = "woken"
  /\ in_use' = in_use + Burst[j]
  /\ at' = [at EXCEPT ![j] = "holding"]
  /\ UNCHANGED <<fixed, headroom, waiters>>

(* The event of a woken waiter is processed: acquire returns without       *)
(* claiming again.                                                         *)
Resume(j) ==
  /\ at[j] = "woken"
  /\ at' = [at EXCEPT ![j] = "holding"]
  /\ UNCHANGED <<fixed, headroom, in_use, waiters>>

(* _in_use after job j's burst is given back, before any waiter is woken.  *)
AfterReturn(j) == IF in_use >= Burst[j] THEN in_use - Burst[j] ELSE 0

(* Mutant: release stops at the first waiter that does not fit.            *)
ScanStopsAtFirst(used, ws) ==
  LET scan[i \in 0..Len(ws)] ==
        IF i = 0 THEN [used |-> used, remaining |-> <<>>]
        ELSE IF scan[i-1].remaining = <<>> /\ Fits(scan[i-1].used, ws[i])
             THEN [scan[i-1] EXCEPT !.used = @ + Burst[ws[i]]]
             ELSE [scan[i-1] EXCEPT !.remaining = Append(@, ws[i])]
  IN  scan

(* Mutant: release serves the waiter that came last first.                 *)
ScanFromBack(used, ws) ==
  LET n == Len(ws)
      scan[i \in 0..n] ==
        IF i = 0 THEN [used |-> used, remaining |-> <<>>]
        ELSE LET j == ws[n + 1 - i]
             IN  IF Fits(scan[i-1].used, j)
                 THEN [scan[i-1] EXCEPT !.used = @ + Burst[j]]
                 ELSE [scan[i-1] EXCEPT !.remaining = <<j>> \o @]
  IN  scan

(* Mutant: release wakes nobody.                                           *)
ScanWakesNone(used, ws) ==
  [i \in 0..Len(ws) |-> [used |-> used, remaining |-> SubSeq(ws, 1, i)]]

(* The loop of release over the waiters, first come first, from used:      *)
(* what is claimed, and who still waits, after the first i waiters.        *)
Scan(used, ws) ==
  LET scan[i \in 0..Len(ws)] ==
        IF i = 0 THEN [used |-> used, remaining |-> <<>>]
        ELSE IF Fits(scan[i-1].used, ws[i])
             THEN [used      |-> scan[i-1].used + Burst[ws[i]],
                   remaining |-> scan[i-1].remaining]
             ELSE [used      |-> scan[i-1].used,
                   remaining |-> Append(scan[i-1].remaining, ws[i])]
  IN  scan

(* release: the waiters that fit leave the queue with their claim made.    *)
Release(j) ==
  /\ at[j] = "holding"
  /\ LET after == Scan(AfterReturn(j), waiters)[Len(waiters)]
         woken == ToSet(waiters) \ ToSet(after.remaining)
     IN  /\ in_use' = after.used
         /\ waiters' = after.remaining
         /\ at' = [k \in Jobs |-> IF k = j THEN "returned"
                                  ELSE IF k \in woken THEN "woken" ELSE at[k]]
  /\ UNCHANGED <<fixed, headroom>>

PoolNext == \E j \in Jobs : UpdateMaxPeak(j) \/ Acquire(j) \/ Resume(j) \/ Release(j)

(* simpy processes every event it has scheduled, and the preprocess        *)
(* timeout of a job is one: a claim is always given back.  That a placed   *)
(* job reaches its preprocess phase is its node's business (PlusNode).     *)
PoolFairness ==
  \A j \in Jobs : WF_poolVars(Acquire(j)) /\ WF_poolVars(Resume(j)) /\ WF_poolVars(Release(j))

PoolSpec == PoolInit /\ [][PoolNext]_poolVars

FairPoolSpec == PoolSpec /\ PoolFairness

-----------------------------------------------------------------------------
(* What job j holds of the pool: a claim counts from the moment release    *)
(* makes it, before the job's process runs again.                          *)
Claim == [j \in Jobs |-> IF at[j] \in {"woken", "holding"} THEN Burst[j] ELSE 0]

(* The pool's counter is the sum of the claims, so no claim is counted     *)
(* twice (a woken waiter must not claim again) or lost, and the claims     *)
(* never exceed the headroom: burst_pool.py:82-109.                        *)
ClaimsWithinHeadroom ==
  /\ in_use = Total(Claim, NumJobs)
  /\ in_use <= headroom

(* No lost wake-up: a process suspended in acquire is in the queue that    *)
(* release scans, and in a fixed pool it never waits for room that is      *)
(* there.  (A legacy pool may grow without waking anybody.)                *)
NoLostWakeup ==
  \A j \in Jobs : at[j] = "waiting" =>
    /\ j \in ToSet(waiters)
    /\ fixed => ~Fits(in_use, j)

(* release may let a waiter overtake an earlier one only because it asks   *)
(* for less: who is woken leaves nobody behind that came before and asks   *)
(* for no more (the FIFO loop of burst_pool.py:101-109).                   *)
NoUnfairOvertaking ==
  [][\A a, b \in 1..Len(waiters) :
       /\ a < b
       /\ Burst[waiters[a]] <= Burst[waiters[b]]
       /\ at'[waiters[b]] = "woken"
       => at'[waiters[a]] = "woken"]_poolVars

(* Every job whose burst fits the pool at all gets through it, waiting or  *)
(* not, although acquire may let later jobs pass it.                       *)
EveryBurstServed ==
  \A j \in Jobs : (at[j] # "outside" /\ Burst[j] <= headroom) ~> (at[j] = "returned")
=============================================================================
