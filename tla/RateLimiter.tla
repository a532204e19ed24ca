---------------------------- MODULE RateLimiter ----------------------------
(***************************************************************************)
(* The fixed-window limiter in front of /api/auth/: one counter per client *)
(* key, a cap on the number of keys, and a collection that runs inside     *)
(* allow, at most once per GcEvery unless the table is half full.  allow   *)
(* holds the mutex throughout, so a call is one step.                      *)
(***************************************************************************)
EXTENDS Naturals, FiniteSets, Sequences

CONSTANTS Keys, Null,
          Limit,       \* hits allowed per window
          Window,      \* length of a window, in ticks
          GcEvery,     \* a minute, in ticks
          MaxKeys,     \* cap on tracked keys
          MaxTime,     \* bound on the clock, for model checking
          MaxHits      \* bound on a counter, for model checking

Time    == 0..MaxTime
Windows == [count : 1..MaxHits, start : Time]

ASSUME LimitAssumption ==
    /\ {Limit, Window, GcEvery, MaxKeys} \subseteq Nat \ {0}
    /\ {MaxTime, MaxHits} \subseteq Nat /\ MaxHits > Limit
ASSUME NullAssumption == Null \notin Windows

VARIABLES
    now,        \* the clock
    hits,       \* key -> its window, or Null
    lastGC,     \* time of the last collection
    granted,    \* history: key -> times of the calls allowed, in order
    refused     \* history: the key the last call refused to track, or Null

vars == <<now, hits, lastGC, granted, refused>>

Init ==
    /\ now = 0
    /\ hits = [k \in Keys |-> Null]
    /\ lastGC = 0
    /\ granted = [k \in Keys |-> <<>>]
    /\ refused = Null

Tracked(h) == {k \in Keys : h[k] # Null}

(* A definition marked "mutant of D" is D with a mistake in it, which the  *)
(* specification does not use; in the place of D it breaks a property.     *)

(* Mutant of Over: a tick early.                                           *)
OverEarly(w) == now - w.start >= Window - 1
Over(w)      == now - w.start >= Window

(* Mutant of GcDue: only the clock starts a collection.                    *)
GcByTime == now - lastGC >= GcEvery
GcDue    == now - lastGC >= GcEvery \/ Cardinality(Tracked(hits)) >= MaxKeys \div 2

Collected == [k \in Keys |-> IF GcDue /\ hits[k] # Null /\ Over(hits[k]) THEN Null ELSE hits[k]]

(* Mutants of Full and WithinLimit: off by one.                            *)
FullLate(h)        == Cardinality(Tracked(h)) > MaxKeys
WithinLimitLate(n) == n <= Limit + 1

Full(h)        == Cardinality(Tracked(h)) >= MaxKeys
WithinLimit(n) == n <= Limit

NewWindow == [count |-> 1, start |-> now]

Grant(k) == granted' = [granted EXCEPT ![k] = Append(@, now)]

Counting(k) == Collected[k] # Null /\ ~Over(Collected[k])

(* allow, for a key whose window is over or not there.                     *)
AllowNew(k) ==
    /\ ~Counting(k)
    /\ IF Collected[k] = Null /\ Full(Collected)
       THEN hits' = Collected /\ refused' = k /\ UNCHANGED granted
       ELSE /\ hits' = [Collected EXCEPT ![k] = NewWindow]
            /\ Grant(k) /\ refused' = Null
    /\ lastGC' = IF GcDue THEN now ELSE lastGC
    /\ UNCHANGED now

(* allow, within a window; a refused call counts too.                      *)
AllowAgain(k) ==
    /\ Counting(k) /\ Collected[k].count < MaxHits
    /\ hits' = [Collected EXCEPT ![k].count = @ + 1]
    /\ IF WithinLimit(Collected[k].count + 1) THEN Grant(k) ELSE UNCHANGED granted
    /\ refused' = Null
    /\ lastGC' = IF GcDue THEN now ELSE lastGC
    /\ UNCHANGED now

Tick ==
    /\ now < MaxTime
    /\ now' = now + 1
    /\ UNCHANGED <<hits, lastGC, granted, refused>>

Next == \/ \E k \in Keys : AllowNew(k) \/ AllowAgain(k)
        \/ Tick

Spec == Init /\ [][Next]_vars

----------------------------------------------------------------------------
(* Every variable stays within its type.                                   *)
TypeOK ==
    /\ now \in Time
    /\ hits \in [Keys -> Windows \cup {Null}]
    /\ \A k \in Tracked(hits) : hits[k].start <= now
    /\ lastGC \in 0..now
    /\ granted \in [Keys -> Seq(Time)]
    /\ refused \in Keys \cup {Null}

(* The table of windows does not outgrow its cap.                          *)
Bounded == Cardinality(Tracked(hits)) <= MaxKeys

(* No span as long as a window sees more than two windows' worth of calls, *)
(* collections and restarts of the counter notwithstanding: the call       *)
(* allowed 2 * Limit calls after another comes a window or more later.     *)
TwoWindows ==
    \A k \in Keys :
        LET g == granted[k] IN
        \A n \in 1..Len(g) : n + 2 * Limit <= Len(g) => g[n] + Window <= g[n + 2 * Limit]

(* A new client is turned away only while MaxKeys others have a window     *)
(* that is not over: windows that are over never keep anybody out.         *)
RefusedOnlyWhenFull ==
    [][refused' # Null /\ refused' # refused =>
         Cardinality({k \in Keys : hits[k] # Null /\ ~Over(hits[k])}) >= MaxKeys]_vars

(* A collection forgets no window that still counts.                       *)
LiveWindowsKept ==
    [][\A k \in Keys : hits[k] # Null /\ now - hits[k].start < Window =>
         hits'[k] # Null /\ hits'[k].start = hits[k].start]_vars

=============================================================================
