------------------------- MODULE RateLimiterProofs -------------------------
(* Proofs about RateLimiter, for every value of its constants: the table   *)
(* of windows, and how many calls of a client get through.                 *)
EXTENDS RateLimiter, FiniteSetTheorems, TLAPS

(* The table is finite, though the keys, taken from a header, need not be. *)
Inv == TypeOK /\ IsFiniteSet(Tracked(hits)) /\ Bounded

(* The constants as numbers.                                               *)
LEMMA Numbers ==
  /\ Limit \in Nat \ {0} /\ Window \in Nat \ {0} /\ GcEvery \in Nat \ {0}
  /\ MaxKeys \in Nat \ {0} /\ MaxTime \in Nat /\ MaxHits \in Nat /\ MaxHits > Limit
  BY LimitAssumption

(* What the collection leaves: windows as they were, and no others.        *)
LEMMA CollectedPart ==
  ASSUME Inv
  PROVE  /\ Collected \in [Keys -> Windows \cup {Null}]
         /\ \A k \in Keys : Collected[k] # Null => Collected[k] = hits[k]
         /\ Tracked(Collected) \subseteq Tracked(hits)
         /\ IsFiniteSet(Tracked(Collected))
         /\ Cardinality(Tracked(Collected)) <= MaxKeys
  <1>1. /\ Collected \in [Keys -> Windows \cup {Null}]
        /\ \A k \in Keys : Collected[k] # Null => Collected[k] = hits[k]
    BY DEF Collected, Inv, TypeOK
  <1>2. Tracked(Collected) \subseteq Tracked(hits)
    BY <1>1 DEF Tracked
  <1>3. /\ IsFiniteSet(Tracked(Collected))
        /\ Cardinality(Tracked(Collected)) <= Cardinality(Tracked(hits))
    BY <1>2, FS_Subset DEF Inv
  <1>4. Cardinality(Tracked(Collected)) \in Nat /\ Cardinality(Tracked(hits)) \in Nat
    BY <1>3, FS_CardinalityType DEF Inv
  <1> QED
    BY <1>1, <1>2, <1>3, <1>4, Numbers DEF Inv, Bounded

(* A window put in the table.                                              *)
LEMMA Put ==
  ASSUME Inv, NEW k \in Keys, NEW w \in Windows, hits' = [Collected EXCEPT ![k] = w],
         Collected[k] # Null \/ ~Full(Collected)
  PROVE  /\ hits' \in [Keys -> Windows \cup {Null}]
         /\ IsFiniteSet(Tracked(hits')) /\ Cardinality(Tracked(hits')) <= MaxKeys
  <1>1. hits' \in [Keys -> Windows \cup {Null}]
    BY CollectedPart
  <1>2. Tracked(hits') = Tracked(Collected) \cup {k}
    BY CollectedPart, NullAssumption DEF Tracked
  <1>3. CASE Collected[k] # Null
    <2>1. Tracked(hits') = Tracked(Collected)
      BY <1>2, <1>3 DEF Tracked
    <2> QED
      BY <1>1, <2>1, CollectedPart
  <1>4. CASE Collected[k] = Null
    <2>1. k \notin Tracked(Collected)
      BY <1>4 DEF Tracked
    <2>2. /\ IsFiniteSet(Tracked(hits'))
          /\ Cardinality(Tracked(hits')) = Cardinality(Tracked(Collected)) + 1
      <3> DEFINE S == Tracked(Collected)
      <3>1. IsFiniteSet(S) /\ k \notin S /\ Tracked(hits') = S \cup {k}
        BY <1>2, <2>1, CollectedPart
      <3> HIDE DEF S
      <3>2. IsFiniteSet(S \cup {k}) /\ Cardinality(S \cup {k}) = Cardinality(S) + 1
        BY <3>1, FS_AddElement
      <3> QED
        BY <3>1, <3>2 DEF S
    <2>3. Cardinality(Tracked(Collected)) < MaxKeys
      BY <1>4, CollectedPart, FS_CardinalityType, Numbers DEF Full
    <2> QED
      BY <1>1, <2>2, <2>3, CollectedPart, FS_CardinalityType, Numbers
  <1> QED
    BY <1>3, <1>4

(* The rest of the state.                                                  *)
LEMMA Rest ==
  ASSUME Inv, NEW k \in Keys, UNCHANGED now, lastGC' = IF GcDue THEN now ELSE lastGC,
         Grant(k) \/ UNCHANGED granted, refused' \in {k, Null}
  PROVE  /\ now' \in Time /\ lastGC' \in 0..now'
         /\ granted' \in [Keys -> Seq(Time)] /\ refused' \in Keys \cup {Null}
  <1>1. granted' \in [Keys -> Seq(Time)]
    <2>1. Append(granted[k], now) \in Seq(Time)
      BY DEF Inv, TypeOK
    <2> QED
      BY <2>1 DEF Grant, Inv, TypeOK
  <1> QED
    BY <1>1 DEF Inv, TypeOK, Time

LEMMA AllowNewInv ==
  ASSUME Inv, NEW k \in Keys, AllowNew(k)
  PROVE  Inv'
  <1>1. /\ now' \in Time /\ lastGC' \in 0..now'
        /\ granted' \in [Keys -> Seq(Time)] /\ refused' \in Keys \cup {Null}
    BY Rest DEF AllowNew
  <1>2. CASE hits' = Collected
    BY <1>1, <1>2, CollectedPart DEF AllowNew, Inv, TypeOK, Bounded, Tracked
  <1>3. CASE /\ hits' = [Collected EXCEPT ![k] = NewWindow]
             /\ ~(Collected[k] = Null /\ Full(Collected))
    <2>1. NewWindow \in Windows /\ NewWindow.start = now
      BY Numbers DEF NewWindow, Windows, Inv, TypeOK
    <2>2. /\ hits' \in [Keys -> Windows \cup {Null}]
          /\ IsFiniteSet(Tracked(hits')) /\ Cardinality(Tracked(hits')) <= MaxKeys
      BY <1>3, <2>1, Put
    <2>3. \A j \in Tracked(hits') : hits'[j].start <= now'
      BY <1>3, <2>1, CollectedPart DEF AllowNew, Tracked, Inv, TypeOK, Time
    <2> QED
      BY <1>1, <2>2, <2>3 DEF Inv, TypeOK, Bounded, Tracked
  <1> QED
    BY <1>2, <1>3 DEF AllowNew

LEMMA AllowAgainInv ==
  ASSUME Inv, NEW k \in Keys, AllowAgain(k)
  PROVE  Inv'
  <1> DEFINE w == [Collected[k] EXCEPT !.count = @ + 1]
  <1>1. /\ now' \in Time /\ lastGC' \in 0..now'
        /\ granted' \in [Keys -> Seq(Time)] /\ refused' \in Keys \cup {Null}
    BY Rest DEF AllowAgain
  <1>2. Collected[k] \in Windows /\ Collected[k].start <= now /\ Collected[k].count < MaxHits
    BY CollectedPart DEF AllowAgain, Counting, Inv, TypeOK, Tracked
  <1>3. w \in Windows /\ w.start = Collected[k].start
    BY <1>2, Numbers DEF Windows
  <1>4. hits' = [Collected EXCEPT ![k] = w]
    BY CollectedPart DEF AllowAgain
  <1> HIDE DEF w
  <1>5. /\ hits' \in [Keys -> Windows \cup {Null}]
        /\ IsFiniteSet(Tracked(hits')) /\ Cardinality(Tracked(hits')) <= MaxKeys
    BY <1>3, <1>4, Put DEF AllowAgain, Counting
  <1>6. \A j \in Tracked(hits') : hits'[j].start <= now'
    BY <1>2, <1>3, <1>4, CollectedPart DEF AllowAgain, Tracked, Inv, TypeOK
  <1> QED
    BY <1>1, <1>5, <1>6 DEF Inv, TypeOK, Bounded, Tracked

LEMMA TickInv ==
  ASSUME Inv, Tick
  PROVE  Inv'
  <1>1. now' \in Time /\ now' = now + 1 /\ now \in Nat
    BY Numbers DEF Tick, Inv, TypeOK, Time
  <1>2. \A j \in Tracked(hits) : hits[j].start \in Nat
    BY DEF Tracked, Inv, TypeOK, Windows, Time
  <1>3. \A j \in Tracked(hits) : hits[j].start <= now'
    BY <1>1, <1>2 DEF Inv, TypeOK
  <1>4. lastGC \in 0..now'
    BY <1>1 DEF Inv, TypeOK
  <1> QED
    BY <1>1, <1>3, <1>4 DEF Tick, Inv, TypeOK, Bounded, Tracked

(* The invariant holds throughout.                                         *)
LEMMA Invariance == Spec => []Inv
  <1>1. Init => Inv
    <2> SUFFICES ASSUME Init
                 PROVE  Inv
      OBVIOUS
    <2>1. Tracked(hits) = {}
      BY DEF Init, Tracked
    <2>2. TypeOK
      BY <2>1, Numbers DEF Init, TypeOK, Time
    <2> QED
      BY <2>1, <2>2, FS_EmptySet, Numbers DEF Inv, Bounded
  <1>2. Inv /\ [Next]_vars => Inv'
    BY AllowNewInv, AllowAgainInv, TickInv DEF Next, vars, Inv, TypeOK, Bounded, Tracked
  <1> QED
    BY <1>1, <1>2, PTL DEF Spec

(* The table of windows does not outgrow its cap, whatever keys call.      *)
THEOREM TableBounded == Spec => []Bounded
  <1>1. Inv => Bounded
    BY DEF Inv
  <1> QED
    BY <1>1, Invariance, PTL

(* Every variable stays within its type.                                   *)
THEOREM TypeCorrect == Spec => []TypeOK
  <1>1. Inv => TypeOK
    BY DEF Inv
  <1> QED
    BY <1>1, Invariance, PTL

(* A new client is turned away only while MaxKeys others count: a full     *)
(* table has just been collected, as half of it is enough for that.        *)
THEOREM TurnedAwayOnlyWhenFull == Spec => RefusedOnlyWhenFull
  <1> DEFINE counting == {k \in Keys : hits[k] # Null /\ ~Over(hits[k])}
  <1>1. ASSUME Inv, NEW k \in Keys, AllowNew(k), refused' # Null, refused' # refused
        PROVE  Cardinality(counting) >= MaxKeys
    <2>1. Full(Collected)
      BY <1>1 DEF AllowNew
    <2>2. Cardinality(Tracked(Collected)) >= MaxKeys /\ Cardinality(Tracked(Collected)) \in Nat
      BY <1>1, <2>1, CollectedPart, FS_CardinalityType DEF Full
    <2>3. Cardinality(Tracked(hits)) >= MaxKeys /\ Cardinality(Tracked(hits)) \in Nat
      BY <1>1, <2>2, CollectedPart, FS_Subset, FS_CardinalityType, Numbers DEF Inv
    <2>4. MaxKeys \div 2 <= MaxKeys /\ MaxKeys \div 2 \in Nat
      BY Numbers
    <2>5. GcDue
      BY <2>3, <2>4, Numbers DEF GcDue
    <2>6. Tracked(Collected) = counting
      BY <2>5 DEF Tracked, Collected
    <2> QED
      BY <2>2, <2>6
  <1>2. ASSUME [Next]_vars, \A k \in Keys : ~AllowNew(k)
        PROVE  refused' = Null \/ refused' = refused
    BY <1>2 DEF Next, vars, AllowAgain, Tick
  <1>3. Inv /\ [Next]_vars =>
          (refused' # Null /\ refused' # refused => Cardinality(counting) >= MaxKeys)
    <2> HIDE DEF counting
    <2> QED
      BY <1>1, <1>2
  <1> QED
    BY <1>3, Invariance, PTL DEF Spec, RefusedOnlyWhenFull

(* A collection forgets no window that still counts: the limit is not reset*)
(* by other clients filling the table.                                     *)
THEOREM LiveWindowsStay == Spec => LiveWindowsKept
  <1> DEFINE Kept == \A k \in Keys : hits[k] # Null /\ now - hits[k].start < Window =>
                       hits'[k] # Null /\ hits'[k].start = hits[k].start
  <1>1. ASSUME Inv, NEW k \in Keys, hits[k] # Null, now - hits[k].start < Window
        PROVE  hits[k] \in Windows /\ ~Over(hits[k]) /\ Collected[k] = hits[k]
    <2>1. hits[k] \in Windows /\ hits[k].start \in Int /\ now \in Int
      BY <1>1 DEF Inv, TypeOK, Windows, Time
    <2>2. ~Over(hits[k])
      BY <1>1, <2>1, Numbers DEF Over
    <2> QED
      BY <2>1, <2>2 DEF Collected
  <1>2. ASSUME Inv, NEW j \in Keys, AllowNew(j)
        PROVE  Kept
    BY <1>1, <1>2, CollectedPart DEF AllowNew, Counting
  <1>3. ASSUME Inv, NEW j \in Keys, AllowAgain(j)
        PROVE  Kept
    <2>1. Collected[j] \in Windows
      BY <1>3, CollectedPart DEF AllowAgain, Counting
    <2>2. [Collected[j] EXCEPT !.count = @ + 1].start = Collected[j].start
      BY <2>1 DEF Windows
    <2>3. [Collected[j] EXCEPT !.count = @ + 1] # Null
      <3>1. [Collected[j] EXCEPT !.count = @ + 1] \in Windows
        BY <1>3, <2>1, Numbers DEF Windows, AllowAgain
      <3> QED
        BY <3>1, NullAssumption
    <2> QED
      BY <1>1, <1>3, <2>2, <2>3, CollectedPart DEF AllowAgain
  <1>4. Inv /\ [Next]_vars => Kept
    BY <1>2, <1>3 DEF Next, vars, Tick
  <1> QED
    BY <1>4, Invariance, PTL DEF Spec, LiveWindowsKept

----------------------------------------------------------------------------
(* How many calls of a client get through.                                 *)

(* Calls of the present window that were allowed.                          *)
Passed(w) == IF w.count <= Limit THEN w.count ELSE Limit

(* What window w of a client says of its calls allowed so far, g: none but *)
(* those of the window came after its start, and of those before the       *)
(* window only Limit may be less than a window older than its start.       *)
Recent(w, g) ==
    /\ Passed(w) <= Len(g)
    /\ \A j \in 1..Len(g) : j <= Len(g) - Passed(w) => g[j] <= w.start
    /\ \A j \in 1..Len(g) : j <= Len(g) - Passed(w) - Limit => g[j] + Window <= w.start

(* A client without a window: only Limit calls are less than a window old. *)
Past(g, t) == \A j \in 1..Len(g) : j <= Len(g) - Limit => g[j] + Window <= t

Spread(g) == \A n \in 1..Len(g) : n + 2 * Limit <= Len(g) => g[n] + Window <= g[n + 2 * Limit]

Counted(w, g, t) ==
    /\ \A j \in 1..Len(g) : g[j] <= t
    /\ w # Null => Recent(w, g)
    /\ w = Null => Past(g, t)
    /\ Spread(g)

CountedInv == \A k \in Keys : Counted(hits[k], granted[k], now)

(* A window that is over says what no window says.                         *)
LEMMA OverIsPast ==
  ASSUME NEW w \in Windows, NEW g \in Seq(Time), NEW t \in Time, Counted(w, g, t),
         w.start <= t, t - w.start >= Window
  PROVE  Past(g, t)
  <1>1. w # Null /\ w.start \in Nat /\ w.count \in Nat /\ t \in Nat
    BY NullAssumption, Numbers DEF Windows, Time
  <1>2. Passed(w) \in Nat /\ Passed(w) <= Limit
    BY <1>1, Numbers DEF Passed
  <1>3. ASSUME NEW j \in 1..Len(g), j <= Len(g) - Limit
        PROVE  g[j] + Window <= t
    <2>1. g[j] \in Nat /\ Len(g) \in Nat
      BY <1>3, Numbers DEF Time
    <2>2. j <= Len(g) - Passed(w)
      BY <1>2, <1>3, <2>1, Numbers
    <2>3. g[j] <= w.start
      BY <1>1, <2>2 DEF Counted, Recent
    <2> QED
      BY <1>1, <2>1, <2>3, Numbers
  <1> QED
    BY <1>3 DEF Past

(* One more call allowed, at time t: the one 2 * Limit before it is old.   *)
LEMMA SpreadOn ==
  ASSUME NEW g \in Seq(Time), NEW t \in Time, Spread(g),
         \A j \in 1..Len(g) : j <= Len(g) + 1 - 2 * Limit => g[j] + Window <= t
  PROVE  Spread(Append(g, t))
  <1> DEFINE e == Append(g, t)
  <1>1. Len(e) = Len(g) + 1 /\ e[Len(g) + 1] = t /\ Len(g) \in Nat
        /\ \A j \in 1..Len(g) : e[j] = g[j]
    OBVIOUS
  <1>2. ASSUME NEW n \in 1..Len(e), n + 2 * Limit <= Len(e)
        PROVE  e[n] + Window <= e[n + 2 * Limit]
    <2>1. n \in 1..Len(g) /\ n <= Len(g) + 1 - 2 * Limit
      BY <1>1, <1>2, Numbers
    <2>2. CASE n + 2 * Limit = Len(g) + 1
      BY <1>1, <2>1, <2>2
    <2>3. CASE n + 2 * Limit <= Len(g)
      BY <1>1, <2>1, <2>3, Numbers DEF Spread
    <2> QED
      BY <1>1, <1>2, <2>1, <2>2, <2>3, Numbers
  <1> QED
    BY <1>2 DEF Spread

(* A window opens with a call allowed.                                     *)
LEMMA Opened ==
  ASSUME NEW g \in Seq(Time), NEW t \in Time, NEW w \in Windows, w.count = 1, w.start = t,
         \A j \in 1..Len(g) : g[j] <= t, Spread(g), Past(g, t)
  PROVE  Counted(w, Append(g, t), t)
  <1> DEFINE e == Append(g, t)
  <1>1. Len(e) = Len(g) + 1 /\ e[Len(g) + 1] = t /\ Len(g) \in Nat /\ t \in Nat
        /\ \A j \in 1..Len(g) : e[j] = g[j]
    BY DEF Time
  <1>2. Passed(w) = 1
    BY Numbers DEF Passed
  <1>3. \A j \in 1..Len(e) : j \in 1..Len(g) \/ j = Len(g) + 1
    BY <1>1
  <1>4. Recent(w, e)
    <2>1. \A j \in 1..Len(e) : j <= Len(e) - 1 => e[j] <= t
      BY <1>1, <1>3
    <2>2. \A j \in 1..Len(e) : j <= Len(e) - 1 - Limit => e[j] + Window <= t
      BY <1>1, <1>3, Numbers DEF Past
    <2> QED
      BY <1>1, <1>2, <2>1, <2>2 DEF Recent
  <1>5. \A j \in 1..Len(g) : j <= Len(g) + 1 - 2 * Limit => g[j] + Window <= t
    BY <1>1, Numbers DEF Past
  <1>6. Spread(e)
    BY <1>5, SpreadOn
  <1>7. \A j \in 1..Len(e) : e[j] <= t
    BY <1>1, <1>3
  <1> QED
    BY <1>4, <1>6, <1>7, NullAssumption DEF Counted

(* A window counts one more call, allowed within the limit.                *)
LEMMA Again ==
  ASSUME NEW g \in Seq(Time), NEW t \in Time, NEW w \in Windows, NEW x \in Windows,
         x.count = w.count + 1, x.start = w.start, w.start <= t, Counted(w, g, t)
  PROVE  Counted(x, IF WithinLimit(x.count) THEN Append(g, t) ELSE g, t)
  <1> DEFINE e == Append(g, t)
  <1>1. Len(e) = Len(g) + 1 /\ e[Len(g) + 1] = t /\ Len(g) \in Nat /\ t \in Nat
        /\ \A j \in 1..Len(g) : e[j] = g[j] /\ g[j] \in Nat
    BY Numbers DEF Time
  <1>2. w.count \in Nat \ {0} /\ w.start \in Nat /\ w # Null /\ x # Null
    BY NullAssumption, Numbers DEF Windows, Time
  <1>3. /\ Recent(w, g) /\ Spread(g)
        /\ \A j \in 1..Len(g) : g[j] <= t
    BY <1>2 DEF Counted
  <1>4. \A j \in 1..Len(e) : j \in 1..Len(g) \/ j = Len(g) + 1
    BY <1>1
  <1>5. CASE WithinLimit(x.count)
    <2>1. Passed(w) = w.count /\ Passed(x) = w.count + 1 /\ w.count + 1 <= Limit
      BY <1>2, <1>5, Numbers DEF Passed, WithinLimit
    <2>2. Len(e) - Passed(x) = Len(g) - Passed(w) /\ Passed(x) <= Len(e)
      BY <1>1, <1>2, <1>3, <2>1 DEF Recent
    <2>3. \A j \in 1..Len(e) : j <= Len(g) - Passed(w) => j \in 1..Len(g)
      BY <1>1, <1>2, <2>1
    <2>4. Recent(x, e)
      <3>1. \A j \in 1..Len(e) : j <= Len(e) - Passed(x) => e[j] <= x.start
        BY <1>1, <1>3, <2>2, <2>3 DEF Recent
      <3>2. \A j \in 1..Len(e) : j <= Len(e) - Passed(x) - Limit => j <= Len(g) - Passed(w)
        BY <1>1, <1>2, <2>1, Numbers
      <3>3. \A j \in 1..Len(e) : j <= Len(e) - Passed(x) - Limit => e[j] + Window <= x.start
        BY <1>1, <1>3, <2>2, <2>3, <3>2 DEF Recent
      <3> QED
        BY <2>2, <3>1, <3>3 DEF Recent
    <2>5. \A j \in 1..Len(g) : j <= Len(g) + 1 - 2 * Limit => g[j] + Window <= t
      <3>1. \A j \in 1..Len(g) : j <= Len(g) + 1 - 2 * Limit => j <= Len(g) - Passed(w) - Limit
        BY <1>1, <1>2, <2>1, Numbers
      <3>2. \A j \in 1..Len(g) : j <= Len(g) + 1 - 2 * Limit => g[j] + Window <= w.start
        BY <1>3, <3>1 DEF Recent
      <3> QED
        BY <1>1, <1>2, <3>2, Numbers
    <2>6. Spread(e)
      BY <1>3, <2>5, SpreadOn
    <2>7. \A j \in 1..Len(e) : e[j] <= t
      BY <1>1, <1>3, <1>4
    <2> QED
      BY <1>2, <1>5, <2>4, <2>6, <2>7 DEF Counted
  <1>6. CASE ~WithinLimit(x.count)
    <2>1. Passed(x) = Limit /\ Passed(w) = Limit
      BY <1>2, <1>6, Numbers DEF Passed, WithinLimit
    <2>2. Recent(x, g)
      BY <1>3, <2>1 DEF Recent
    <2> QED
      BY <1>2, <1>3, <1>6, <2>2 DEF Counted
  <1> QED
    BY <1>5, <1>6

(* What a collection leaves of a client's window still says so.            *)
LEMMA CollectedCounted ==
  ASSUME Inv, CountedInv, NEW k \in Keys
  PROVE  /\ Counted(Collected[k], granted[k], now) /\ granted[k] \in Seq(Time) /\ now \in Time
         /\ Collected[k] # Null => Collected[k] \in Windows /\ Collected[k].start <= now
         /\ Collected[k] # Null /\ Over(Collected[k]) => Past(granted[k], now)
  <1>1. granted[k] \in Seq(Time) /\ now \in Time /\ Counted(hits[k], granted[k], now)
    BY DEF Inv, TypeOK, CountedInv
  <1>2. hits[k] # Null => hits[k] \in Windows /\ hits[k].start <= now
    BY DEF Inv, TypeOK, Tracked
  <1>3. hits[k] # Null /\ Over(hits[k]) => Past(granted[k], now)
    BY <1>1, <1>2, OverIsPast DEF Over
  <1>4. Collected[k] = IF GcDue /\ hits[k] # Null /\ Over(hits[k]) THEN Null ELSE hits[k]
    BY DEF Collected
  <1>5. CASE Collected[k] = hits[k]
    BY <1>1, <1>2, <1>3, <1>5
  <1>6. CASE Collected[k] = Null /\ hits[k] # Null /\ Over(hits[k])
    BY <1>1, <1>3, <1>6 DEF Counted
  <1> QED
    BY <1>4, <1>5, <1>6

LEMMA AllowNewCounted ==
  ASSUME Inv, CountedInv, NEW k \in Keys, AllowNew(k)
  PROVE  CountedInv'
  <1>1. now' = now /\ \A j \in Keys : Counted(Collected[j], granted[j], now)
    BY CollectedCounted DEF AllowNew
  <1>2. CASE hits' = Collected /\ UNCHANGED granted
    BY <1>1, <1>2 DEF CountedInv
  <1>3. CASE hits' = [Collected EXCEPT ![k] = NewWindow] /\ Grant(k)
    <2>1. NewWindow \in Windows /\ NewWindow.count = 1 /\ NewWindow.start = now
      BY Numbers DEF NewWindow, Windows, Inv, TypeOK
    <2>2. Past(granted[k], now)
      BY CollectedCounted DEF AllowNew, Counting, Counted
    <2>3. \A j \in 1..Len(granted[k]) : granted[k][j] <= now
      BY <1>1 DEF Counted
    <2>4. Spread(granted[k]) /\ granted[k] \in Seq(Time) /\ now \in Time
      BY <1>1, CollectedCounted DEF Counted
    <2>5. Counted(NewWindow, Append(granted[k], now), now)
      BY <2>1, <2>2, <2>3, <2>4, Opened
    <2>6. /\ hits'[k] = NewWindow /\ granted'[k] = Append(granted[k], now)
          /\ \A j \in Keys \ {k} : hits'[j] = Collected[j] /\ granted'[j] = granted[j]
      BY <1>3, CollectedPart DEF Grant, Inv, TypeOK
    <2> QED
      BY <1>1, <2>5, <2>6 DEF CountedInv
  <1> QED
    BY <1>2, <1>3 DEF AllowNew

LEMMA AllowAgainCounted ==
  ASSUME Inv, CountedInv, NEW k \in Keys, AllowAgain(k)
  PROVE  CountedInv'
  <1> DEFINE w == Collected[k]
             x == [w EXCEPT !.count = @ + 1]
  <1>1. now' = now /\ \A j \in Keys : Counted(Collected[j], granted[j], now)
    BY CollectedCounted DEF AllowAgain
  <1>2. w \in Windows /\ w.start <= now /\ w.count < MaxHits
    BY CollectedCounted DEF AllowAgain, Counting
  <1>3. x \in Windows /\ x.count = w.count + 1 /\ x.start = w.start
    BY <1>2, Numbers DEF Windows
  <1>4. /\ hits' = [Collected EXCEPT ![k] = x]
        /\ IF WithinLimit(x.count) THEN Grant(k) ELSE UNCHANGED granted
    BY <1>3, CollectedPart DEF AllowAgain
  <1> HIDE DEF w, x
  <1>5. Counted(x, IF WithinLimit(x.count) THEN Append(granted[k], now) ELSE granted[k], now)
    BY <1>1, <1>2, <1>3, CollectedCounted, Again DEF w
  <1>6. /\ hits'[k] = x
        /\ granted'[k] = IF WithinLimit(x.count) THEN Append(granted[k], now) ELSE granted[k]
        /\ \A j \in Keys \ {k} : hits'[j] = Collected[j] /\ granted'[j] = granted[j]
    BY <1>4, CollectedPart DEF Grant, Inv, TypeOK
  <1> QED
    BY <1>1, <1>5, <1>6 DEF CountedInv

LEMMA TickCounted ==
  ASSUME Inv, CountedInv, Tick
  PROVE  CountedInv'
  <1>1. now' = now + 1 /\ now \in Nat /\ UNCHANGED <<hits, granted>>
    BY Numbers DEF Tick, Inv, TypeOK, Time
  <1>2. ASSUME NEW k \in Keys
        PROVE  Counted(hits[k], granted[k], now + 1)
    <2>1. Counted(hits[k], granted[k], now) /\ granted[k] \in Seq(Time)
      BY DEF CountedInv, Inv, TypeOK
    <2>2. \A j \in 1..Len(granted[k]) : granted[k][j] \in Nat
      BY <2>1, Numbers DEF Time
    <2>3. \A j \in 1..Len(granted[k]) : granted[k][j] <= now + 1
      <3>1. \A j \in 1..Len(granted[k]) : granted[k][j] <= now
        BY <2>1 DEF Counted
      <3> QED
        BY <1>1, <2>2, <3>1
    <2>4. Past(granted[k], now) => Past(granted[k], now + 1)
      <3> DEFINE g == granted[k]
      <3> SUFFICES ASSUME Past(g, now), NEW j \in 1..Len(g), j <= Len(g) - Limit
                   PROVE  g[j] + Window <= now + 1
        BY DEF Past
      <3>1. g[j] + Window <= now
        BY DEF Past
      <3> QED
        BY <1>1, <2>2, <3>1, Numbers
    <2> QED
      BY <2>1, <2>3, <2>4 DEF Counted
  <1> QED
    BY <1>1, <1>2 DEF CountedInv

(* However the windows of a client fall, and whatever the collection does  *)
(* in between, no span of a window's length lets more than twice the limit *)
(* of its calls through.                                                   *)
THEOREM TwiceTheLimit == Spec => []TwoWindows
  <1>1. Init => CountedInv
    BY NullAssumption DEF Init, CountedInv, Counted, Past, Spread
  <1>2. Inv /\ CountedInv /\ [Next]_vars => CountedInv'
    <2> SUFFICES ASSUME Inv, CountedInv, [Next]_vars
                 PROVE  CountedInv'
      OBVIOUS
    <2>1. UNCHANGED vars => CountedInv'
      BY DEF vars, CountedInv
    <2> QED
      BY <2>1, AllowNewCounted, AllowAgainCounted, TickCounted DEF Next
  <1>3. CountedInv => TwoWindows
    BY DEF CountedInv, Counted, Spread, TwoWindows
  <1> QED
    BY <1>1, <1>2, <1>3, Invariance, PTL DEF Spec

=============================================================================
