-------------------------- MODULE LookupCacheProofs --------------------------
(***************************************************************************)
(* Theorems about LookupCache, for any finite set of threads and any       *)
(* ranges, contents, sizes and cap: the cap holds, at most one thread      *)
(* builds the index of a range, no flight is left behind, an index that is *)
(* handed out is the one in the cache, and an edit invalidates it.         *)
(*                                                                         *)
(* The inductive invariant ties the map of flights to the threads that     *)
(* hold them: a flight whose outcome is not set is in the map under the    *)
(* range of all its holders, so nobody can start a second one beside it.   *)
(***************************************************************************)
EXTENDS LookupCache, FiniteSetTheorems, TLAPS

\* A call has a range, a thread in single_flight a flight.
CallsOK ==
  \A t \in Threads :
    /\ pc[t] = "idle" <=> range[t] = None
    /\ pc[t] \in Flying <=> joined[t] # None
    /\ pc[t] # "idle" => evaluating

\* Who shares a flight asks for the same range; a free flight is empty.
FlightsOK ==
  /\ \A t, u \in Threads : joined[t] # None /\ joined[t] = joined[u] => range[t] = range[u]
  /\ \A f \in Flights : f \notin Held => flight[f] = EmptyCell
  /\ \A f \in Flights : flight[f].state # "set" => flight[f].outcome = None

\* A flight that is not set is in the map.
MapOK ==
  \A t \in Threads :
    joined[t] # None /\ flight[joined[t]].state # "set" => in_flight[range[t]] = joined[t]

\* One thread runs the initialiser; when it is done the outcome is set.
OnceOK ==
  /\ \A t \in Threads : pc[t] \in Building => flight[joined[t]].state = "running"
  /\ \A t \in Threads : pc[t] = "leave" => flight[joined[t]].state = "set"
  /\ \A t, u \in Threads :
       pc[t] \in Building /\ pc[u] \in Building /\ joined[t] = joined[u] => t = u

\* One entry per range, of this snapshot.
EntriesOK ==
  /\ \A e \in inner : e.snapshot = snapshot
  /\ \A e, g \in inner : e.range = g.range => e = g

\* A builder that went past the recheck has the range to itself.
BuildersOK ==
  \A t \in Threads :
    /\ pc[t] \in {"volatile", "build", "insert"} => Found(range[t]) = {}
    /\ pc[t] = "insert" => index[t] = data[range[t]] /\ index[t] # None
    /\ pc[t] \in {"build", "insert"} => range[t] \notin Volatile

\* What a set flight or a thread on its way out carries is in the cache.
OutcomesOK ==
  /\ \A t \in Threads :
       joined[t] # None /\ flight[joined[t]].outcome # None =>
         \E e \in Found(range[t]) : e.content = flight[joined[t]].outcome
  /\ IndexIsCached

\* Entries of ranges that only edits change say what the range holds.
ContentOK ==
  \A e \in inner : e.range \notin Volatile
                   /\ (e.range \notin Recomputed => e.content = data[e.range])

\* The inductive invariant.
IInv ==
  /\ TypeOK
  /\ CallsOK
  /\ FlightsOK
  /\ MapOK
  /\ OnceOK
  /\ NoFlightLeaks
  /\ EntriesOK
  /\ BuildersOK
  /\ OutcomesOK
  /\ ContentOK
  /\ CapHolds

-----------------------------------------------------------------------------
\* A thread that joins finds a free flight: there are as many as threads and
\* it holds none itself.
LEMMA FreeFlight ==
  ASSUME TypeOK, NEW t \in Threads, joined[t] = None
  PROVE  \E g \in Flights : g \notin Held
<1> DEFINE U == {u \in Threads : joined[u] # None}
           f == [u \in U |-> joined[u]]
<1>1. SUFFICES ASSUME \A g \in Flights : g \in Held PROVE FALSE
  OBVIOUS
<1>2. Held \subseteq Threads
  BY DEF TypeOK, Held, Flights
<1>3. Held = Threads
  BY <1>1, <1>2 DEF Flights
<1>4. U \in SUBSET (Threads \ {t})
  OBVIOUS
<1>5. /\ IsFiniteSet(Threads \ {t})
      /\ Cardinality(Threads \ {t}) = Cardinality(Threads) - 1
      /\ Cardinality(Threads) \in Nat
  BY ThreadsAssumption, FS_RemoveElement, FS_CardinalityType
<1>6. /\ IsFiniteSet(U)
      /\ Cardinality(U) <= Cardinality(Threads \ {t})
  BY <1>4, <1>5, FS_Subset
<1>7. f \in Surjection(U, Held)
  BY DEF Surjection, Held
<1>8. Cardinality(Held) <= Cardinality(U) /\ IsFiniteSet(Held)
  BY <1>6, <1>7, FS_Surjection
<1>9. Cardinality(U) \in Nat
  BY <1>6, FS_CardinalityType
<1> QED
  BY <1>3, <1>5, <1>6, <1>8, <1>9

\* With one entry per range, get finds it.
LEMMA GetProperties ==
  ASSUME TypeOK, NEW r \in Ranges
  PROVE  /\ Get(r) \in Contents \cup {None}
         /\ Get(r) = None <=> Found(r) = {}
         /\ Get(r) # None => \E e \in Found(r) : e.content = Get(r)
<1>1. \A e \in Found(r) : e \in Entry
  BY DEF Found, TypeOK
<1>2. CASE Found(r) = {}
  BY <1>2 DEF Get
<1>3. CASE Found(r) # {}
  <2>1. (CHOOSE e \in Found(r) : TRUE) \in Found(r)
    BY <1>3
  <2> QED
    BY <1>1, <1>3, <2>1, SentinelAssumption DEF Get, Entry
<1> QED
  BY <1>2, <1>3

\* A call starts with a get, which returns what the cache holds or nothing.
LEMMA CallPreserves ==
  ASSUME IInv, NEW t \in Threads, NEW r \in Ranges, Call(t, r)
  PROVE  IInv'
<1> USE DEF IInv, Call, Step, world, cache
<1>c. /\ Get(r) \in Contents \cup {None}
      /\ Get(r) = None <=> Found(r) = {}
      /\ Get(r) # None => \E e \in Found(r) : e.content = Get(r)
  BY GetProperties
<1>1. TypeOK'
  BY SentinelAssumption, <1>c DEF TypeOK, Labels, Flying, Building, Cell, Entry
<1>2. CallsOK'
  BY SentinelAssumption, <1>c DEF TypeOK, CallsOK, Flying, Building, Labels, Flights
<1>3. FlightsOK'
  BY SentinelAssumption, <1>c DEF TypeOK, CallsOK, FlightsOK, Held, Flights, Flying, Building, EmptyCell, Cell
<1>4. MapOK'
  BY SentinelAssumption, <1>c DEF TypeOK, CallsOK, MapOK, FlightsOK, Flying, Building, Cell, Flights
<1>5. OnceOK'
  BY SentinelAssumption, <1>c DEF TypeOK, CallsOK, OnceOK, FlightsOK, Flying, Building, Cell, Flights
<1>6. NoFlightLeaks'
  BY SentinelAssumption, <1>c DEF TypeOK, CallsOK, NoFlightLeaks, Flying, Building, Flights
<1>7. EntriesOK'
  BY SentinelAssumption, <1>c DEF TypeOK, EntriesOK, Entry
<1>8. BuildersOK'
  BY SentinelAssumption, <1>c DEF TypeOK, CallsOK, BuildersOK, Building, Flying, Found
<1>9. OutcomesOK'
  BY SentinelAssumption, <1>c DEF TypeOK, CallsOK, OutcomesOK, IndexIsCached, Found, Flying, Building, Cell, Flights
<1>10. ContentOK'
  BY SentinelAssumption, <1>c DEF TypeOK, ContentOK, Entry
<1>11. CapHolds'
  BY SentinelAssumption, <1>c DEF TypeOK, CapHolds
<1> QED
  BY <1>1, <1>2, <1>3, <1>4, <1>5, <1>6, <1>7, <1>8, <1>9, <1>10, <1>11

\* The cap check only reads.
LEMMA CheckCapPreserves ==
  ASSUME IInv, NEW t \in Threads, CheckCap(t)
  PROVE  IInv'
<1> USE DEF IInv, CheckCap, Step, world, cache
<1>1. TypeOK'
  BY SentinelAssumption DEF TypeOK, Labels, Flying, Building, Cell, Entry
<1>2. CallsOK'
  BY SentinelAssumption DEF TypeOK, CallsOK, Flying, Building, Labels, Flights
<1>3. FlightsOK'
  BY SentinelAssumption DEF TypeOK, CallsOK, FlightsOK, Held, Flights, Flying, Building, EmptyCell, Cell
<1>4. MapOK'
  BY SentinelAssumption DEF TypeOK, CallsOK, MapOK, FlightsOK, Flying, Building, Cell, Flights
<1>5. OnceOK'
  BY SentinelAssumption DEF TypeOK, CallsOK, OnceOK, FlightsOK, Flying, Building, Cell, Flights
<1>6. NoFlightLeaks'
  BY SentinelAssumption DEF TypeOK, CallsOK, NoFlightLeaks, Flying, Building, Flights
<1>7. EntriesOK'
  BY SentinelAssumption DEF TypeOK, EntriesOK, Entry
<1>8. BuildersOK'
  BY SentinelAssumption DEF TypeOK, CallsOK, BuildersOK, Building, Flying, Found
<1>9. OutcomesOK'
  BY SentinelAssumption DEF TypeOK, CallsOK, OutcomesOK, IndexIsCached, Found, Flying, Building, Cell, Flights
<1>10. ContentOK'
  BY SentinelAssumption DEF TypeOK, ContentOK, Entry
<1>11. CapHolds'
  BY SentinelAssumption DEF TypeOK, CapHolds
<1> QED
  BY <1>1, <1>2, <1>3, <1>4, <1>5, <1>6, <1>7, <1>8, <1>9, <1>10, <1>11

\* Counting a call touches no flight and no entry.
LEMMA ShouldBuildPreserves ==
  ASSUME IInv, NEW t \in Threads, ShouldBuild(t)
  PROVE  IInv'
<1> USE DEF IInv, ShouldBuild, Step, world, cache
<1>a. range[t] \in Ranges
  BY DEF TypeOK, CallsOK
<1>1. TypeOK'
  BY SentinelAssumption, <1>a, SizeAssumption DEF TypeOK, Labels, Flying, Building, Cell, Entry, Counted
<1>2. CallsOK'
  BY SentinelAssumption DEF TypeOK, CallsOK, Flying, Building, Labels, Flights
<1>3. FlightsOK'
  BY SentinelAssumption DEF TypeOK, CallsOK, FlightsOK, Held, Flights, Flying, Building, EmptyCell, Cell
<1>4. MapOK'
  BY SentinelAssumption DEF TypeOK, CallsOK, MapOK, FlightsOK, Flying, Building, Cell, Flights
<1>5. OnceOK'
  BY SentinelAssumption DEF TypeOK, CallsOK, OnceOK, FlightsOK, Flying, Building, Cell, Flights
<1>6. NoFlightLeaks'
  BY SentinelAssumption DEF TypeOK, CallsOK, NoFlightLeaks, Flying, Building, Flights
<1>7. EntriesOK'
  BY SentinelAssumption DEF TypeOK, EntriesOK, Entry
<1>8. BuildersOK'
  BY SentinelAssumption DEF TypeOK, CallsOK, BuildersOK, Building, Flying, Found
<1>9. OutcomesOK'
  BY SentinelAssumption DEF TypeOK, CallsOK, OutcomesOK, IndexIsCached, Found, Flying, Building, Cell, Flights
<1>10. ContentOK'
  BY SentinelAssumption DEF TypeOK, ContentOK, Entry
<1>11. CapHolds'
  BY SentinelAssumption DEF TypeOK, CapHolds
<1> QED
  BY <1>1, <1>2, <1>3, <1>4, <1>5, <1>6, <1>7, <1>8, <1>9, <1>10, <1>11

\* Joining takes the flight of the map, whose holders ask for the same range,
\* or a free one, which is empty.
LEMMA JoinPreserves ==
  ASSUME IInv, NEW t \in Threads, Join(t)
  PROVE  IInv'
<1> USE DEF IInv, Join, Step, world, cache
<1>a. range[t] \in Ranges
  BY DEF TypeOK, CallsOK
<1>d. joined[t] = None
  BY DEF CallsOK, Flying, Building
<1> DEFINE f == IF in_flight[range[t]] # None THEN in_flight[range[t]]
                ELSE CHOOSE g \in Flights : g \notin Held
<1>e. f \in Flights /\ (in_flight[range[t]] = None => f \notin Held)
  BY <1>a, <1>d, FreeFlight DEF TypeOK
<1>f. /\ joined' = [joined EXCEPT ![t] = f]
      /\ in_flight' = [in_flight EXCEPT ![range[t]] = f]
  OBVIOUS
<1>g. in_flight[range[t]] # None =>
        /\ f = in_flight[range[t]]
        /\ \E w \in Threads : joined[w] = f /\ range[w] = range[t]
  BY <1>a DEF NoFlightLeaks
<1>n. f # None
  BY <1>e, SentinelAssumption DEF Flights
<1>h. in_flight[range[t]] = None =>
        flight[f] = EmptyCell /\ \A u \in Threads : joined[u] # f
  BY <1>e, <1>n DEF FlightsOK, Held
<1> HIDE DEF f
<1>i. \A u \in Threads : joined[u] = f => range[u] = range[t] /\ in_flight[range[t]] = f
  BY <1>g, <1>h, <1>n DEF FlightsOK
<1>1. TypeOK'
  BY SentinelAssumption, <1>a, <1>d, <1>e, <1>f, <1>g, <1>h, <1>i, <1>n DEF TypeOK, Labels, Flying, Building, Cell, Entry
<1>2. CallsOK'
  BY SentinelAssumption, <1>a, <1>d, <1>e, <1>f, <1>g, <1>h, <1>i, <1>n DEF TypeOK, CallsOK, Flying, Building, Labels, Flights
<1>3. FlightsOK'
  BY SentinelAssumption, <1>a, <1>d, <1>e, <1>f, <1>g, <1>h, <1>i, <1>n DEF TypeOK, CallsOK, FlightsOK, Held, Flights, Flying, Building, EmptyCell, Cell
<1>4. MapOK'
  BY SentinelAssumption, <1>a, <1>d, <1>e, <1>f, <1>g, <1>h, <1>i, <1>n DEF TypeOK, CallsOK, MapOK, FlightsOK, Flying, Building, Cell, Flights
<1>5. OnceOK'
  BY SentinelAssumption, <1>a, <1>d, <1>e, <1>f, <1>g, <1>h, <1>i, <1>n DEF TypeOK, CallsOK, OnceOK, FlightsOK, Flying, Building, Cell, Flights
<1>6. NoFlightLeaks'
  BY SentinelAssumption, <1>a, <1>d, <1>e, <1>f, <1>g, <1>h, <1>i, <1>n DEF TypeOK, CallsOK, NoFlightLeaks, Flying, Building, Flights
<1>7. EntriesOK'
  BY SentinelAssumption, <1>a, <1>d, <1>e, <1>f, <1>g, <1>h, <1>i, <1>n DEF TypeOK, EntriesOK, Entry
<1>8. BuildersOK'
  BY SentinelAssumption, <1>a, <1>d, <1>e, <1>f, <1>g, <1>h, <1>i, <1>n DEF TypeOK, CallsOK, BuildersOK, Building, Flying, Found
<1>9. OutcomesOK'
  <2>1. ASSUME flight[f].outcome # None
        PROVE  \E e \in Found(range[t]) : e.content = flight[f].outcome
    BY <1>e, <1>g, <1>h, <1>n, <2>1 DEF OutcomesOK, EmptyCell
  <2>2. \A r \in Ranges : Found(r)' = Found(r)
    BY DEF Found
  <2>n. ASSUME NEW u \in Threads, joined'[u] # None, flight'[joined'[u]].outcome # None
        PROVE  \E e \in Found(range[u])' : e.content = flight'[joined'[u]].outcome
    <3>1. range' = range /\ flight' = flight /\ range[u] \in Ranges
      BY <1>a, <1>f, <2>n DEF TypeOK, CallsOK, Flying, Building
    <3>2. CASE u = t
      <4>1. joined'[u] = f /\ flight'[joined'[u]] = flight[f]
        BY <1>f, <3>1, <3>2 DEF TypeOK
      <4>2. PICK e \in Found(range[t]) : e.content = flight[f].outcome
        BY <2>1, <2>n, <4>1
      <4>3. e \in Found(range[u])'
        BY <3>1, <3>2, <4>2 DEF Found
      <4> QED
        BY <4>1, <4>2, <4>3
    <3>3. CASE u # t
      <4>1. joined'[u] = joined[u]
        BY <1>f, <3>3 DEF TypeOK
      <4> QED
        BY <2>2, <2>n, <3>1, <4>1 DEF OutcomesOK
    <3> QED
      BY <3>2, <3>3
  <2>i. IndexIsCached'
    BY <2>2 DEF TypeOK, CallsOK, OutcomesOK, IndexIsCached
  <2> QED
    BY <2>n, <2>i DEF OutcomesOK
<1>10. ContentOK'
  BY SentinelAssumption, <1>a, <1>d, <1>e, <1>f, <1>g, <1>h, <1>i, <1>n DEF TypeOK, ContentOK, Entry
<1>11. CapHolds'
  BY SentinelAssumption, <1>a, <1>d, <1>e, <1>f, <1>g, <1>h, <1>i, <1>n DEF TypeOK, CapHolds
<1> QED
  BY <1>1, <1>2, <1>3, <1>4, <1>5, <1>6, <1>7, <1>8, <1>9, <1>10, <1>11

\* The flight that starts to be initialised was not set, so it stays in the map.
LEMMA InitialisePreserves ==
  ASSUME IInv, NEW t \in Threads, Initialise(t)
  PROVE  IInv'
<1> USE DEF IInv, Initialise, Step, world, cache
<1>1. TypeOK'
  BY SentinelAssumption DEF TypeOK, Labels, Flying, Building, Cell, Entry
<1>2. CallsOK'
  BY SentinelAssumption DEF TypeOK, CallsOK, Flying, Building, Labels, Flights
<1>3. FlightsOK'
  BY SentinelAssumption DEF TypeOK, CallsOK, FlightsOK, Held, Flights, Flying, Building, EmptyCell, Cell
<1>4. MapOK'
  BY SentinelAssumption DEF TypeOK, CallsOK, MapOK, FlightsOK, Flying, Building, Cell, Flights
<1>5. OnceOK'
  BY SentinelAssumption DEF TypeOK, CallsOK, OnceOK, FlightsOK, Flying, Building, Cell, Flights
<1>6. NoFlightLeaks'
  BY SentinelAssumption DEF TypeOK, CallsOK, NoFlightLeaks, Flying, Building, Flights
<1>7. EntriesOK'
  BY SentinelAssumption DEF TypeOK, EntriesOK, Entry
<1>8. BuildersOK'
  BY SentinelAssumption DEF TypeOK, CallsOK, BuildersOK, Building, Flying, Found
<1>9. OutcomesOK'
  BY SentinelAssumption DEF TypeOK, CallsOK, OutcomesOK, IndexIsCached, Found, Flying, Building, Cell, Flights
<1>10. ContentOK'
  BY SentinelAssumption DEF TypeOK, ContentOK, Entry
<1>11. CapHolds'
  BY SentinelAssumption DEF TypeOK, CapHolds
<1> QED
  BY <1>1, <1>2, <1>3, <1>4, <1>5, <1>6, <1>7, <1>8, <1>9, <1>10, <1>11

\* A waiter takes the outcome, which is in the cache.
LEMMA SharePreserves ==
  ASSUME IInv, NEW t \in Threads, Share(t)
  PROVE  IInv'
<1> USE DEF IInv, Share, Step, world, cache
<1>b. joined[t] \in Flights
  BY DEF TypeOK, CallsOK, Flying, Building
<1>1. TypeOK'
  BY SentinelAssumption, <1>b DEF TypeOK, Labels, Flying, Building, Cell, Entry
<1>2. CallsOK'
  BY SentinelAssumption DEF TypeOK, CallsOK, Flying, Building, Labels, Flights
<1>3. FlightsOK'
  BY SentinelAssumption DEF TypeOK, CallsOK, FlightsOK, Held, Flights, Flying, Building, EmptyCell, Cell
<1>4. MapOK'
  BY SentinelAssumption DEF TypeOK, CallsOK, MapOK, FlightsOK, Flying, Building, Cell, Flights
<1>5. OnceOK'
  BY SentinelAssumption DEF TypeOK, CallsOK, OnceOK, FlightsOK, Flying, Building, Cell, Flights
<1>6. NoFlightLeaks'
  BY SentinelAssumption DEF TypeOK, CallsOK, NoFlightLeaks, Flying, Building, Flights
<1>7. EntriesOK'
  BY SentinelAssumption DEF TypeOK, EntriesOK, Entry
<1>8. BuildersOK'
  BY SentinelAssumption DEF TypeOK, CallsOK, BuildersOK, Building, Flying, Found
<1>9. OutcomesOK'
  BY SentinelAssumption DEF TypeOK, CallsOK, OutcomesOK, IndexIsCached, Found, Flying, Building, Cell, Flights
<1>10. ContentOK'
  BY SentinelAssumption DEF TypeOK, ContentOK, Entry
<1>11. CapHolds'
  BY SentinelAssumption DEF TypeOK, CapHolds
<1> QED
  BY <1>1, <1>2, <1>3, <1>4, <1>5, <1>6, <1>7, <1>8, <1>9, <1>10, <1>11

\* The recheck finds an entry, which becomes the outcome, or the range is free.
LEMMA RecheckPreserves ==
  ASSUME IInv, NEW t \in Threads, Recheck(t)
  PROVE  IInv'
<1> USE DEF IInv, Recheck, Step, SetOutcome, world, cache
<1>a. range[t] \in Ranges
  BY DEF TypeOK, CallsOK
<1>b. joined[t] \in Flights
  BY DEF TypeOK, CallsOK, Flying, Building
<1>c. /\ Get(range[t]) \in Contents \cup {None}
      /\ Get(range[t]) = None <=> Found(range[t]) = {}
      /\ Get(range[t]) # None => \E e \in Found(range[t]) : e.content = Get(range[t])
  BY <1>a, GetProperties
<1>1. TypeOK'
  BY SentinelAssumption, <1>a, <1>b, <1>c DEF TypeOK, Labels, Flying, Building, Cell, Entry
<1>2. CallsOK'
  BY SentinelAssumption, <1>a, <1>b, <1>c DEF TypeOK, CallsOK, Flying, Building, Labels, Flights
<1>3. FlightsOK'
  BY SentinelAssumption, <1>a, <1>b, <1>c DEF TypeOK, CallsOK, FlightsOK, Held, Flights, Flying, Building, EmptyCell, Cell
<1>4. MapOK'
  BY SentinelAssumption, <1>a, <1>b, <1>c DEF TypeOK, CallsOK, MapOK, FlightsOK, Flying, Building, Cell, Flights
<1>5. OnceOK'
  BY SentinelAssumption, <1>a, <1>b, <1>c DEF TypeOK, CallsOK, OnceOK, FlightsOK, Flying, Building, Cell, Flights
<1>6. NoFlightLeaks'
  BY SentinelAssumption, <1>a, <1>b, <1>c DEF TypeOK, CallsOK, NoFlightLeaks, Flying, Building, Flights
<1>7. EntriesOK'
  BY SentinelAssumption, <1>a, <1>b, <1>c DEF TypeOK, EntriesOK, Entry
<1>8. BuildersOK'
  BY SentinelAssumption, <1>a, <1>b, <1>c DEF TypeOK, CallsOK, BuildersOK, Building, Flying, Found
<1>9. OutcomesOK'
  <2>1. \A r \in Ranges : Found(r)' = Found(r)
    BY DEF Found
  <2>2. \A u \in Threads : joined[u] = joined[t] => range[u] = range[t]
    BY <1>b, SentinelAssumption DEF FlightsOK, Flights
  <2> QED
    BY <1>a, <1>b, <1>c, <2>1, <2>2 DEF TypeOK, CallsOK, OutcomesOK, IndexIsCached, Flying, Building, Cell
<1>10. ContentOK'
  BY SentinelAssumption, <1>a, <1>b, <1>c DEF TypeOK, ContentOK, Entry
<1>11. CapHolds'
  BY SentinelAssumption, <1>a, <1>b, <1>c DEF TypeOK, CapHolds
<1> QED
  BY <1>1, <1>2, <1>3, <1>4, <1>5, <1>6, <1>7, <1>8, <1>9, <1>10, <1>11

\* A volatile range ends the flight with no index.
LEMMA CheckVolatilePreserves ==
  ASSUME IInv, NEW t \in Threads, CheckVolatile(t)
  PROVE  IInv'
<1> USE DEF IInv, CheckVolatile, Step, SetOutcome, world, cache
<1>a. range[t] \in Ranges
  BY DEF TypeOK, CallsOK
<1>b. joined[t] \in Flights
  BY DEF TypeOK, CallsOK, Flying, Building
<1>1. TypeOK'
  BY SentinelAssumption, <1>a, <1>b DEF TypeOK, Labels, Flying, Building, Cell, Entry
<1>2. CallsOK'
  BY SentinelAssumption, <1>a, <1>b DEF TypeOK, CallsOK, Flying, Building, Labels, Flights
<1>3. FlightsOK'
  BY SentinelAssumption, <1>a, <1>b DEF TypeOK, CallsOK, FlightsOK, Held, Flights, Flying, Building, EmptyCell, Cell
<1>4. MapOK'
  BY SentinelAssumption, <1>a, <1>b DEF TypeOK, CallsOK, MapOK, FlightsOK, Flying, Building, Cell, Flights
<1>5. OnceOK'
  BY SentinelAssumption, <1>a, <1>b DEF TypeOK, CallsOK, OnceOK, FlightsOK, Flying, Building, Cell, Flights
<1>6. NoFlightLeaks'
  BY SentinelAssumption, <1>a, <1>b DEF TypeOK, CallsOK, NoFlightLeaks, Flying, Building, Flights
<1>7. EntriesOK'
  BY SentinelAssumption, <1>a, <1>b DEF TypeOK, EntriesOK, Entry
<1>8. BuildersOK'
  BY SentinelAssumption, <1>a, <1>b DEF TypeOK, CallsOK, BuildersOK, Building, Flying, Found
<1>9. OutcomesOK'
  BY SentinelAssumption, <1>a, <1>b DEF TypeOK, CallsOK, OutcomesOK, IndexIsCached, Found, Flying, Building, Cell, Flights
<1>10. ContentOK'
  BY SentinelAssumption, <1>a, <1>b DEF TypeOK, ContentOK, Entry
<1>11. CapHolds'
  BY SentinelAssumption, <1>a, <1>b DEF TypeOK, CapHolds
<1> QED
  BY <1>1, <1>2, <1>3, <1>4, <1>5, <1>6, <1>7, <1>8, <1>9, <1>10, <1>11

\* The index that is built says what the range holds now.
LEMMA BuildPreserves ==
  ASSUME IInv, NEW t \in Threads, Build(t)
  PROVE  IInv'
<1> USE DEF IInv, Build, Step, SetOutcome, world, cache
<1>a. range[t] \in Ranges
  BY DEF TypeOK, CallsOK
<1>b. joined[t] \in Flights
  BY DEF TypeOK, CallsOK, Flying, Building
<1>1. TypeOK'
  BY SentinelAssumption, <1>a, <1>b DEF TypeOK, Labels, Flying, Building, Cell, Entry
<1>2. CallsOK'
  BY SentinelAssumption, <1>a, <1>b DEF TypeOK, CallsOK, Flying, Building, Labels, Flights
<1>3. FlightsOK'
  <2>1. Held' = Held /\ joined[t] \in Held
    BY <1>b, SentinelAssumption DEF Held, Flights
  <2> QED
    BY <1>b, <2>1 DEF TypeOK, FlightsOK
<1>4. MapOK'
  BY SentinelAssumption, <1>a, <1>b DEF TypeOK, CallsOK, MapOK, FlightsOK, Flying, Building, Cell, Flights
<1>5. OnceOK'
  BY SentinelAssumption, <1>a, <1>b DEF TypeOK, CallsOK, OnceOK, FlightsOK, Flying, Building, Cell, Flights
<1>6. NoFlightLeaks'
  BY SentinelAssumption, <1>a, <1>b DEF TypeOK, CallsOK, NoFlightLeaks, Flying, Building, Flights
<1>7. EntriesOK'
  BY SentinelAssumption, <1>a, <1>b DEF TypeOK, EntriesOK, Entry
<1>8. BuildersOK'
  BY SentinelAssumption, <1>a, <1>b DEF TypeOK, CallsOK, BuildersOK, Building, Flying, Found
<1>9. OutcomesOK'
  <2>1. \A r \in Ranges : Found(r)' = Found(r)
    BY DEF Found
  <2>2. \A u \in Threads :
          joined[u] # None /\ flight[joined[u]]'.outcome # None =>
            flight[joined[u]]'.outcome = flight[joined[u]].outcome
    BY <1>b DEF TypeOK
  <2>n. ASSUME NEW u \in Threads, joined'[u] # None, flight'[joined'[u]].outcome # None
        PROVE  \E e \in Found(range[u])' : e.content = flight'[joined'[u]].outcome
    <3>1. range' = range /\ joined' = joined /\ range[u] \in Ranges
      BY <2>n DEF TypeOK, CallsOK, Flying, Building
    <3> QED
      BY <2>1, <2>2, <2>n, <3>1 DEF OutcomesOK
  <2>i. IndexIsCached'
    BY <1>a, <2>1 DEF TypeOK, CallsOK, OutcomesOK, IndexIsCached
  <2> QED
    BY <2>n, <2>i DEF OutcomesOK
<1>10. ContentOK'
  BY SentinelAssumption, <1>a, <1>b DEF TypeOK, ContentOK, Entry
<1>11. CapHolds'
  BY SentinelAssumption, <1>a, <1>b DEF TypeOK, CapHolds
<1> QED
  BY <1>1, <1>2, <1>3, <1>4, <1>5, <1>6, <1>7, <1>8, <1>9, <1>10, <1>11

\* The builder inserts in a place nobody else can have filled, within the cap.
LEMMA InsertIfRoomPreserves ==
  ASSUME IInv, NEW t \in Threads, InsertIfRoom(t)
  PROVE  IInv'
<1> USE DEF IInv, InsertIfRoom, Step, SetOutcome, world, cache
<1>a. range[t] \in Ranges
  BY DEF TypeOK, CallsOK
<1>b. joined[t] \in Flights
  BY DEF TypeOK, CallsOK, Flying, Building
<1>c. /\ Get(range[t]) \in Contents \cup {None}
      /\ Get(range[t]) = None <=> Found(range[t]) = {}
      /\ Get(range[t]) # None => \E e \in Found(range[t]) : e.content = Get(range[t])
  BY <1>a, GetProperties
<1>l. /\ Found(range[t]) = {}
      /\ index[t] = data[range[t]] /\ index[t] # None
      /\ range[t] \notin Volatile
  BY DEF BuildersOK
<1> DEFINE NewEntry == [range |-> range[t], snapshot |-> snapshot, content |-> index[t]]
<1>k. /\ inner' = inner \/ inner' = inner \cup {NewEntry}
      /\ index'[t] # None => index'[t] = index[t] /\ inner' = inner \cup {NewEntry}
      /\ flight' = [flight EXCEPT ![joined[t]] = [state |-> "set", outcome |-> index'[t]]]
      /\ UNCHANGED <<range, joined, data, snapshot>>
  BY <1>c, <1>l DEF TypeOK
<1>1. TypeOK'
  BY SentinelAssumption, <1>a, <1>b, <1>c, SizeAssumption DEF TypeOK, Labels, Flying, Building, Cell, Entry, BuildersOK
<1>2. CallsOK'
  BY SentinelAssumption, <1>a, <1>b, <1>c DEF TypeOK, CallsOK, Flying, Building, Labels, Flights
<1>3. FlightsOK'
  BY SentinelAssumption, <1>a, <1>b, <1>c DEF TypeOK, CallsOK, FlightsOK, Held, Flights, Flying, Building, EmptyCell, Cell
<1>4. MapOK'
  BY SentinelAssumption, <1>a, <1>b, <1>c DEF TypeOK, CallsOK, MapOK, FlightsOK, Flying, Building, Cell, Flights
<1>5. OnceOK'
  BY SentinelAssumption, <1>a, <1>b, <1>c DEF TypeOK, CallsOK, OnceOK, FlightsOK, Flying, Building, Cell, Flights
<1>6. NoFlightLeaks'
  BY SentinelAssumption, <1>a, <1>b, <1>c DEF TypeOK, CallsOK, NoFlightLeaks, Flying, Building, Flights
<1>7. EntriesOK'
  BY <1>k, <1>l DEF EntriesOK, Found, NewEntry
<1>8. BuildersOK'
  <2>1. \A u \in Threads \ {t} : pc[u] \in Building => range[u] # range[t]
    BY <1>k DEF OnceOK, MapOK, Building, CallsOK, Flying
  <2>2. \A u \in Threads \ {t} : pc[u] \in Building => Found(range[u])' = Found(range[u])
    BY <1>k, <2>1 DEF Found, NewEntry
  <2> QED
    BY <2>2 DEF TypeOK, BuildersOK, Building
<1>9. OutcomesOK'
  <2>1. \A u \in Threads : joined[u] = joined[t] => range[u] = range[t]
    BY <1>b, SentinelAssumption DEF FlightsOK, Flights
  <2>2. \A r \in Ranges : Found(r) \subseteq Found(r)'
    BY <1>k DEF Found
  <2>3. index'[t] # None => \E e \in Found(range[t])' : e.content = index'[t]
    <3> SUFFICES ASSUME index'[t] # None
                 PROVE  \E e \in Found(range[t])' : e.content = index'[t]
      OBVIOUS
    <3>1. NewEntry \in inner'
      BY <1>k
    <3>2. NewEntry.range = range'[t] /\ NewEntry.snapshot = snapshot' /\ NewEntry.content = index'[t]
      BY <1>k
    <3> HIDE DEF NewEntry, InsertIfRoom
    <3>3. NewEntry \in Found(range[t])'
      BY <3>1, <3>2 DEF Found
    <3> QED
      BY <3>2, <3>3
  <2>n. ASSUME NEW u \in Threads, joined'[u] # None, flight'[joined'[u]].outcome # None
        PROVE  \E e \in Found(range[u])' : e.content = flight'[joined'[u]].outcome
    <3>1. range' = range /\ joined' = joined /\ range[u] \in Ranges
      BY <1>k, <2>n DEF TypeOK, CallsOK, Flying, Building
    <3>2. CASE joined[u] = joined[t]
      BY <1>b, <1>k, <2>1, <2>3, <2>n, <3>1, <3>2 DEF TypeOK
    <3>3. CASE joined[u] # joined[t]
      <4>1. flight'[joined[u]] = flight[joined[u]]
        BY <1>k, <3>3 DEF TypeOK
      <4> QED
        BY <2>2, <2>n, <3>1, <4>1 DEF OutcomesOK
    <3> QED
      BY <3>2, <3>3
  <2>i. IndexIsCached'
    BY <1>a, <1>k, <2>2, <2>3 DEF TypeOK, CallsOK, OutcomesOK, IndexIsCached
  <2> QED
    BY <2>n, <2>i DEF OutcomesOK
<1>10. ContentOK'
  BY <1>k, <1>l DEF ContentOK, NewEntry
<1>11. CapHolds'
  BY SentinelAssumption, <1>a, <1>b, <1>c, SizeAssumption DEF TypeOK, CapHolds, BuildersOK
<1> QED
  BY <1>1, <1>2, <1>3, <1>4, <1>5, <1>6, <1>7, <1>8, <1>9, <1>10, <1>11

\* A thread leaves with a flight that is set: if another is in the map, it stays.
LEMMA LeavePreserves ==
  ASSUME IInv, NEW t \in Threads, Leave(t)
  PROVE  IInv'
<1> USE DEF IInv, Leave, Step, world, cache
<1>a. range[t] \in Ranges
  BY DEF TypeOK, CallsOK
<1>b. joined[t] \in Flights
  BY DEF TypeOK, CallsOK, Flying, Building
<1>c. \A u \in Threads \ {t} : joined[u] # None => flight'[joined[u]] = flight[joined[u]]
  BY <1>b DEF TypeOK
<1>d. flight[joined[t]].state = "set"
  BY DEF OnceOK
<1>e. \A u \in Threads \ {t} : joined[u] # None /\ range[u] = range[t]
        /\ flight[joined[u]].state # "set" => joined[u] # joined[t]
  BY <1>d
<1>1. TypeOK'
  BY SentinelAssumption, <1>a, <1>b, <1>c DEF TypeOK, Labels, Flying, Building, Cell, Entry, EmptyCell
<1>2. CallsOK'
  BY SentinelAssumption, <1>a, <1>b, <1>c DEF TypeOK, CallsOK, Flying, Building, Labels, Flights
<1>3. FlightsOK'
  BY SentinelAssumption, <1>a, <1>b, <1>c DEF TypeOK, CallsOK, FlightsOK, Held, Flights, Flying, Building, EmptyCell, Cell
<1>4. MapOK'
  BY <1>a, <1>b, <1>c, <1>d DEF TypeOK, MapOK, Flights
<1>5. OnceOK'
  BY SentinelAssumption, <1>a, <1>b, <1>c DEF TypeOK, CallsOK, OnceOK, FlightsOK, Flying, Building, Cell, Flights
<1>6. NoFlightLeaks'
  BY SentinelAssumption, <1>a, <1>b, <1>c DEF TypeOK, CallsOK, NoFlightLeaks, Flying, Building, Flights
<1>7. EntriesOK'
  BY SentinelAssumption, <1>a, <1>b, <1>c DEF TypeOK, EntriesOK, Entry
<1>8. BuildersOK'
  BY SentinelAssumption, <1>a, <1>b, <1>c DEF TypeOK, CallsOK, BuildersOK, Building, Flying, Found
<1>9. OutcomesOK'
  <2>1. \A r \in Ranges : Found(r)' = Found(r)
    BY DEF Found
  <2>n. ASSUME NEW u \in Threads, joined'[u] # None, flight'[joined'[u]].outcome # None
        PROVE  \E e \in Found(range[u])' : e.content = flight'[joined'[u]].outcome
    <3>1. range' = range /\ u # t /\ joined'[u] = joined[u]
      BY <2>n DEF TypeOK
    <3>2. range[u] \in Ranges
      BY <2>n, <3>1 DEF TypeOK, CallsOK, Flying, Building
    <3> QED
      BY <1>c, <2>1, <2>n, <3>1, <3>2 DEF OutcomesOK
  <2>i. IndexIsCached'
    BY <1>a, <2>1 DEF TypeOK, CallsOK, OutcomesOK, IndexIsCached
  <2> QED
    BY <2>n, <2>i DEF OutcomesOK
<1>10. ContentOK'
  BY SentinelAssumption, <1>a, <1>b, <1>c DEF TypeOK, ContentOK, Entry
<1>11. CapHolds'
  BY SentinelAssumption, <1>a, <1>b, <1>c DEF TypeOK, CapHolds
<1> QED
  BY <1>1, <1>2, <1>3, <1>4, <1>5, <1>6, <1>7, <1>8, <1>9, <1>10, <1>11

\* A call that returns holds no flight.
LEMMA ReturnPreserves ==
  ASSUME IInv, NEW t \in Threads, Return(t)
  PROVE  IInv'
<1> USE DEF IInv, Return, Step, world, cache
<1>1. TypeOK'
  BY SentinelAssumption DEF TypeOK, Labels, Flying, Building, Cell, Entry
<1>2. CallsOK'
  BY SentinelAssumption DEF TypeOK, CallsOK, Flying, Building, Labels, Flights
<1>3. FlightsOK'
  BY SentinelAssumption DEF TypeOK, CallsOK, FlightsOK, Held, Flights, Flying, Building, EmptyCell, Cell
<1>4. MapOK'
  BY SentinelAssumption DEF TypeOK, CallsOK, MapOK, FlightsOK, Flying, Building, Cell, Flights
<1>5. OnceOK'
  BY SentinelAssumption DEF TypeOK, CallsOK, OnceOK, FlightsOK, Flying, Building, Cell, Flights
<1>6. NoFlightLeaks'
  BY SentinelAssumption DEF TypeOK, CallsOK, NoFlightLeaks, Flying, Building, Flights
<1>7. EntriesOK'
  BY SentinelAssumption DEF TypeOK, EntriesOK, Entry
<1>8. BuildersOK'
  BY SentinelAssumption DEF TypeOK, CallsOK, BuildersOK, Building, Flying, Found
<1>9. OutcomesOK'
  BY SentinelAssumption DEF TypeOK, CallsOK, OutcomesOK, IndexIsCached, Found, Flying, Building, Cell, Flights
<1>10. ContentOK'
  BY SentinelAssumption DEF TypeOK, ContentOK, Entry
<1>11. CapHolds'
  BY SentinelAssumption DEF TypeOK, CapHolds
<1> QED
  BY <1>1, <1>2, <1>3, <1>4, <1>5, <1>6, <1>7, <1>8, <1>9, <1>10, <1>11

\* Before a request no call is under way; entries of ranges that only edits
\* change keep telling the truth.
LEMMA BeginRequestPreserves ==
  ASSUME IInv, BeginRequest
  PROVE  IInv'
<1> USE DEF IInv, BeginRequest, world, cache
<1>1. TypeOK'
  BY SentinelAssumption DEF TypeOK, Labels, Flying, Building, Cell, Entry
<1>2. CallsOK'
  BY SentinelAssumption DEF TypeOK, CallsOK, Flying, Building, Labels, Flights
<1>3. FlightsOK'
  BY SentinelAssumption DEF TypeOK, CallsOK, FlightsOK, Held, Flights, Flying, Building, EmptyCell, Cell
<1>4. MapOK'
  BY SentinelAssumption DEF TypeOK, CallsOK, MapOK, FlightsOK, Flying, Building, Cell, Flights
<1>5. OnceOK'
  BY SentinelAssumption DEF TypeOK, CallsOK, OnceOK, FlightsOK, Flying, Building, Cell, Flights
<1>6. NoFlightLeaks'
  BY SentinelAssumption DEF TypeOK, CallsOK, NoFlightLeaks, Flying, Building, Flights
<1>7. EntriesOK'
  BY SentinelAssumption DEF TypeOK, EntriesOK, Entry
<1>8. BuildersOK'
  BY SentinelAssumption DEF TypeOK, CallsOK, BuildersOK, Building, Flying, Found
<1>9. OutcomesOK'
  BY SentinelAssumption DEF TypeOK, CallsOK, OutcomesOK, IndexIsCached, Found, Flying, Building, Cell, Flights
<1>10. ContentOK'
  BY SentinelAssumption DEF TypeOK, ContentOK, Entry
<1>11. CapHolds'
  BY SentinelAssumption DEF TypeOK, CapHolds
<1> QED
  BY <1>1, <1>2, <1>3, <1>4, <1>5, <1>6, <1>7, <1>8, <1>9, <1>10, <1>11

\* A request ends when no call is under way.
LEMMA EndRequestPreserves ==
  ASSUME IInv, EndRequest
  PROVE  IInv'
<1> USE DEF IInv, EndRequest, world, cache
<1>1. TypeOK'
  BY SentinelAssumption DEF TypeOK, Labels, Flying, Building, Cell, Entry
<1>2. CallsOK'
  BY SentinelAssumption DEF TypeOK, CallsOK, Flying, Building, Labels, Flights
<1>3. FlightsOK'
  BY SentinelAssumption DEF TypeOK, CallsOK, FlightsOK, Held, Flights, Flying, Building, EmptyCell, Cell
<1>4. MapOK'
  BY SentinelAssumption DEF TypeOK, CallsOK, MapOK, FlightsOK, Flying, Building, Cell, Flights
<1>5. OnceOK'
  BY SentinelAssumption DEF TypeOK, CallsOK, OnceOK, FlightsOK, Flying, Building, Cell, Flights
<1>6. NoFlightLeaks'
  BY SentinelAssumption DEF TypeOK, CallsOK, NoFlightLeaks, Flying, Building, Flights
<1>7. EntriesOK'
  BY SentinelAssumption DEF TypeOK, EntriesOK, Entry
<1>8. BuildersOK'
  BY SentinelAssumption DEF TypeOK, CallsOK, BuildersOK, Building, Flying, Found
<1>9. OutcomesOK'
  BY SentinelAssumption DEF TypeOK, CallsOK, OutcomesOK, IndexIsCached, Found, Flying, Building, Cell, Flights
<1>10. ContentOK'
  BY SentinelAssumption DEF TypeOK, ContentOK, Entry
<1>11. CapHolds'
  BY SentinelAssumption DEF TypeOK, CapHolds
<1> QED
  BY <1>1, <1>2, <1>3, <1>4, <1>5, <1>6, <1>7, <1>8, <1>9, <1>10, <1>11

\* An edit empties the cache: nothing is left to go stale.
LEMMA EditPreserves ==
  ASSUME IInv, NEW r \in Ranges, NEW c \in Contents, Edit(r, c)
  PROVE  IInv'
<1> USE DEF IInv, Edit, world, cache
<1>1. TypeOK'
  BY SentinelAssumption, SizeAssumption DEF TypeOK, Labels, Flying, Building, Cell, Entry
<1>2. CallsOK'
  BY SentinelAssumption, SizeAssumption DEF TypeOK, CallsOK, Flying, Building, Labels, Flights
<1>3. FlightsOK'
  BY SentinelAssumption, SizeAssumption DEF TypeOK, CallsOK, FlightsOK, Held, Flights, Flying, Building, EmptyCell, Cell
<1>4. MapOK'
  BY SentinelAssumption, SizeAssumption DEF TypeOK, CallsOK, MapOK, FlightsOK, Flying, Building, Cell, Flights
<1>5. OnceOK'
  BY SentinelAssumption, SizeAssumption DEF TypeOK, CallsOK, OnceOK, FlightsOK, Flying, Building, Cell, Flights
<1>6. NoFlightLeaks'
  BY SentinelAssumption, SizeAssumption DEF TypeOK, CallsOK, NoFlightLeaks, Flying, Building, Flights
<1>7. EntriesOK'
  BY SentinelAssumption, SizeAssumption DEF TypeOK, EntriesOK, Entry
<1>8. BuildersOK'
  BY SentinelAssumption, SizeAssumption DEF TypeOK, CallsOK, BuildersOK, Building, Flying, Found
<1>9. OutcomesOK'
  BY SentinelAssumption, SizeAssumption DEF TypeOK, CallsOK, OutcomesOK, IndexIsCached, Found, Flying, Building, Cell, Flights
<1>10. ContentOK'
  BY SentinelAssumption, SizeAssumption DEF TypeOK, ContentOK, Entry
<1>11. CapHolds'
  BY SentinelAssumption, SizeAssumption DEF TypeOK, CapHolds
<1> QED
  BY <1>1, <1>2, <1>3, <1>4, <1>5, <1>6, <1>7, <1>8, <1>9, <1>10, <1>11

-----------------------------------------------------------------------------
\* The cache starts empty and no call is under way.
LEMMA InitIInv == Init => IInv
<1> SUFFICES ASSUME Init PROVE IInv
  OBVIOUS
<1>a. EmptyCell \in Cell
  BY DEF Cell, EmptyCell
<1>b. "idle" \in Labels /\ 0 \in 0..MaxEdits
  BY SizeAssumption DEF Labels
<1>1. TypeOK
  BY <1>a, <1>b DEF Init, TypeOK
<1>2. CallsOK /\ MapOK /\ OnceOK /\ NoFlightLeaks /\ EntriesOK /\ ContentOK
  BY SentinelAssumption DEF Init, CallsOK, MapOK, OnceOK, NoFlightLeaks, EntriesOK, ContentOK,
                            Flying, Building
<1>3. FlightsOK
  BY DEF Init, FlightsOK, EmptyCell
<1>4. BuildersOK /\ OutcomesOK
  BY DEF Init, BuildersOK, OutcomesOK, IndexIsCached
<1>5. CapHolds
  BY SizeAssumption DEF Init, CapHolds
<1> QED
  BY <1>1, <1>2, <1>3, <1>4, <1>5 DEF IInv

\* Every step preserves the invariant.
LEMMA NextIInv == IInv /\ [Next]_vars => IInv'
<1> SUFFICES ASSUME IInv, [Next]_vars PROVE IInv'
  OBVIOUS
<1>1. CASE \E t \in Threads, r \in Ranges : Call(t, r)
  BY <1>1, CallPreserves
<1>2. ASSUME NEW t \in Threads, Work(t) PROVE IInv'
  BY <1>2, CheckCapPreserves, ShouldBuildPreserves, JoinPreserves, InitialisePreserves,
     SharePreserves, RecheckPreserves, CheckVolatilePreserves, BuildPreserves,
     InsertIfRoomPreserves, LeavePreserves, ReturnPreserves
     DEF Work
<1>3. CASE BeginRequest
  BY <1>3, BeginRequestPreserves
<1>4. CASE EndRequest
  BY <1>4, EndRequestPreserves
<1>5. CASE \E r \in Ranges, c \in Contents : Edit(r, c)
  BY <1>5, EditPreserves
<1>6. CASE UNCHANGED vars
  BY <1>6 DEF vars, IInv, TypeOK, CallsOK, FlightsOK, MapOK, OnceOK, NoFlightLeaks, EntriesOK,
              BuildersOK, OutcomesOK, IndexIsCached, ContentOK, CapHolds, Found, Held
<1> QED
  BY <1>1, <1>2, <1>3, <1>4, <1>5, <1>6 DEF Next

\* The inductive invariant holds in every reachable state.
LEMMA AlwaysIInv == Spec => []IInv
<1> QED
  BY InitIInv, NextIInv, PTL DEF Spec

\* Type correctness of the cache, the flights and the calls.
THEOREM LookupTypeCorrect == Spec => []TypeOK
<1>1. IInv => TypeOK
  BY DEF IInv
<1> QED
  BY <1>1, AlwaysIInv, PTL

\* The byte cap is never exceeded, however many threads passed the estimate
\* before one of them inserted (insert_if_room checks again under its lock).
THEOREM CapAlwaysHolds == Spec => []CapHolds
<1>1. IInv => CapHolds
  BY DEF IInv
<1> QED
  BY <1>1, AlwaysIInv, PTL

\* single_flight: at most one thread builds the index of a range, and its
\* insert finds the place free.
THEOREM SingleBuilder == Spec => []OneBuilder
<1>1. IInv => OneBuilder
  <2> SUFFICES ASSUME IInv PROVE OneBuilder
    OBVIOUS
  <2>1. \A t \in Threads : pc[t] \in Building =>
          in_flight[range[t]] = joined[t] /\ joined[t] # None
    BY DEF IInv, CallsOK, MapOK, OnceOK, Flying
  <2>2. \A t, u \in Threads :
          pc[t] \in Building /\ pc[u] \in Building /\ range[t] = range[u] => t = u
    BY <2>1 DEF IInv, OnceOK
  <2>3. \A t \in Threads : pc[t] = "insert" => Found(range[t]) = {}
    BY DEF IInv, BuildersOK
  <2> QED
    BY <2>2, <2>3 DEF OneBuilder
<1> QED
  BY <1>1, AlwaysIInv, PTL

\* Whatever order waiters leave in, a flight in the map is held by a thread
\* that has yet to remove it.
THEOREM FlightsAreRemoved == Spec => []NoFlightLeaks
<1>1. IInv => NoFlightLeaks
  BY DEF IInv
<1> QED
  BY <1>1, AlwaysIInv, PTL

\* What a lookup is handed, built, shared or found, is the cached index of
\* this snapshot.
THEOREM IndexesAreCached == Spec => []IndexIsCached
<1>1. IInv => IndexIsCached
  BY DEF IInv, OutcomesOK
<1> QED
  BY <1>1, AlwaysIInv, PTL

\* After any sequence of edits and requests an index handed out for a range
\* that only edits change says what the range holds now (mark_data_edited,
\* the volatile check).
THEOREM EditsAlwaysInvalidate == Spec => []EditsInvalidate
<1>1. IInv => EditsInvalidate
  BY DEF IInv, OutcomesOK, IndexIsCached, ContentOK, EditsInvalidate, Found
<1> QED
  BY <1>1, AlwaysIInv, PTL

\* single_flight keeps its promise for any number of threads: one builder per
\* range, and no flight outlives its callers.
THEOREM SingleFlightHolds == Spec => []SingleFlight
<1>1. OneBuilder /\ NoFlightLeaks => SingleFlight
  BY DEF SingleFlight
<1> QED BY <1>1, SingleBuilder, FlightsAreRemoved, PTL

-----------------------------------------------------------------------------
(* The accounts.  BytesExact is a count, which the induction keeps finite. *)

BytesOK == IsFiniteSet(CachedBytes) /\ BytesExact

\* One more index adds its bytes to those the cache holds.
LEMMA BytesOfNewEntry ==
  ASSUME TypeOK, BytesOK, NEW e \in Entry, e \notin inner, inner' = inner \cup {e},
         bytes_in_use' = bytes_in_use + Bytes[e.content]
  PROVE  BytesOK'
<1> DEFINE n == Bytes[e.content]
           new == {e} \X (1..n)
<1>1. n \in Nat
  BY SizeAssumption DEF Entry
<1>2. IsFiniteSet(1..n) /\ Cardinality(1..n) = n
  BY <1>1, FS_Interval
<1>3. IsFiniteSet({e}) /\ Cardinality({e}) = 1
  BY FS_Singleton
<1>4. IsFiniteSet(new) /\ Cardinality(new) = n
  <2> DEFINE one == {e}
             steps == 1..n
  <2> HIDE DEF one, steps
  <2>1. IsFiniteSet(one \X steps) /\ Cardinality(one \X steps) = Cardinality(one) * Cardinality(steps)
    BY <1>2, <1>3, FS_Product DEF one, steps
  <2>2. Cardinality(one) = 1 /\ Cardinality(steps) = n
    BY <1>2, <1>3 DEF one, steps
  <2>3. new = one \X steps
    BY DEF one, steps
  <2> HIDE DEF n, new
  <2> QED BY <1>1, <2>1, <2>2, <2>3
<1>5. CachedBytes' = CachedBytes \cup new
  BY DEF CachedBytes
<1>6. \A x \in CachedBytes : x[1] \in inner
  BY DEF CachedBytes
<1>7. CachedBytes \cap new = {}
  BY <1>6
<1> HIDE DEF new, n
<1>8. /\ IsFiniteSet(CachedBytes \cup new)
      /\ Cardinality(CachedBytes \cup new)
           = Cardinality(CachedBytes) + Cardinality(new) - Cardinality(CachedBytes \cap new)
  BY <1>4, FS_Union DEF BytesOK
<1>9. Cardinality(CachedBytes \cup new) = Cardinality(CachedBytes) + n
  <2>1. Cardinality(CachedBytes \cap new) = 0
    BY <1>7, FS_EmptySet
  <2>2. Cardinality(CachedBytes) \in Nat
    BY FS_CardinalityType DEF BytesOK
  <2> QED BY <1>1, <1>4, <1>8, <2>1, <2>2
<1> QED BY <1>5, <1>8, <1>9 DEF BytesOK, BytesExact, n

\* An empty cache accounts for nothing.
LEMMA BytesOfNoEntry ==
  /\ inner = {} /\ bytes_in_use = 0 => BytesOK
  /\ inner' = {} /\ bytes_in_use' = 0 => BytesOK'
<1>1. inner = {} => CachedBytes = {}
  BY DEF CachedBytes
<1>2. inner' = {} => CachedBytes' = {}
  BY DEF CachedBytes
<1> QED BY <1>1, <1>2, FS_EmptySet DEF BytesOK, BytesExact

\* The accounts stay exact in every step.
LEMMA NextBytesOK == IInv /\ BytesOK /\ [Next]_vars => BytesOK'
<1> SUFFICES ASSUME IInv, BytesOK, [Next]_vars PROVE BytesOK'
  OBVIOUS
<1>1. CASE inner' = inner /\ bytes_in_use' = bytes_in_use
  <2>1. CachedBytes' = CachedBytes
    BY <1>1 DEF CachedBytes
  <2> QED BY <1>1, <2>1 DEF BytesOK, BytesExact
<1>2. ASSUME NEW t \in Threads, InsertIfRoom(t) PROVE BytesOK'
  <2>1. CASE inner' = inner
    <3>1. bytes_in_use' = bytes_in_use
      <4> DEFINE e == [range |-> range[t], snapshot |-> snapshot, content |-> index[t]]
      <4>1. Found(range[t]) = {}
        BY <1>2 DEF IInv, BuildersOK, InsertIfRoom, Step
      <4>2. e \notin inner
        BY <4>1 DEF Found
      <4> QED BY <1>2, <2>1, <4>2 DEF InsertIfRoom
    <3> QED BY <1>1, <2>1, <3>1
  <2>2. CASE inner' # inner
    <3> DEFINE e == [range |-> range[t], snapshot |-> snapshot, content |-> index[t]]
    <3>1. inner' = inner \cup {e} /\ bytes_in_use' = bytes_in_use + Bytes[index[t]]
      BY <1>2, <2>2 DEF InsertIfRoom
    <3>2. pc[t] = "insert"
      BY <1>2 DEF InsertIfRoom, Step
    <3>3. Found(range[t]) = {} /\ index[t] # None
      BY <3>2 DEF IInv, BuildersOK
    <3>4. range[t] \in Ranges /\ index[t] \in Contents /\ snapshot \in Nat
      BY <3>2, <3>3, SizeAssumption DEF IInv, TypeOK, CallsOK
    <3>5. e \in Entry /\ e \notin inner /\ e.content = index[t]
      BY <3>3, <3>4 DEF Entry, Found
    <3> HIDE DEF e
    <3> QED BY <3>1, <3>5, BytesOfNewEntry DEF IInv
  <2> QED BY <2>1, <2>2
<1>3. ASSUME NEW r \in Ranges, NEW c \in Contents, Edit(r, c) PROVE BytesOK'
  BY <1>3, BytesOfNoEntry DEF Edit
<1>4. CASE \E t \in Threads, r \in Ranges : Call(t, r)
  BY <1>1, <1>4 DEF Call, cache
<1>5. ASSUME NEW t \in Threads, Work(t) PROVE BytesOK'
  <2>1. CASE InsertIfRoom(t)
    BY <1>2, <2>1
  <2>2. CASE CheckCap(t) \/ ShouldBuild(t) \/ Join(t) \/ Initialise(t) \/ Share(t)
    BY <1>1, <2>2 DEF CheckCap, ShouldBuild, Join, Initialise, Share, cache
  <2>3. CASE Recheck(t) \/ CheckVolatile(t) \/ Build(t) \/ Leave(t) \/ Return(t)
    BY <1>1, <2>3 DEF Recheck, CheckVolatile, Build, Leave, Return, cache
  <2> QED BY <1>5, <2>1, <2>2, <2>3 DEF Work
<1>6. CASE BeginRequest \/ EndRequest \/ UNCHANGED vars
  BY <1>1, <1>6 DEF BeginRequest, EndRequest, vars, cache
<1> QED BY <1>3, <1>4, <1>5, <1>6 DEF Next

\* The accounts are right for any number of threads and any sizes: whoever
\* inserts, under the write lock of insert_if_room, bytes_in_use is the size
\* of what the cache holds, it never passes max_bytes, and clearing the cache
\* leaves nothing on the account.
THEOREM AccountsAreExact == Spec => []AccountsOK
<1>1. Init => BytesOK
  BY BytesOfNoEntry DEF Init
<1>2. IInv /\ BytesOK => AccountsOK
  BY DEF IInv, BytesOK, AccountsOK
<1> QED
  BY <1>1, <1>2, AlwaysIInv, NextBytesOK, PTL DEF Spec
=============================================================================
