------------------------- MODULE SearchResults_proofs -------------------------
(***************************************************************************)
(* Proofs about SearchResults for every ranking, page size, batch size and *)
(* bound: its types, and that scrolling through one index skips nothing    *)
(* and repeats nothing.                                                    *)
(***************************************************************************)
EXTENDS SearchResults, FiniteSetTheorems, WellFoundedInduction, TLAPS

\* The index that answers has a list of candidates for every query.
ServerOK == generation \in DOMAIN Ranking /\ gone \subseteq Image

\* All that the query has to show.
All(q) == Len(Candidates(q))
Top(q, m, n) == Ranked(q, All(q), m, n)

----------------------------------------------------------------------------
\* How candidates are counted.

LEMMA LeastNumber ==
    ASSUME NEW S \in SUBSET Nat, S # {}
    PROVE  \E n \in S : \A m \in S : n <= m
<1>1. PICK n \in S : \A m \in S : ~(<<m, n>> \in OpToRel(<, Nat))
  BY NatLessThanWellFounded, WFMin, Zenon
<1>2. \A m \in S : <<m, n>> \in OpToRel(<, Nat) <=> m < n
  BY DEF OpToRel
<1>3. \A m \in S : ~(m < n)
  BY <1>1, <1>2, Zenon
<1> QED BY <1>3

LEMMA OneToOne ==
    ASSUME NEW S, NEW T, NEW f \in [S -> T],
           \A i, j \in S : f[i] = f[j] => i = j, \A t \in T : \E i \in S : f[i] = t
    PROVE  ExistsBijection(S, T)
<1>1. f \in Injection(S, T)
  BY DEF Injection, IsInjective
<1>2. f \in Surjection(S, T)
  BY DEF Surjection
<1> QED BY <1>1, <1>2 DEF ExistsBijection, Bijection

LEMMA CandidatesType ==
    ASSUME ServerOK, NEW q \in Query
    PROVE  /\ Candidates(q) \in Seq(Image) /\ All(q) \in Nat
           /\ \A n \in 1..All(q) : Candidates(q)[n] \in Image
           /\ \A m, n \in 1..All(q) : Candidates(q)[m] = Candidates(q)[n] => m = n
<1>1. Ranking \in Seq([Query -> Seq(Image)])
  BY SearchAssumption
<1>2. Ranking[generation] \in [Query -> Seq(Image)]
  BY <1>1 DEF ServerOK
<1>3. Candidates(q) \in Seq(Image) /\ All(q) \in Nat /\ DOMAIN Candidates(q) = 1..All(q)
  BY <1>2 DEF Candidates, All
<1>4. \A m, n \in DOMAIN Candidates(q) : Candidates(q)[m] = Candidates(q)[n] => m = n
  BY SearchAssumption DEF ServerOK, Candidates
<1> QED BY <1>3, <1>4

LEMMA FoundType ==
    ASSUME NEW q, NEW p \in Nat
    PROVE  IsFiniteSet(Kept(q, p)) /\ Found(q, p) \in 0..p
<1>1. IsFiniteSet(1..p) /\ Cardinality(1..p) = p
  BY FS_Interval
<1>2. Kept(q, p) \in SUBSET (1..p)
  BY DEF Kept
<1>3. IsFiniteSet(Kept(q, p)) /\ Cardinality(Kept(q, p)) <= p
  BY <1>1, <1>2, FS_Subset
<1> QED BY <1>3, FS_CardinalityType DEF Found

LEMMA FoundNone ==
    ASSUME NEW q
    PROVE  Found(q, 0) = 0
BY FoundType

LEMMA FoundNext ==
    ASSUME NEW q, NEW p \in Nat
    PROVE  Found(q, p + 1) = IF p + 1 \in Kept(q, p + 1) THEN Found(q, p) + 1 ELSE Found(q, p)
<1>1. IsFiniteSet(Kept(q, p)) /\ p + 1 \notin Kept(q, p)
  BY FoundType DEF Kept
<1>2. Kept(q, p + 1) = IF p + 1 \in Kept(q, p + 1) THEN Kept(q, p) \cup {p + 1} ELSE Kept(q, p)
  BY DEF Kept
<1> QED BY <1>1, <1>2, FS_AddElement DEF Found

\* More candidates do not have fewer with a row; a candidate with a row is one more.
LEMMA FoundGrows ==
    ASSUME NEW q, NEW m \in Nat, NEW n \in Nat
    PROVE  /\ m <= n => Found(q, m) <= Found(q, n)
           /\ m < n /\ n \in Kept(q, n) => Found(q, m) < Found(q, n)
<1>1. IsFiniteSet(Kept(q, m)) /\ IsFiniteSet(Kept(q, n))
  BY FoundType
<1>2. m <= n => Kept(q, m) \in SUBSET Kept(q, n)
  BY DEF Kept
<1>3. m < n /\ n \in Kept(q, n) => Kept(q, m) # Kept(q, n)
  BY DEF Kept
<1>4. Found(q, m) \in Int /\ Found(q, n) \in Int
  BY FoundType
<1>5. m <= n => Found(q, m) <= Found(q, n)
  BY <1>1, <1>2, FS_Subset DEF Found
<1>6. m <= n /\ Found(q, m) = Found(q, n) => Kept(q, m) = Kept(q, n)
  BY <1>1, <1>2, FS_Subset DEF Found
<1> QED BY <1>3, <1>4, <1>5, <1>6

\* The k-th candidate with a row.
LEMMA PlaceOfRank ==
    ASSUME NEW q, NEW p \in Nat, NEW k \in 1..Found(q, p)
    PROVE  \E n \in Kept(q, p) : Found(q, n) = k
<1> DEFINE S == {n \in 0..p : Found(q, n) >= k}
<1>1. S \in SUBSET Nat /\ p \in S
  BY FoundType
<1>2. PICK n \in S : \A m \in S : n <= m
  BY <1>1, LeastNumber
<1>3. n # 0
  BY <1>2, FoundNone
<1>4. PICK m \in Nat : n = m + 1
  BY <1>1, <1>2, <1>3
<1>5. m \notin S /\ m \in 0..p
  BY <1>2, <1>4
<1>6. Found(q, m) \in Int /\ Found(q, m) < k
  BY <1>5, FoundType
<1>7. n \in Kept(q, n) /\ Found(q, n) = k
  BY <1>2, <1>4, <1>6, FoundNext
<1> QED BY <1>2, <1>7 DEF Kept

\* The places of the m-th to the n-th candidate with a row.
Places(q, p, m, n) == {j \in Kept(q, p) : Found(q, j) \in m..n}

LEMMA PlacesCounted ==
    ASSUME NEW q, NEW p \in Nat, NEW m \in Nat \ {0}, NEW n \in Nat, m <= n + 1, n <= Found(q, p)
    PROVE  IsFiniteSet(Places(q, p, m, n)) /\ Cardinality(Places(q, p, m, n)) = n - m + 1
<1> DEFINE P == Places(q, p, m, n)
           f == [j \in P |-> Found(q, j)]
<1>1. IsFiniteSet(P)
  BY FoundType, FS_Subset DEF Places
<1>2. f \in [P -> m..n]
  BY DEF Places
<1>3. \A i, j \in P : f[i] = f[j] => i = j
  <2> SUFFICES ASSUME NEW i \in P, NEW j \in P, Found(q, i) = Found(q, j) PROVE i = j
    OBVIOUS
  <2>1. i \in Nat /\ j \in Nat /\ i \in Kept(q, i) /\ j \in Kept(q, j)
    BY DEF Places, Kept
  <2>2. Found(q, i) \in Int /\ Found(q, j) \in Int
    BY <2>1, FoundType
  <2> QED BY <2>1, <2>2, FoundGrows
<1>4. \A k \in m..n : \E j \in P : f[j] = k
  <2> SUFFICES ASSUME NEW k \in m..n PROVE \E j \in P : Found(q, j) = k
    BY DEF Places
  <2>1. k \in 1..Found(q, p)
    BY FoundType
  <2> QED BY <2>1, PlaceOfRank DEF Places
<1> HIDE DEF P, f
<1>5. ExistsBijection(P, m..n)
  BY <1>2, <1>3, <1>4, OneToOne
<1>6. Cardinality(m..n) = Cardinality(P)
  BY <1>1, <1>5, FS_Bijection
<1>7. Cardinality(m..n) = n - m + 1
  <2>1. m \in Int /\ n \in Int
    OBVIOUS
  <2>2. Cardinality(m..n) = IF m > n THEN 0 ELSE n - m + 1
    BY <2>1, FS_Interval
  <2> QED BY <2>2
<1> QED BY <1>1, <1>6, <1>7 DEF P

\* As many results as places: no image is a candidate twice.
LEMMA RankedCounted ==
    ASSUME ServerOK, NEW q \in Query, NEW m \in Nat \ {0}, NEW n \in Nat
    PROVE  /\ Top(q, m, n) \subseteq Image
           /\ IsFiniteSet(Top(q, m, n))
           /\ Cardinality(Top(q, m, n)) = Cardinality(Places(q, All(q), m, n))
<1> DEFINE P == Places(q, All(q), m, n)
           T == Top(q, m, n)
           f == [j \in P |-> Candidates(q)[j]]
<1>1. P \subseteq 1..All(q) /\ T = {Candidates(q)[j] : j \in P}
  BY DEF Places, Top, Ranked, Kept
<1>2. IsFiniteSet(P)
  BY CandidatesType, FoundType, FS_Subset DEF Places
<1>3. f \in [P -> T] /\ (\A t \in T : \E j \in P : f[j] = t)
  BY <1>1
<1>4. \A i, j \in P : f[i] = f[j] => i = j
  BY <1>1, CandidatesType
<1>5. T \subseteq Image
  BY <1>1, CandidatesType
<1> HIDE DEF P, T, f
<1>6. ExistsBijection(P, T)
  BY <1>3, <1>4, OneToOne
<1>7. IsFiniteSet(T) /\ Cardinality(T) = Cardinality(P)
  BY <1>2, <1>6, FS_Bijection
<1> QED BY <1>5, <1>7 DEF P, T

----------------------------------------------------------------------------
\* How many candidates are taken.

Stops(q, required) == {p \in 0..All(q) : Found(q, p) >= required \/ p = All(q)}
NextStop(q, required, p) ==
    IF p + Batch(q, required, p) < All(q) THEN p + Batch(q, required, p) ELSE All(q)

LEMMA NextStopType ==
    ASSUME ServerOK, NEW q \in Query, NEW required \in Nat \ {0},
           NEW p \in 0..All(q), p \notin Stops(q, required)
    PROVE  NextStop(q, required, p) \in (p + 1)..All(q)
<1>1. All(q) \in Nat /\ p \in Nat /\ Found(q, p) \in Nat /\ Found(q, p) < required /\ p # All(q)
  BY CandidatesType, FoundType DEF Stops
<1>2. MIN_BATCH \in Nat \ {0} /\ MAX_BATCH \in Nat \ {0}
  BY SearchAssumption
<1>3. Batch(q, required, p) \in Nat \ {0}
  BY <1>1, <1>2 DEF Batch
<1> QED BY <1>1, <1>3 DEF NextStop

\* What a search that goes on from p to next[p] gets to from each place.
Leads(f, all, S, next) == f = [p \in 0..all |-> IF p \in S THEN p ELSE f[next[p]]]

\* A search that goes on from p to a later place, up to the last, ends, and where it may.
LEMMA SearchEnds ==
    ASSUME NEW all \in Nat, NEW S \in SUBSET (0..all), all \in S, NEW next \in [0..all -> 0..all],
           \A p \in (0..all) \ S : next[p] > p
    PROVE  /\ \E f : Leads(f, all, S, next)
           /\ \A f : Leads(f, all, S, next) => f[0] \in S
<1> DEFINE From(n) == {p \in 0..all : p >= all - n}
           Solves(f, D) == f = [p \in D |-> IF p \in S THEN p ELSE f[next[p]]]
           Bad == {n \in 0..all : ~\E f : Solves(f, From(n))}
<1>1. Bad = {}
  <2> SUFFICES ASSUME Bad # {} PROVE FALSE
    OBVIOUS
  <2>1. Bad \in SUBSET Nat
    OBVIOUS
  <2>2. PICK n \in Bad : \A m \in Bad : n <= m
    <3> HIDE DEF Bad
    <3> QED BY <2>1, LeastNumber
  <2>3. n \in 0..all /\ ~\E f : Solves(f, From(n))
    OBVIOUS
  <2>4. \E g : \A p \in From(n - 1) : g[p] = IF p \in S THEN p ELSE g[next[p]]
    <3>1. CASE n = 0
      BY <3>1
    <3>2. CASE n # 0
      <4>1. n - 1 \in 0..all /\ ~(n <= n - 1)
        BY <2>3, <3>2
      <4>2. PICK g : Solves(g, From(n - 1))
        <5>1. n - 1 \notin Bad
          <6> HIDE DEF Bad
          <6> QED BY <2>2, <4>1
        <5> QED BY <4>1, <5>1
      <4> QED BY <4>2
    <3> QED BY <3>1, <3>2
  <2>5. PICK g : \A p \in From(n - 1) : g[p] = IF p \in S THEN p ELSE g[next[p]]
    BY <2>4
  <2> DEFINE f == [p \in From(n) |-> IF p \in From(n - 1) THEN g[p]
                                     ELSE IF p \in S THEN p ELSE g[next[p]]]
  <2>6. \A p \in From(n) : p \notin S => next[p] \in From(n - 1)
    BY <2>3
  <2>7. From(n - 1) \subseteq From(n)
    BY <2>3
  <2>8. \A p \in From(n) : f[p] = IF p \in S THEN p ELSE f[next[p]]
    <3> HIDE DEF From
    <3> QED BY <2>5, <2>6, <2>7
  <2>9. f = [p \in From(n) |-> IF p \in S THEN p ELSE f[next[p]]]
    BY <2>8
  <2> QED BY <2>3, <2>9
<1>2. \E f : Leads(f, all, S, next)
  <2>1. From(all) = 0..all
    OBVIOUS
  <2>2. PICK f : Solves(f, From(all))
    BY <1>1
  <2>3. Solves(f, 0..all)
    <3> HIDE DEF From
    <3> QED BY <2>1, <2>2
  <2> QED BY <2>3 DEF Leads
<1>3. ASSUME NEW f, Leads(f, all, S, next), f[0] \notin S
      PROVE  FALSE
  <2> DEFINE Lost == {n \in 0..all : f[all - n] \notin S}
  <2>1. Lost \in SUBSET Nat /\ all \in Lost
    <3>1. all - all = 0 /\ all \in 0..all
      OBVIOUS
    <3> QED BY <1>3, <3>1
  <2>2. PICK n \in Lost : \A m \in Lost : n <= m
    <3> HIDE DEF Lost
    <3> QED BY <2>1, LeastNumber
  <2>3. PICK p \in 0..all : p = all - n
    OBVIOUS
  <2>4. f[p] \notin S
    BY <2>3
  <2>5. f[p] = IF p \in S THEN p ELSE f[next[p]]
    BY <1>3 DEF Leads
  <2>6. PICK z \in 0..all : z = next[p]
    OBVIOUS
  <2>7. f[z] \notin S /\ z > p
    BY <2>4, <2>5, <2>6
  <2>8. all - z \in 0..all /\ all - (all - z) = z /\ all - z < n
    BY <2>3, <2>7
  <2>9. all - z \in Lost /\ all - z \in Int /\ n \in Int
    BY <2>7, <2>8
  <2> QED
    <3> HIDE DEF Lost
    <3> QED BY <2>2, <2>8, <2>9
<1> QED BY <1>2, <1>3

\* Candidates are taken until enough of them have a row or there are no more.
LEMMA TakenStops ==
    ASSUME ServerOK, NEW q \in Query, NEW required \in Nat \ {0}
    PROVE  Taken(q, required) \in Stops(q, required)
<1> DEFINE S == Stops(q, required)
           next == [p \in 0..All(q) |-> IF p \in S THEN p ELSE NextStop(q, required, p)]
           upTo == CHOOSE f : f = [p \in 0..All(q) |->
              IF Found(q, p) >= required \/ p = All(q) THEN p
              ELSE f[IF p + Batch(q, required, p) < All(q) THEN p + Batch(q, required, p)
                     ELSE All(q)]]
<1>1. Taken(q, required) = upTo[0]
  BY Zenon DEF Taken, All
<1>2. All(q) \in Nat /\ S \in SUBSET (0..All(q)) /\ All(q) \in S
  BY CandidatesType DEF Stops
<1>3. next \in [0..All(q) -> 0..All(q)] /\ \A p \in (0..All(q)) \ S : next[p] > p
  BY <1>2, NextStopType
<1>4. \A f : [p \in 0..All(q) |->
                IF Found(q, p) >= required \/ p = All(q) THEN p
                ELSE f[IF p + Batch(q, required, p) < All(q) THEN p + Batch(q, required, p)
                       ELSE All(q)]]
           = [p \in 0..All(q) |-> IF p \in S THEN p ELSE f[next[p]]]
  BY DEF Stops, NextStop
<1>5. upTo = CHOOSE f : Leads(f, All(q), S, next)
  BY <1>4, Zenon DEF Leads
<1> HIDE DEF S, next, upTo
<1>6. /\ \E f : Leads(f, All(q), S, next)
      /\ \A f : Leads(f, All(q), S, next) => f[0] \in S
  BY <1>2, <1>3, SearchEnds
<1>7. upTo[0] \in S
  BY <1>5, <1>6
<1> QED BY <1>1, <1>7 DEF S

\* A page has the results from its offset on, as many as there are up to its limit; it
\* is full when there is more.
LEMMA CutIsTop ==
    ASSUME ServerOK, NEW q \in Query, NEW offset \in Nat
    PROVE  /\ Cut(q, offset) = Top(q, offset + 1, offset + SEARCH_RESULT_LIMIT)
           /\ Taken(q, offset + SEARCH_RESULT_LIMIT) < All(q)
                => offset + SEARCH_RESULT_LIMIT <= Found(q, All(q))
<1> DEFINE required == offset + SEARCH_RESULT_LIMIT
<1>1. required \in Nat \ {0}
  BY SearchAssumption
<1>2. PICK t \in 0..All(q) : t = Taken(q, required) /\ (Found(q, t) >= required \/ t = All(q))
  BY <1>1, TakenStops DEF Stops
<1>3. All(q) \in Nat /\ t \in Nat /\ t <= All(q)
  BY <1>2, CandidatesType
<1>4. Found(q, t) \in Nat /\ Found(q, All(q)) \in Nat /\ Found(q, t) <= Found(q, All(q))
  BY <1>3, FoundType, FoundGrows
<1>5. ASSUME NEW j \in Kept(q, All(q)), Found(q, j) <= required
      PROVE  j \in Kept(q, t)
  <2>1. j \in Nat /\ j <= All(q) /\ j \in Kept(q, j)
    BY <1>3 DEF Kept
  <2>2. t < j => Found(q, t) < Found(q, j)
    BY <1>3, <2>1, FoundGrows
  <2>3. Found(q, j) \in Nat
    BY <2>1, FoundType
  <2>4. j <= t
    BY <1>1, <1>2, <1>3, <1>4, <1>5, <2>1, <2>2, <2>3
  <2> QED BY <1>3, <2>1, <2>4 DEF Kept
<1>6. Kept(q, t) \subseteq Kept(q, All(q))
  BY <1>3 DEF Kept
<1>7. {j \in Kept(q, t) : Found(q, j) \in (offset + 1)..required}
        = {j \in Kept(q, All(q)) : Found(q, j) \in (offset + 1)..required}
  BY <1>5, <1>6
<1>8. Cut(q, offset) = Top(q, offset + 1, required)
  BY <1>2, <1>7 DEF Cut, Top, Ranked
<1>9. Taken(q, required) < All(q) => required <= Found(q, All(q))
  BY <1>1, <1>2, <1>3, <1>4
<1> QED BY <1>8, <1>9

\* How many results a page has.
LEMMA TopCounted ==
    ASSUME ServerOK, NEW q \in Query, NEW offset \in Nat
    PROVE  LET top == Top(q, offset + 1, offset + SEARCH_RESULT_LIMIT)
           IN  /\ top \subseteq Image /\ IsFiniteSet(top)
               /\ Cardinality(top) \in 0..SEARCH_RESULT_LIMIT
               /\ offset + SEARCH_RESULT_LIMIT <= Found(q, All(q))
                    => Cardinality(top) = SEARCH_RESULT_LIMIT
<1> DEFINE n == offset + SEARCH_RESULT_LIMIT
           found == Found(q, All(q))
<1>1. SEARCH_RESULT_LIMIT \in Nat \ {0}
  BY SearchAssumption
<1>2. All(q) \in Nat /\ found \in Nat
  BY CandidatesType, FoundType
<1>3. ASSUME NEW j \in Kept(q, All(q)) PROVE Found(q, j) \in 0..found
  <2>1. j \in Nat /\ j <= All(q)
    BY <1>2 DEF Kept
  <2> QED BY <1>2, <2>1, FoundType, FoundGrows
<1>4. CASE n <= found
  <2>1. Cardinality(Places(q, All(q), offset + 1, n)) = n - (offset + 1) + 1
    BY <1>1, <1>2, <1>4, PlacesCounted
  <2>2. n - (offset + 1) + 1 = SEARCH_RESULT_LIMIT
    BY <1>1
  <2> QED BY <1>1, <2>1, <2>2, RankedCounted
<1>5. CASE found < n /\ offset <= found
  <2>1. Places(q, All(q), offset + 1, n) = Places(q, All(q), offset + 1, found)
    BY <1>1, <1>2, <1>3, <1>5 DEF Places
  <2>2. Cardinality(Places(q, All(q), offset + 1, found)) = found - (offset + 1) + 1
    BY <1>1, <1>2, <1>5, PlacesCounted
  <2>3. found - (offset + 1) + 1 \in 0..SEARCH_RESULT_LIMIT
    BY <1>1, <1>2, <1>5
  <2> QED BY <1>1, <1>2, <1>5, <2>1, <2>2, <2>3, RankedCounted
<1>6. CASE found < offset
  <2>1. Places(q, All(q), offset + 1, n) = {}
    BY <1>1, <1>2, <1>3, <1>6 DEF Places
  <2>2. Cardinality(Places(q, All(q), offset + 1, n)) = 0
    BY <2>1, FS_EmptySet
  <2>3. ~(n <= found)
    BY <1>1, <1>2, <1>6
  <2> QED BY <1>1, <2>2, <2>3, RankedCounted
<1> QED BY <1>1, <1>2, <1>4, <1>5, <1>6

----------------------------------------------------------------------------
\* The invariant.

Index == (DOMAIN Ranking) \X (SUBSET Image)
Page == [index : Index, offset : Nat, results : SUBSET Image, more : BOOLEAN]
Request == [kind : {"first", "next", "refetch"}, offset : Nat, got : Seq(Page)]

\* What a page, answered at some time, has: an index and rows that were, and the results
\* of its place for as long as these are.
PageSound(q, page) ==
    /\ page \in Page
    /\ IsFiniteSet(page.results) /\ Cardinality(page.results) \in 0..SEARCH_RESULT_LIMIT
    /\ page.index[1] <= generation /\ page.index[2] \subseteq gone
    /\ page.index = server =>
          /\ page.results = Top(q, page.offset + 1, page.offset + SEARCH_RESULT_LIMIT)
          /\ page.more => page.offset + SEARCH_RESULT_LIMIT <= Found(q, All(q))

\* Pages that follow one another, the first at the beginning.
Chain(q, ps) ==
    /\ ps \in Seq(Page)
    /\ \A n \in 1..Len(ps) : PageSound(q, ps[n])
    /\ ps # <<>> => ps[1].offset = 0
    /\ \A n \in 1..(Len(ps) - 1) : ps[n].more /\ ps[n + 1].offset = Following(ps[n])

\* A page at this offset may follow.
Continues(ps, offset) ==
    IF ps = <<>> THEN offset = 0 ELSE End(ps).more /\ offset = Following(End(ps))

\* The pages, the request and the failure of a query: a request continues what is loaded
\* or, to load it again, what it has got, and only a page that follows fails to load.
QuerySound(q, ps, f, failure) ==
    /\ Chain(q, ps) /\ f \in Request \cup {NoFetch} /\ failure \in BOOLEAN
    /\ f # NoFetch =>
          /\ f.kind = "refetch" => Chain(q, f.got) /\ Continues(f.got, f.offset)
          /\ f.kind # "refetch" => f.got = <<>> /\ Continues(ps, f.offset)
          /\ f.kind = "first" => ps = <<>>
          /\ f.kind = "next" => ps # <<>>
    /\ failure /\ ps # <<>> => End(ps).more

ResultsOK ==
    /\ pages \in [Query -> Seq(Page)]
    /\ fetch \in [Query -> Request \cup {NoFetch}]
    /\ failed \in [Query -> BOOLEAN]
    /\ \A q \in Query : QuerySound(q, pages[q], fetch[q], failed[q])
ViewOK ==
    /\ text \in Text /\ url \in Text
    /\ window \in Nat \ {0}
    /\ typed \in 0..MaxTyped /\ changes \in 0..MaxChanges /\ faults \in 0..MaxFaults

IInv == ServerOK /\ ViewOK /\ ResultsOK

----------------------------------------------------------------------------
LEMMA InitIInv == Init => IInv
<1> SUFFICES ASSUME Init PROVE IInv
  OBVIOUS
<1>1. ServerOK
  BY SearchAssumption DEF Init, ServerOK
<1>2. ViewOK
  BY SearchAssumption DEF Init, ViewOK, Text
<1>3. ASSUME NEW q \in Query PROVE QuerySound(q, <<>>, NoFetch, FALSE)
  BY DEF QuerySound, Chain
<1>4. ResultsOK
  <2>1. /\ pages = [q \in Query |-> <<>>] /\ fetch = [q \in Query |-> NoFetch]
        /\ failed = [q \in Query |-> FALSE] /\ <<>> \in Seq(Page)
    BY DEF Init
  <2> QED BY <1>3, <2>1 DEF ResultsOK
<1> QED BY <1>1, <1>2, <1>4 DEF IInv

LEMMA IInvTypes == IInv => TypeOK
<1> SUFFICES ASSUME IInv PROVE TypeOK
  OBVIOUS
<1>1. ASSUME NEW q \in Query
      PROVE  /\ pages[q] = <<>> \/ pages[q][1].offset = 0
             /\ \A n \in DOMAIN pages[q] : Cardinality(pages[q][n].results) <= SEARCH_RESULT_LIMIT
  <2>1. Chain(q, pages[q]) /\ pages[q] \in Seq(Page)
    BY DEF IInv, ResultsOK, QuerySound
  <2>2. DOMAIN pages[q] = 1..Len(pages[q])
    BY <2>1
  <2>3. \A n \in DOMAIN pages[q] : Cardinality(pages[q][n].results) \in 0..SEARCH_RESULT_LIMIT
    BY <2>1, <2>2 DEF Chain, PageSound
  <2> QED BY <2>1, <2>3, SearchAssumption DEF Chain
<1>2. ASSUME NEW q \in Query PROVE fetch[q].kind \in {"none", "first", "next", "refetch"}
  BY DEF IInv, ResultsOK, Request, NoFetch
<1> QED BY <1>1, <1>2 DEF IInv, ServerOK, ViewOK, ResultsOK, TypeOK

\* An answer is a sound page.
LEMMA AnswerSound ==
    ASSUME ServerOK, NEW q \in Query, NEW offset \in Nat
    PROVE  PageSound(q, Answer(q, offset)) /\ Answer(q, offset).offset = offset
<1> DEFINE top == Top(q, offset + 1, offset + SEARCH_RESULT_LIMIT)
           rest == Taken(q, offset + SEARCH_RESULT_LIMIT) < All(q)
<1>1. Cut(q, offset) = top /\ top \subseteq Image /\ IsFiniteSet(top)
      /\ Cardinality(top) \in 0..SEARCH_RESULT_LIMIT
  BY CutIsTop, TopCounted
<1>2. rest => offset + SEARCH_RESULT_LIMIT <= Found(q, All(q))
  BY CutIsTop
<1>3. Answer(q, offset) = [index |-> server, offset |-> offset, results |-> top, more |-> rest]
  BY <1>1 DEF Answer, All
<1>4. server \in Index /\ server[1] = generation /\ server[2] = gone
  BY DEF ServerOK, server, Index
<1>5. rest \in BOOLEAN
  OBVIOUS
<1> HIDE DEF top, rest
<1>6. Answer(q, offset) \in Page
  BY <1>1, <1>3, <1>4, <1>5 DEF Page
<1>7. generation <= generation
  BY SearchAssumption DEF ServerOK
<1> QED BY <1>1, <1>2, <1>3, <1>4, <1>6, <1>7 DEF PageSound, top

LEMMA ChainGrows ==
    ASSUME NEW q \in Query, NEW ps, Chain(q, ps), NEW page, PageSound(q, page),
           Continues(ps, page.offset)
    PROVE  Chain(q, Append(ps, page))
<1>1. ps \in Seq(Page) /\ page \in Page /\ Len(ps) \in Nat
  BY DEF Chain, PageSound
<1>2. PICK new : new = Append(ps, page) /\ new \in Seq(Page)
  <2>1. Append(ps, page) \in Seq(Page)
    BY <1>1
  <2> QED BY <2>1
<1>3. /\ Len(new) = Len(ps) + 1 /\ new[Len(ps) + 1] = page
      /\ \A n \in 1..Len(ps) : new[n] = ps[n]
  BY <1>1, <1>2
<1>4. \A n \in 1..Len(new) : PageSound(q, new[n])
  BY <1>1, <1>3 DEF Chain
<1>5. new[1].offset = 0
  BY <1>1, <1>3 DEF Chain, Continues
<1>6. ASSUME NEW n \in 1..(Len(new) - 1)
      PROVE  new[n].more /\ new[n + 1].offset = Following(new[n])
  <2>1. CASE n = Len(ps)
    BY <1>1, <1>3, <2>1 DEF Continues, End
  <2>2. CASE n # Len(ps)
    BY <1>1, <1>3, <2>2 DEF Chain
  <2> QED BY <2>1, <2>2
<1> QED BY <1>2, <1>4, <1>5, <1>6 DEF Chain

----------------------------------------------------------------------------
\* What pages of one index show.

LEMMA TopJoins ==
    ASSUME ServerOK, NEW q \in Query, NEW m \in Nat, NEW n \in Nat, m <= n
    PROVE  /\ Top(q, 1, m) \cup Top(q, m + 1, n) = Top(q, 1, n)
           /\ \A k \in Nat, l \in Nat : k > n => Top(q, m, n) \cap Top(q, k, l) = {}
<1> DEFINE K == Kept(q, All(q))
<1>1. ASSUME NEW j \in K PROVE Found(q, j) \in Nat /\ j \in 1..All(q)
  <2>1. j \in 1..All(q) /\ j \in Nat
    BY CandidatesType DEF Kept
  <2> QED BY <2>1, FoundType
<1>2. \A j \in K : Found(q, j) \in 1..n <=> Found(q, j) \in 1..m \/ Found(q, j) \in (m + 1)..n
  BY <1>1
<1>3. \A k, l \in Nat : Top(q, k, l) = {Candidates(q)[i] : i \in {j \in K : Found(q, j) \in k..l}}
  BY DEF Top, Ranked
<1>4. Top(q, 1, m) \cup Top(q, m + 1, n) = Top(q, 1, n)
  <2> HIDE DEF K
  <2> QED BY <1>2, <1>3
<1>5. ASSUME NEW k \in Nat, NEW l \in Nat, k > n, NEW x \in Top(q, m, n) \cap Top(q, k, l)
      PROVE  FALSE
  <2>1. PICK i \in K : x = Candidates(q)[i] /\ Found(q, i) \in m..n
    BY <1>3, <1>5
  <2>2. PICK j \in K : x = Candidates(q)[j] /\ Found(q, j) \in k..l
    BY <1>3, <1>5
  <2>3. i = j
    BY <1>1, <2>1, <2>2, CandidatesType
  <2> QED BY <1>1, <1>5, <2>1, <2>2, <2>3
<1> QED BY <1>4, <1>5

\* The beginning of the ranking is told by how much it shows.
LEMMA TopOfItsLength ==
    ASSUME ServerOK, NEW q \in Query, NEW n \in Nat
    PROVE  Top(q, 1, n) = Top(q, 1, Cardinality(Top(q, 1, n)))
<1> DEFINE found == Found(q, All(q))
<1>1. All(q) \in Nat /\ found \in Nat
  BY CandidatesType, FoundType
<1>2. \A j \in Kept(q, All(q)) : Found(q, j) \in 0..found
  <2> SUFFICES ASSUME NEW j \in Kept(q, All(q)) PROVE Found(q, j) \in 0..found
    OBVIOUS
  <2>1. j \in Nat /\ j <= All(q)
    BY <1>1 DEF Kept
  <2> QED BY <1>1, <2>1, FoundType, FoundGrows
<1>3. CASE n <= found
  <2>1. Cardinality(Places(q, All(q), 1, n)) = n - 1 + 1
    BY <1>1, <1>3, PlacesCounted
  <2> QED BY <2>1, RankedCounted
<1>4. CASE found < n
  <2>1. Cardinality(Places(q, All(q), 1, found)) = found - 1 + 1
    BY <1>1, PlacesCounted
  <2>2. Cardinality(Top(q, 1, found)) = found
    BY <1>1, <2>1, RankedCounted
  <2>3. {j \in Kept(q, All(q)) : Found(q, j) \in 1..n}
          = {j \in Kept(q, All(q)) : Found(q, j) \in 1..found}
    BY <1>1, <1>2, <1>4
  <2>4. Top(q, 1, n) = Top(q, 1, found)
    BY <2>3 DEF Top, Ranked
  <2> QED BY <2>2, <2>4
<1> QED BY <1>1, <1>3, <1>4

LEMMA ChainShows ==
    ASSUME ServerOK, NEW q \in Query, NEW ps, Chain(q, ps), ps # <<>>, OfOneIndex(ps)
    PROVE  /\ \A m, n \in DOMAIN ps : m # n => ps[m].results \cap ps[n].results = {}
           /\ \E n \in Nat : Shown(ps) = Top(q, 1, n)
<1> DEFINE N == Len(ps)
           Upto(n) == UNION {ps[k].results : k \in 1..n}
<1>1. ps \in Seq(Page) /\ DOMAIN ps = 1..N /\ N \in Nat \ {0} /\ SEARCH_RESULT_LIMIT \in Nat \ {0}
  BY SearchAssumption DEF Chain
<1>2. \A n \in 1..N : ps[n] \in Page /\ ps[n].offset \in Nat
  BY <1>1 DEF Chain, PageSound, Page
<1>3. \A n \in 1..N :
        /\ ps[n].results = Top(q, ps[n].offset + 1, ps[n].offset + SEARCH_RESULT_LIMIT)
        /\ ps[n].more => ps[n].offset + SEARCH_RESULT_LIMIT <= Found(q, All(q))
  BY <1>1 DEF Chain, PageSound, OfOneIndex
<1>4. \A n \in 1..(N - 1) : ps[n + 1].offset = ps[n].offset + SEARCH_RESULT_LIMIT
  <2> SUFFICES ASSUME NEW n \in 1..(N - 1)
               PROVE  ps[n + 1].offset = ps[n].offset + SEARCH_RESULT_LIMIT
    OBVIOUS
  <2>1. ps[n].more /\ ps[n + 1].offset = Following(ps[n]) /\ n \in 1..N
    BY <1>1 DEF Chain
  <2>2. Cardinality(ps[n].results) = SEARCH_RESULT_LIMIT
    BY <1>2, <1>3, <2>1, TopCounted
  <2> QED BY <2>1, <2>2 DEF Following
<1>5. ps[1].offset = 0
  BY DEF Chain
<1> HIDE DEF N
<1>6. \A m, n \in 1..N : m < n => ps[m].offset + SEARCH_RESULT_LIMIT <= ps[n].offset
  <2> DEFINE Bad == {n \in 1..N :
                \E m \in 1..N : m < n /\ ~(ps[m].offset + SEARCH_RESULT_LIMIT <= ps[n].offset)}
  <2> SUFFICES ASSUME Bad # {} PROVE FALSE
    OBVIOUS
  <2>1. Bad \in SUBSET Nat
    BY <1>1
  <2>2. PICK n \in Bad : \A k \in Bad : n <= k
    <3> HIDE DEF Bad
    <3> QED BY <2>1, LeastNumber
  <2>3. PICK m \in 1..N : m < n /\ ~(ps[m].offset + SEARCH_RESULT_LIMIT <= ps[n].offset)
    BY <2>2
  <2>4. n \in 1..N /\ n - 1 \in 1..(N - 1) /\ n - 1 \in 1..N /\ (n - 1) + 1 = n /\ ~(n <= n - 1)
    BY <1>1, <2>2, <2>3
  <2>5. ps[n].offset = ps[n - 1].offset + SEARCH_RESULT_LIMIT
    BY <1>4, <2>4
  <2>6. m # n - 1
    <3>1. ps[n - 1].offset + SEARCH_RESULT_LIMIT \in Nat
      <4>1. ps[n - 1].offset \in Nat /\ SEARCH_RESULT_LIMIT \in Nat
        BY <1>1, <1>2, <2>4
      <4> QED BY <4>1
    <3>2. ps[n - 1].offset + SEARCH_RESULT_LIMIT <= ps[n].offset
      BY <2>5, <3>1
    <3> QED BY <2>3, <3>2
  <2>7. n - 1 \notin Bad
    <3> HIDE DEF Bad
    <3> QED BY <2>2, <2>4
  <2>8. ps[m].offset + SEARCH_RESULT_LIMIT <= ps[n - 1].offset
    BY <1>1, <2>3, <2>4, <2>6, <2>7
  <2>9. ps[m].offset \in Nat /\ ps[n - 1].offset \in Nat
    BY <1>2, <2>3, <2>4
  <2>10. ASSUME NEW x \in Nat, NEW y \in Nat, NEW limit \in Nat \ {0}, x + limit <= y
         PROVE  x + limit <= y + limit
    BY <2>10
  <2>11. ps[m].offset + SEARCH_RESULT_LIMIT <= ps[n - 1].offset + SEARCH_RESULT_LIMIT
    BY <1>1, <2>8, <2>9, <2>10
  <2> QED BY <2>3, <2>5, <2>11
<1>7. ASSUME NEW m \in 1..N, NEW n \in 1..N, m < n
      PROVE  ps[m].results \cap ps[n].results = {}
  <2>1. ps[m].offset \in Nat /\ ps[n].offset \in Nat
        /\ ps[m].offset + SEARCH_RESULT_LIMIT <= ps[n].offset
    BY <1>2, <1>6, <1>7
  <2> DEFINE a == ps[m].offset + 1
             b == ps[m].offset + SEARCH_RESULT_LIMIT
             c == ps[n].offset + 1
             d == ps[n].offset + SEARCH_RESULT_LIMIT
  <2>2. a \in Nat /\ b \in Nat /\ c \in Nat /\ d \in Nat /\ a <= b /\ c > b
    <3>1. SEARCH_RESULT_LIMIT \in Nat \ {0}
      BY <1>1
    <3>2. ASSUME NEW x \in Nat, NEW y \in Nat, NEW limit \in Nat \ {0}, x + limit <= y
          PROVE  /\ x + 1 \in Nat /\ x + limit \in Nat /\ y + 1 \in Nat /\ y + limit \in Nat
                 /\ x + 1 <= x + limit /\ y + 1 > x + limit
      BY <3>2
    <3> QED BY <2>1, <3>1, <3>2
  <2>3. ps[m].results = Top(q, a, b) /\ ps[n].results = Top(q, c, d)
    BY <1>3
  <2> HIDE DEF a, b, c, d
  <2> QED BY <2>2, <2>3, TopJoins
<1>8. \A m, n \in DOMAIN ps : m # n => ps[m].results \cap ps[n].results = {}
  BY <1>1, <1>7
<1>9. \A n \in 1..N : Upto(n) = Top(q, 1, ps[n].offset + SEARCH_RESULT_LIMIT)
  <2> DEFINE Bad == {n \in 1..N : Upto(n) # Top(q, 1, ps[n].offset + SEARCH_RESULT_LIMIT)}
  <2> SUFFICES ASSUME Bad # {} PROVE FALSE
    OBVIOUS
  <2>1. Bad \in SUBSET Nat
    BY <1>1
  <2>2. PICK n \in Bad : \A k \in Bad : n <= k
    <3> HIDE DEF Bad
    <3> QED BY <2>1, LeastNumber
  <2>3. n \in 1..N /\ Upto(n) # Top(q, 1, ps[n].offset + SEARCH_RESULT_LIMIT)
    BY <2>2
  <2>4. n # 1
    <3>1. Upto(1) = ps[1].results
      OBVIOUS
    <3>2. 1 \in 1..N /\ ps[1].offset + 1 = 1
      BY <1>1, <1>5
    <3>3. ps[1].results = Top(q, 1, ps[1].offset + SEARCH_RESULT_LIMIT)
      BY <1>3, <3>2
    <3> QED BY <2>3, <3>1, <3>3
  <2>5. n - 1 \in 1..(N - 1) /\ n - 1 \in 1..N /\ (n - 1) + 1 = n /\ ~(n <= n - 1)
    BY <1>1, <2>3, <2>4
  <2>6. ps[n].offset = ps[n - 1].offset + SEARCH_RESULT_LIMIT
    BY <1>4, <2>5
  <2>7. n - 1 \notin Bad
    <3> HIDE DEF Bad
    <3> QED BY <2>2, <2>5
  <2>8. Upto(n - 1) = Top(q, 1, ps[n].offset)
    BY <2>5, <2>6, <2>7
  <2>9. Upto(n) = Upto(n - 1) \cup ps[n].results
    <3>1. 1..n = (1..(n - 1)) \cup {n}
      BY <2>3, <2>5
    <3> QED BY <3>1
  <2>10. PICK a \in Nat, b \in Nat :
            a = ps[n].offset /\ b = ps[n].offset + SEARCH_RESULT_LIMIT /\ a <= b
    BY <1>1, <1>2, <2>3
  <2>11. ps[n].results = Top(q, a + 1, b) /\ Upto(n - 1) = Top(q, 1, a)
    BY <1>3, <2>3, <2>8, <2>10
  <2>12. Upto(n) = Top(q, 1, b)
    <3> HIDE DEF Upto
    <3> QED BY <2>9, <2>10, <2>11, TopJoins
  <2> QED BY <2>3, <2>10, <2>12
<1>10. N \in 1..N /\ ps[N].offset + SEARCH_RESULT_LIMIT \in Nat
  BY <1>1, <1>2
<1>11. Shown(ps) = Upto(N)
  BY <1>1 DEF Shown
<1> QED BY <1>8, <1>9, <1>10, <1>11

LEMMA SoundShows == IInv => NothingSkipped
<1> SUFFICES ASSUME IInv, NEW q \in Query, OfOneIndex(pages[q])
             PROVE  /\ \A m, n \in DOMAIN pages[q] :
                          m # n => pages[q][m].results \cap pages[q][n].results = {}
                    /\ Shown(pages[q]) = Top(q, 1, Cardinality(Shown(pages[q])))
  BY DEF NothingSkipped, Top, All
<1>1. ServerOK /\ Chain(q, pages[q])
  BY DEF IInv, ResultsOK, QuerySound
<1>2. CASE pages[q] = <<>>
  <2>1. Shown(pages[q]) = {} /\ DOMAIN pages[q] = {}
    BY <1>2 DEF Shown
  <2>2. Cardinality(Shown(pages[q])) = 0
    BY <2>1, FS_EmptySet
  <2>3. Top(q, 1, 0) = {}
    BY DEF Top, Ranked
  <2> QED BY <2>1, <2>2, <2>3
<1>3. CASE pages[q] # <<>>
  <2>1. PICK n \in Nat : Shown(pages[q]) = Top(q, 1, n)
    BY <1>1, <1>3, ChainShows
  <2>2. Shown(pages[q]) = Top(q, 1, Cardinality(Shown(pages[q])))
    BY <1>1, <2>1, TopOfItsLength
  <2> QED BY <1>1, <1>3, <2>2, ChainShows
<1> QED BY <1>2, <1>3

----------------------------------------------------------------------------
\* What a step does.

\* An index and rows that were stay so, and those that answer change for good.
LEMMA ServerStep ==
    ASSUME IInv, [Next]_vars
    PROVE  /\ ServerOK' /\ generation \in Nat /\ generation' \in Nat
           /\ generation <= generation' /\ gone \subseteq gone'
<1>0. generation \in Nat /\ ServerOK
  BY SearchAssumption DEF IInv, ServerOK
<1>1. CASE UNCHANGED server
  BY <1>0, <1>1 DEF server, ServerOK
<1>2. CASE Activate
  <2>1. generation' = generation + 1 /\ generation < Len(Ranking) /\ gone' = gone
    BY <1>2 DEF Activate
  <2>2. DOMAIN Ranking = 1..Len(Ranking) /\ Len(Ranking) \in Nat
    BY SearchAssumption
  <2> QED BY <1>0, <2>1, <2>2 DEF ServerOK
<1>3. CASE \E i \in Image : DropRow(i)
  BY <1>0, <1>3 DEF DropRow, ServerOK
<1>4. UNCHANGED server \/ Activate \/ \E i \in Image : DropRow(i)
  BY DEF Next, vars, Type, Follow, Visit, LoadMore, Extend, Retry, Refetch, Arrive, Fail
<1> QED BY <1>1, <1>2, <1>3, <1>4

LEMMA TopStays ==
    ASSUME UNCHANGED <<generation, gone>>, NEW q
    PROVE  /\ server' = server /\ All(q)' = All(q)
           /\ \A p : Found(q, p)' = Found(q, p)
           /\ \A m, n : Top(q, m, n)' = Top(q, m, n)
<1>1. Candidates(q)' = Candidates(q) /\ All(q)' = All(q) /\ server' = server
  BY DEF Candidates, All, server
<1>2. \A p : Kept(q, p)' = Kept(q, p)
  BY <1>1 DEF Kept
<1>3. \A p : Found(q, p)' = Found(q, p)
  BY <1>2 DEF Found
<1>4. \A m, n : Top(q, m, n)' = Top(q, m, n)
  BY <1>1, <1>2, <1>3 DEF Top, Ranked
<1> QED BY <1>1, <1>3, <1>4

LEMMA PageStays ==
    ASSUME IInv, [Next]_vars, NEW q \in Query, NEW page, PageSound(q, page)
    PROVE  PageSound(q, page)'
<1>1. /\ page \in Page /\ page.index[1] \in Nat
      /\ page.index[1] <= generation /\ page.index[2] \subseteq gone
  <2>1. /\ page \in Page /\ page.index[1] <= generation /\ page.index[2] \subseteq gone
    BY DEF PageSound
  <2>2. page.index \in Index /\ DOMAIN Ranking \subseteq Nat
    BY <2>1, SearchAssumption DEF Page
  <2>3. page.index[1] \in Nat
    BY <2>2 DEF Index
  <2> QED BY <2>1, <2>3
<1>2. /\ ServerOK' /\ generation \in Nat /\ generation' \in Nat
      /\ generation <= generation' /\ gone \subseteq gone'
  BY ServerStep
<1>3. page.index = server' => UNCHANGED <<generation, gone>>
  <2> SUFFICES ASSUME page.index = <<generation', gone'>> PROVE UNCHANGED <<generation, gone>>
    BY DEF server
  <2>1. page.index[1] = generation' /\ page.index[2] = gone'
    OBVIOUS
  <2>2. generation' = generation
    BY <1>1, <1>2, <2>1
  <2> QED BY <1>1, <1>2, <2>1, <2>2
<1>4. page.index[1] <= generation' /\ page.index[2] \subseteq gone'
  BY <1>1, <1>2
<1>5. CASE UNCHANGED <<generation, gone>>
  <2>1. /\ server' = server /\ All(q)' = All(q)
        /\ \A p : Found(q, p)' = Found(q, p)
        /\ \A m, n : Top(q, m, n)' = Top(q, m, n)
    BY <1>5, TopStays
  <2> QED BY <1>4, <2>1 DEF PageSound
<1>6. CASE page.index # server'
  BY <1>4, <1>6 DEF PageSound
<1> QED BY <1>3, <1>5, <1>6

LEMMA ChainStays ==
    ASSUME IInv, [Next]_vars, NEW q \in Query, NEW ps, Chain(q, ps)
    PROVE  Chain(q, ps)'
BY PageStays DEF Chain

LEMMA QueryStays ==
    ASSUME IInv, [Next]_vars, NEW q \in Query, NEW ps, NEW f, NEW b, QuerySound(q, ps, f, b)
    PROVE  QuerySound(q, ps, f, b)'
BY ChainStays DEF QuerySound

\* One query moves, or none does: the others stay sound when the server changes.
LEMMA QueryMoves ==
    ASSUME IInv, [Next]_vars, NEW q \in Query, NEW ps, NEW f, NEW b, QuerySound(q, ps, f, b),
           pages' = [pages EXCEPT ![q] = ps], fetch' = [fetch EXCEPT ![q] = f],
           failed' = [failed EXCEPT ![q] = b]
    PROVE  ResultsOK'
<1>1. ps \in Seq(Page) /\ f \in Request \cup {NoFetch} /\ b \in BOOLEAN
  BY DEF QuerySound, Chain
<1>2. /\ pages' \in [Query -> Seq(Page)] /\ fetch' \in [Query -> Request \cup {NoFetch}]
      /\ failed' \in [Query -> BOOLEAN]
  BY <1>1 DEF IInv, ResultsOK
<1>3. ASSUME NEW x \in Query PROVE QuerySound(x, pages[x], fetch[x], failed[x])'
  <2>1. PICK qs, g, c : /\ qs = pages'[x] /\ g = fetch'[x] /\ c = failed'[x]
                        /\ QuerySound(x, qs, g, c)
    <3>1. CASE x = q
      BY <3>1 DEF IInv, ResultsOK
    <3>2. CASE x # q
      BY <3>2 DEF IInv, ResultsOK
    <3> QED BY <3>1, <3>2
  <2> QED BY <2>1, QueryStays
<1> QED BY <1>2, <1>3 DEF ResultsOK

LEMMA QueriesRest ==
    ASSUME IInv, [Next]_vars, UNCHANGED results
    PROVE  ResultsOK'
<1>1. UNCHANGED <<pages, fetch, failed>>
  BY DEF results
<1>2. ASSUME NEW x \in Query PROVE QuerySound(x, pages[x], fetch[x], failed[x])'
  <2>1. PICK qs, g, c : /\ qs = pages[x] /\ g = fetch[x] /\ c = failed[x]
                        /\ QuerySound(x, qs, g, c)
    BY DEF IInv, ResultsOK
  <2> QED BY <1>1, <2>1, QueryStays
<1> QED BY <1>1, <1>2 DEF IInv, ResultsOK

\* A request is sent, or not.
LEMMA SendStep ==
    ASSUME IInv, [Next]_vars, NEW q \in Query, NEW kind \in {"first", "next", "refetch"},
           NEW b \in BOOLEAN, b => failed[q],
           kind = "first" <=> pages[q] = <<>>,
           kind = "next" => End(pages[q]).more,
           UNCHANGED pages,
           fetch' = [fetch EXCEPT ![q] =
              Fetch(kind, IF kind = "next" THEN Following(End(pages[q])) ELSE 0, <<>>)],
           failed' = [failed EXCEPT ![q] = b]
    PROVE  ResultsOK'
<1>1. QuerySound(q, pages[q], fetch[q], failed[q]) /\ pages[q] \in Seq(Page)
  BY DEF IInv, ResultsOK
<1>2. kind = "next" => Following(End(pages[q])) \in Nat
  <2> SUFFICES ASSUME kind = "next" PROVE Following(End(pages[q])) \in Nat
    OBVIOUS
  <2>1. Len(pages[q]) \in 1..Len(pages[q])
    BY <1>1
  <2>2. PageSound(q, End(pages[q])) /\ End(pages[q]) \in Page
    BY <1>1, <2>1 DEF QuerySound, Chain, End
  <2> QED BY <2>2, SearchAssumption DEF PageSound, Page, Following
<1>3. PICK n \in Nat : n = IF kind = "next" THEN Following(End(pages[q])) ELSE 0
  BY <1>2
<1>4. PICK f : f = Fetch(kind, n, <<>>) /\ f \in Request
  <2>1. <<>> \in Seq(Page)
    OBVIOUS
  <2>2. [kind |-> kind, offset |-> n, got |-> <<>>] \in Request
    BY <2>1 DEF Request
  <2> QED BY <2>2 DEF Fetch
<1>5. f.kind = kind /\ f.offset = n /\ f.got = <<>>
  BY <1>4 DEF Fetch
<1>6. Chain(q, <<>>)
  BY DEF Chain
<1>7. QuerySound(q, pages[q], f, b)
  <2>1. kind = "refetch" => Chain(q, f.got) /\ Continues(f.got, f.offset)
    BY <1>3, <1>5, <1>6 DEF Continues
  <2>2. kind # "refetch" => f.got = <<>> /\ Continues(pages[q], f.offset)
    BY <1>3, <1>5 DEF Continues
  <2>3. Chain(q, pages[q]) /\ (b /\ pages[q] # <<>> => End(pages[q]).more)
    BY <1>1 DEF QuerySound
  <2>4. kind = "next" => pages[q] # <<>>
    OBVIOUS
  <2> QED BY <1>4, <1>5, <2>1, <2>2, <2>3, <2>4 DEF QuerySound
<1>8. pages' = [pages EXCEPT ![q] = pages[q]]
  BY DEF IInv, ResultsOK
<1>9. PICK ps : ps = pages[q]
  OBVIOUS
<1> QED BY <1>3, <1>4, <1>7, <1>8, <1>9, QueryMoves

LEMMA ShowStep ==
    ASSUME IInv, [Next]_vars, NEW x \in Text, Show(x), UNCHANGED pages
    PROVE  ResultsOK' /\ url' \in Text /\ window' \in Nat \ {0}
<1>1. url' \in Text /\ window' \in Nat \ {0}
  BY SearchAssumption DEF Show, IInv, ViewOK
<1>2. CASE x \in Query /\ pages[x] = <<>> /\ fetch[x] = NoFetch
  <2>1. /\ fetch' = [fetch EXCEPT ![x] = Fetch("first", 0, <<>>)]
        /\ failed' = [failed EXCEPT ![x] = FALSE]
    BY <1>2 DEF Show
  <2>2. PICK kind \in {"first", "next", "refetch"} : kind = "first"
    OBVIOUS
  <2>3. fetch' = [fetch EXCEPT ![x] =
              Fetch(kind, IF kind = "next" THEN Following(End(pages[x])) ELSE 0, <<>>)]
    BY <2>1, <2>2
  <2>4. ResultsOK'
    BY <1>2, <2>1, <2>2, <2>3, SendStep
  <2> QED BY <1>1, <2>4
<1>3. CASE ~(x \in Query /\ pages[x] = <<>> /\ fetch[x] = NoFetch)
  BY <1>1, <1>3, QueriesRest DEF Show, results
<1> QED BY <1>2, <1>3

LEMMA LoadMoreStep ==
    ASSUME IInv, [Next]_vars, NEW q \in Query, LoadMore(q)
    PROVE  ResultsOK'
<1>1. /\ pages[q] # <<>> /\ End(pages[q]).more /\ UNCHANGED <<pages, failed>>
      /\ fetch' = [fetch EXCEPT ![q] = Fetch("next", Following(End(pages[q])), <<>>)]
  BY DEF LoadMore, HasNextPage
<1>2. failed' = [failed EXCEPT ![q] = failed[q]] /\ failed[q] \in BOOLEAN
  BY <1>1 DEF IInv, ResultsOK
<1>3. PICK kind \in {"first", "next", "refetch"} : kind = "next"
  OBVIOUS
<1>4. PICK b \in BOOLEAN : b = failed[q]
  BY <1>2
<1>5. fetch' = [fetch EXCEPT ![q] =
              Fetch(kind, IF kind = "next" THEN Following(End(pages[q])) ELSE 0, <<>>)]
  BY <1>1, <1>3
<1> QED BY <1>1, <1>2, <1>3, <1>4, <1>5, SendStep

LEMMA RetryStep ==
    ASSUME IInv, [Next]_vars, NEW q \in Query, Retry(q)
    PROVE  ResultsOK'
<1>1. /\ failed[q] /\ pages[q] # <<>> /\ UNCHANGED <<pages, failed>>
      /\ fetch' = [fetch EXCEPT ![q] = Fetch("next", Following(End(pages[q])), <<>>)]
  BY DEF Retry, HasNextPage
<1>2. failed' = [failed EXCEPT ![q] = failed[q]] /\ failed[q] \in BOOLEAN
  BY <1>1 DEF IInv, ResultsOK
<1>3. PICK kind \in {"first", "next", "refetch"} : kind = "next"
  OBVIOUS
<1>4. kind = "next" => End(pages[q]).more
  BY <1>1, <1>3 DEF IInv, ResultsOK, QuerySound
<1>5. PICK b \in BOOLEAN : b = failed[q]
  BY <1>2
<1>6. fetch' = [fetch EXCEPT ![q] =
              Fetch(kind, IF kind = "next" THEN Following(End(pages[q])) ELSE 0, <<>>)]
  BY <1>1, <1>3
<1> QED BY <1>1, <1>2, <1>3, <1>4, <1>5, <1>6, SendStep

LEMMA RefetchStep ==
    ASSUME IInv, [Next]_vars, NEW q \in Query, Refetch(q)
    PROVE  ResultsOK'
<1>1. /\ pages[q] # <<>> /\ UNCHANGED pages
      /\ fetch' = [fetch EXCEPT ![q] = Fetch("refetch", 0, <<>>)]
      /\ failed' = [failed EXCEPT ![q] = FALSE]
  BY DEF Refetch
<1>2. PICK kind \in {"first", "next", "refetch"} : kind = "refetch"
  OBVIOUS
<1>3. fetch' = [fetch EXCEPT ![q] =
              Fetch(kind, IF kind = "next" THEN Following(End(pages[q])) ELSE 0, <<>>)]
  BY <1>1, <1>2
<1> QED BY <1>1, <1>2, <1>3, SendStep

\* The request of a query ends.
LEMMA EndStep ==
    ASSUME IInv, [Next]_vars, NEW q \in Query, NEW ps, Chain(q, ps), NEW b \in BOOLEAN,
           b /\ ps # <<>> => End(ps).more,
           pages' = [pages EXCEPT ![q] = ps], fetch' = [fetch EXCEPT ![q] = NoFetch],
           failed' = [failed EXCEPT ![q] = b]
    PROVE  ResultsOK'
<1>1. PICK f : f = NoFetch
  OBVIOUS
<1>2. QuerySound(q, ps, f, b)
  BY <1>1 DEF QuerySound
<1> QED BY <1>1, <1>2, QueryMoves

LEMMA ArriveStep ==
    ASSUME IInv, [Next]_vars, NEW q \in Query, Arrive(q)
    PROVE  ResultsOK'
<1>1. QuerySound(q, pages[q], fetch[q], failed[q]) /\ ServerOK
  BY DEF IInv, ResultsOK
<1>2. PICK f \in Request : f = fetch[q]
  BY <1>1 DEF Arrive, QuerySound
<1>3. f # NoFetch /\ f.offset \in Nat /\ f.kind \in {"first", "next", "refetch"}
  BY <1>2 DEF Arrive, Request
<1>4. PICK page : page = Answer(q, f.offset)
  OBVIOUS
<1>5. PageSound(q, page) /\ page.offset = f.offset
  BY <1>1, <1>3, <1>4, AnswerSound
<1>6. PICK got : got = Append(f.got, page)
  OBVIOUS
<1>7. IF f.kind = "refetch" /\ GoesOn(q, got)
      THEN /\ fetch' = [fetch EXCEPT ![q] = Fetch("refetch", Following(End(got)), got)]
           /\ UNCHANGED <<pages, failed>>
      ELSE /\ pages' = [pages EXCEPT ![q] = IF f.kind = "next" THEN pages[q] \o got ELSE got]
           /\ fetch' = [fetch EXCEPT ![q] = NoFetch]
           /\ failed' = [failed EXCEPT ![q] = FALSE]
  BY <1>2, <1>4, <1>6 DEF Arrive
<1>8. f.kind # "next" => Chain(q, got)
  <2>1. f.kind # "next" => Chain(q, f.got) /\ Continues(f.got, page.offset)
    <3>1. Chain(q, <<>>)
      BY DEF Chain
    <3> QED BY <1>1, <1>2, <1>3, <1>5, <3>1 DEF QuerySound
  <2> QED BY <1>5, <1>6, <2>1, ChainGrows
<1>9. f.kind = "next" => Chain(q, pages[q] \o got)
  <2> SUFFICES ASSUME f.kind = "next" PROVE Chain(q, pages[q] \o got)
    OBVIOUS
  <2>1. f.got = <<>> /\ Chain(q, pages[q]) /\ Continues(pages[q], page.offset)
    BY <1>1, <1>2, <1>3, <1>5 DEF QuerySound
  <2>2. pages[q] \o got = Append(pages[q], page)
    BY <1>5, <1>6, <2>1 DEF PageSound, Chain
  <2> QED BY <1>5, <2>1, <2>2, ChainGrows
<1>10. CASE f.kind = "refetch" /\ GoesOn(q, got)
  <2>1. got \in Seq(Page) /\ End(got).more /\ got # <<>> /\ Chain(q, got)
    <3>1. f.got \in Seq(Page) /\ page \in Page
      BY <1>5 DEF PageSound, Request
    <3>2. got \in Seq(Page) /\ got # <<>>
      BY <1>6, <3>1
    <3> QED BY <1>8, <1>10, <3>2 DEF GoesOn
  <2>2. End(got) = page
    BY <1>2, <1>5, <1>6 DEF End, Request, PageSound
  <2>3. PICK n \in Nat : n = Following(End(got))
    BY <1>5, <2>2, SearchAssumption DEF PageSound, Page, Following
  <2>4. PICK g : g = Fetch("refetch", n, got) /\ g \in Request
    <3>1. [kind |-> "refetch", offset |-> n, got |-> got] \in Request
      BY <2>1 DEF Request
    <3> QED BY <3>1 DEF Fetch
  <2>5. g.kind = "refetch" /\ g.offset = n /\ g.got = got
    BY <2>4 DEF Fetch
  <2>6. QuerySound(q, pages[q], g, failed[q])
    BY <1>1, <2>1, <2>3, <2>4, <2>5 DEF QuerySound, Continues
  <2>7. PICK ps, b : ps = pages[q] /\ b = failed[q]
    OBVIOUS
  <2>8. /\ pages' = [pages EXCEPT ![q] = ps] /\ failed' = [failed EXCEPT ![q] = b]
        /\ fetch' = [fetch EXCEPT ![q] = g]
    BY <1>7, <1>10, <2>3, <2>4, <2>7 DEF IInv, ResultsOK
  <2> QED BY <2>6, <2>7, <2>8, QueryMoves
<1>11. CASE ~(f.kind = "refetch" /\ GoesOn(q, got))
  <2>1. PICK ps : ps = IF f.kind = "next" THEN pages[q] \o got ELSE got
    OBVIOUS
  <2>2. Chain(q, ps)
    BY <1>8, <1>9, <2>1
  <2>3. /\ pages' = [pages EXCEPT ![q] = ps] /\ fetch' = [fetch EXCEPT ![q] = NoFetch]
        /\ failed' = [failed EXCEPT ![q] = FALSE]
    BY <1>7, <1>11, <2>1
  <2> QED BY <2>2, <2>3, EndStep
<1> QED BY <1>10, <1>11

LEMMA FailStep ==
    ASSUME IInv, [Next]_vars, NEW q \in Query, Fail(q)
    PROVE  ResultsOK'
<1>1. QuerySound(q, pages[q], fetch[q], failed[q])
  BY DEF IInv, ResultsOK
<1>2. PICK ps, b : ps = pages[q] /\ b = (fetch[q].kind # "refetch") /\ b \in BOOLEAN
  <2>1. (fetch[q].kind # "refetch") \in BOOLEAN
    OBVIOUS
  <2> QED BY <2>1
<1>3. /\ pages' = [pages EXCEPT ![q] = ps] /\ fetch' = [fetch EXCEPT ![q] = NoFetch]
      /\ failed' = [failed EXCEPT ![q] = b]
  BY <1>2 DEF Fail, IInv, ResultsOK
<1>4. Chain(q, ps) /\ (b /\ ps # <<>> => End(ps).more)
  BY <1>1, <1>2 DEF Fail, QuerySound, Continues
<1> QED BY <1>2, <1>3, <1>4, EndStep

LEMMA ResultsStep == ASSUME IInv, [Next]_vars PROVE ResultsOK'
<1>1. ASSUME NEW x \in Text, Show(x), UNCHANGED pages PROVE ResultsOK'
  BY <1>1, ShowStep
<1>2. ASSUME NEW q \in Query, LoadMore(q) \/ Retry(q) \/ Refetch(q) \/ Arrive(q) \/ Fail(q)
      PROVE  ResultsOK'
  BY <1>2, LoadMoreStep, RetryStep, RefetchStep, ArriveStep, FailStep
<1>3. CASE UNCHANGED results
  BY <1>3, QueriesRest
<1>4. CASE Type
  BY <1>1, <1>3, <1>4 DEF Type, results
<1>5. CASE Follow
  BY <1>1, <1>5 DEF Follow, IInv, ViewOK
<1>6. CASE Visit
  BY <1>1, <1>6 DEF Visit, Text
<1>7. ASSUME NEW q \in Query, Extend(q) PROVE UNCHANGED results
  BY <1>7 DEF Extend
<1>8. CASE Activate
  BY <1>3, <1>8 DEF Activate
<1>9. ASSUME NEW i \in Image, DropRow(i) PROVE UNCHANGED results
  BY <1>9 DEF DropRow
<1>10. CASE UNCHANGED vars
  BY <1>3, <1>10 DEF vars
<1> QED BY <1>2, <1>3, <1>4, <1>5, <1>6, <1>7, <1>8, <1>9, <1>10 DEF Next

LEMMA ViewStep == ASSUME IInv, [Next]_vars PROVE ViewOK'
<1>1. /\ text \in Text /\ url \in Text
      /\ window \in Nat \ {0} /\ AUTO_LOAD_WINDOW \in Nat \ {0}
      /\ typed \in 0..MaxTyped /\ changes \in 0..MaxChanges /\ faults \in 0..MaxFaults
      /\ MaxTyped \in Nat /\ MaxChanges \in Nat /\ MaxFaults \in Nat
  BY SearchAssumption DEF IInv, ViewOK
<1>2. ASSUME NEW x \in Text, Show(x) PROVE url' \in Text /\ window' \in Nat \ {0}
  BY <1>1, <1>2 DEF Show
<1>3. /\ text' \in Text /\ url' \in Text /\ window' \in Nat \ {0}
  <2>1. CASE UNCHANGED <<text, url, window>>
    BY <1>1, <2>1
  <2>2. CASE Type
    BY <1>1, <1>2, <2>2 DEF Type
  <2>3. CASE Follow
    BY <1>1, <1>2, <2>3 DEF Follow
  <2>4. CASE Visit
    BY <1>2, <2>4 DEF Visit, Text
  <2>5. ASSUME NEW q \in Query, Extend(q)
        PROVE  /\ UNCHANGED <<text, url>> /\ window' = window + AUTO_LOAD_WINDOW
    BY <2>5 DEF Extend
  <2>6. ASSUME NEW q \in Query, Extend(q)
        PROVE  /\ text' \in Text /\ url' \in Text /\ window' \in Nat \ {0}
    BY <1>1, <2>5, <2>6
  <2>7. \/ UNCHANGED <<text, url, window>> \/ Type \/ Follow \/ Visit
        \/ \E q \in Query : Extend(q)
    BY DEF Next, vars, LoadMore, Retry, Refetch, Arrive, Fail, Activate, DropRow
  <2> QED BY <2>1, <2>2, <2>3, <2>4, <2>6, <2>7
<1>4. /\ typed' = typed \/ (typed < MaxTyped /\ typed' = typed + 1)
      /\ changes' = changes \/ (changes < MaxChanges /\ changes' = changes + 1)
      /\ faults' = faults \/ (faults < MaxFaults /\ faults' = faults + 1)
  <2>1. CASE UNCHANGED vars
    BY <2>1 DEF vars
  <2>2. CASE Type \/ Follow \/ Visit
    BY <2>2 DEF Type, Follow, Visit
  <2>3. ASSUME NEW q \in Query,
               LoadMore(q) \/ Extend(q) \/ Retry(q) \/ Refetch(q) \/ Arrive(q) \/ Fail(q)
        PROVE  /\ UNCHANGED <<typed, changes>>
               /\ faults' = faults \/ (faults < MaxFaults /\ faults' = faults + 1)
    BY <2>3 DEF LoadMore, Extend, Retry, Refetch, Arrive, Fail
  <2>4. CASE Activate \/ \E i \in Image : DropRow(i)
    BY <2>4 DEF Activate, DropRow
  <2> QED BY <2>1, <2>2, <2>3, <2>4 DEF Next
<1>5. typed' \in 0..MaxTyped /\ changes' \in 0..MaxChanges /\ faults' \in 0..MaxFaults
  BY <1>1, <1>4
<1> QED BY <1>3, <1>5 DEF ViewOK

\* The inductive invariant: pages follow one another, each with what its place in the
\* ranking has for as long as the index that answered is the one that answers, and what is
\* under way continues them (getNextPageParam and the offsets of search/run.py).
THEOREM InvCorrect == Spec => []IInv
<1>1. IInv /\ [Next]_vars => IInv'
  BY ServerStep, ViewStep, ResultsStep DEF IInv
<1> QED BY InitIInv, <1>1, PTL DEF Spec

\* Every variable keeps its type, and no page has more results than were asked for.
THEOREM TypeCorrect == Spec => []TypeOK
BY InvCorrect, IInvTypes, PTL

\* Scrolling through one index repeats nothing and skips nothing, for every ranking, page
\* size, batch size and number of images without a row.
THEOREM NothingSkippedCorrect == Spec => []NothingSkipped
BY InvCorrect, SoundShows, PTL
----------------------------------------------------------------------------
\* What the reader can do.

\* The query of the page has results to scroll through, or they are on their way, or it is
\* told that they could not be loaded; and what is loaded again was loaded before.
Reachable(u, ps, f, failure, q) ==
    /\ u = q => ps # <<>> \/ f # NoFetch \/ failure
    /\ f.kind = "refetch" => ps # <<>>
ReaderIsNotStuck == \A q \in Query : Reachable(url, pages[q], fetch[q], failed[q], q)

\* A request under way is one.
LEMMA FetchIsOne ==
    ASSUME NEW kind, NEW offset, NEW got
    PROVE  Fetch(kind, offset, got) # NoFetch /\ Fetch(kind, offset, got).kind = kind
<1>1. PICK f : f = Fetch(kind, offset, got)
  OBVIOUS
<1>2. f.kind = kind /\ f # NoFetch
  BY <1>1 DEF Fetch, NoFetch
<1> QED BY <1>1, <1>2

\* A query that is turned to has its first page or asks for it.
LEMMA ShowReaches ==
    ASSUME IInv, ReaderIsNotStuck, NEW x \in Text, Show(x), UNCHANGED pages
    PROVE  ReaderIsNotStuck'
<1> SUFFICES ASSUME NEW q \in Query
             PROVE  Reachable(url', pages'[q], fetch'[q], failed'[q], q)
  BY DEF ReaderIsNotStuck
<1>1. Reachable(url, pages[q], fetch[q], failed[q], q) /\ url' = x /\ pages'[q] = pages[q]
  BY DEF ReaderIsNotStuck, Show
<1>2. CASE x \in Query /\ pages[x] = <<>> /\ fetch[x] = NoFetch
  <2>1. PICK f : f = Fetch("first", 0, <<>>) /\ f # NoFetch /\ f.kind = "first"
    BY FetchIsOne
  <2>2. fetch' = [fetch EXCEPT ![x] = f] /\ fetch \in [Query -> Request \cup {NoFetch}]
        /\ failed' = [failed EXCEPT ![x] = FALSE] /\ failed \in [Query -> BOOLEAN]
    BY <1>2, <2>1 DEF Show, IInv, ResultsOK
  <2>3. CASE q = x
    BY <1>2, <2>1, <2>2, <2>3 DEF Reachable
  <2>4. CASE q # x
    BY <1>1, <2>2, <2>4 DEF Reachable
  <2> QED BY <2>3, <2>4
<1>3. CASE ~(x \in Query /\ pages[x] = <<>> /\ fetch[x] = NoFetch)
  BY <1>1, <1>3 DEF Show, Reachable
<1> QED BY <1>2, <1>3

\* The page, the request and the failure of one query change.
LEMMA OneReaches ==
    ASSUME IInv, ReaderIsNotStuck, NEW q \in Query, UNCHANGED url,
           NEW ps, NEW f, NEW b,
           pages' = [pages EXCEPT ![q] = ps], fetch' = [fetch EXCEPT ![q] = f],
           failed' = [failed EXCEPT ![q] = b],
           Reachable(url, ps, f, b, q)
    PROVE  ReaderIsNotStuck'
<1>1. /\ pages \in [Query -> Seq(Page)] /\ fetch \in [Query -> Request \cup {NoFetch}]
      /\ failed \in [Query -> BOOLEAN]
  BY DEF IInv, ResultsOK
<1> SUFFICES ASSUME NEW r \in Query
             PROVE  Reachable(url', pages'[r], fetch'[r], failed'[r], r)
  BY DEF ReaderIsNotStuck
<1>2. CASE r = q
  BY <1>1, <1>2
<1>3. CASE r # q
  <2>1. pages'[r] = pages[r] /\ fetch'[r] = fetch[r] /\ failed'[r] = failed[r]
    BY <1>1, <1>3
  <2> QED BY <2>1 DEF ReaderIsNotStuck
<1> QED BY <1>2, <1>3

\* A request is sent.
LEMMA RequestReaches ==
    ASSUME IInv, ReaderIsNotStuck, NEW q \in Query, NEW kind, NEW n, NEW b,
           fetch' = [fetch EXCEPT ![q] = Fetch(kind, n, <<>>)],
           failed' = [failed EXCEPT ![q] = b], UNCHANGED <<url, pages>>,
           kind = "refetch" => pages[q] # <<>>
    PROVE  ReaderIsNotStuck'
<1>1. PICK f : f = Fetch(kind, n, <<>>) /\ f # NoFetch /\ f.kind = kind
  BY FetchIsOne
<1>2. PICK ps : ps = pages[q]
  OBVIOUS
<1>3. pages' = [pages EXCEPT ![q] = ps] /\ fetch' = [fetch EXCEPT ![q] = f]
  BY <1>1, <1>2 DEF IInv, ResultsOK
<1>4. Reachable(url, ps, f, b, q)
  BY <1>1, <1>2 DEF Reachable
<1> QED BY <1>3, <1>4, OneReaches

LEMMA SentReaches ==
    ASSUME IInv, ReaderIsNotStuck, NEW q \in Query, LoadMore(q) \/ Retry(q) \/ Refetch(q)
    PROVE  ReaderIsNotStuck'
<1>1. PICK next, again, n, same, none :
        /\ next = "next" /\ again = "refetch"
        /\ n = Following(End(pages[q])) /\ same = failed[q] /\ none = 0
  OBVIOUS
<1>2. failed = [failed EXCEPT ![q] = same]
  BY <1>1 DEF IInv, ResultsOK
<1>3. CASE LoadMore(q)
  <2>1. fetch' = [fetch EXCEPT ![q] = Fetch(next, n, <<>>)]
    BY <1>1, <1>3 DEF LoadMore
  <2>2. failed' = [failed EXCEPT ![q] = same] /\ UNCHANGED <<url, pages>>
    BY <1>2, <1>3 DEF LoadMore
  <2> QED BY <1>1, <2>1, <2>2, RequestReaches
<1>4. CASE Retry(q)
  <2>1. failed' = [failed EXCEPT ![q] = same] /\ UNCHANGED <<url, pages>>
    BY <1>2, <1>4 DEF Retry
  <2>2. fetch' = [fetch EXCEPT ![q] = Fetch(next, n, <<>>)]
    BY <1>1, <1>4 DEF Retry
  <2> QED BY <1>1, <2>1, <2>2, RequestReaches
<1>5. CASE Refetch(q)
  <2>1. fetch' = [fetch EXCEPT ![q] = Fetch(again, none, <<>>)]
    BY <1>1, <1>5 DEF Refetch
  <2>2. /\ failed' = [failed EXCEPT ![q] = FALSE] /\ UNCHANGED <<url, pages>>
        /\ pages[q] # <<>>
    BY <1>5 DEF Refetch
  <2> QED BY <2>1, <2>2, RequestReaches
<1> QED BY <1>3, <1>4, <1>5

\* A page arrives: there is something to show, or more of what is loaded again is asked
\* for.
LEMMA ArrivalReaches ==
    ASSUME IInv, ReaderIsNotStuck, NEW q \in Query, Arrive(q)
    PROVE  ReaderIsNotStuck'
<1>1. QuerySound(q, pages[q], fetch[q], failed[q]) /\ ServerOK /\ pages[q] \in Seq(Page)
  BY DEF IInv, ResultsOK
<1>2. PICK f \in Request : f = fetch[q]
  BY <1>1 DEF Arrive, QuerySound
<1>3. f.offset \in Nat /\ f.got \in Seq(Page)
  BY <1>2 DEF Request
<1>4. PICK page : page = Answer(q, f.offset) /\ page \in Page
  BY <1>1, <1>3, AnswerSound DEF PageSound
<1>5. PICK got : got = Append(f.got, page)
  OBVIOUS
<1>6. got \in Seq(Page) /\ got # <<>>
  BY <1>3, <1>4, <1>5
<1>7. IF f.kind = "refetch" /\ GoesOn(q, got)
      THEN /\ fetch' = [fetch EXCEPT ![q] = Fetch("refetch", Following(End(got)), got)]
           /\ UNCHANGED <<pages, failed>>
      ELSE /\ pages' = [pages EXCEPT ![q] = IF f.kind = "next" THEN pages[q] \o got ELSE got]
           /\ fetch' = [fetch EXCEPT ![q] = NoFetch]
           /\ failed' = [failed EXCEPT ![q] = FALSE]
  BY <1>2, <1>4, <1>5 DEF Arrive
<1>8. UNCHANGED url
  BY DEF Arrive
<1>9. CASE f.kind = "refetch" /\ GoesOn(q, got)
  <2>1. PICK g : /\ g = Fetch("refetch", Following(End(got)), got)
                 /\ g # NoFetch /\ g.kind = "refetch"
    BY FetchIsOne
  <2>2. PICK ps, b : ps = pages[q] /\ b = failed[q]
    OBVIOUS
  <2>3. /\ pages' = [pages EXCEPT ![q] = ps] /\ failed' = [failed EXCEPT ![q] = b]
        /\ fetch' = [fetch EXCEPT ![q] = g]
    BY <1>7, <1>9, <2>1, <2>2 DEF IInv, ResultsOK
  <2>4. Reachable(url, ps, g, b, q)
    BY <1>2, <1>9, <2>1, <2>2 DEF Reachable, ReaderIsNotStuck
  <2> QED BY <1>8, <2>3, <2>4, OneReaches
<1>10. CASE ~(f.kind = "refetch" /\ GoesOn(q, got))
  <2>1. PICK ps : ps = IF f.kind = "next" THEN pages[q] \o got ELSE got
    OBVIOUS
  <2>2. pages[q] \o got # <<>>
    BY <1>1, <1>6
  <2>3. PICK g, b : g = NoFetch /\ b = FALSE
    OBVIOUS
  <2>4. /\ pages' = [pages EXCEPT ![q] = ps] /\ fetch' = [fetch EXCEPT ![q] = g]
        /\ failed' = [failed EXCEPT ![q] = b]
    BY <1>7, <1>10, <2>1, <2>3
  <2>5. Reachable(url, ps, g, b, q)
    BY <1>6, <2>1, <2>2, <2>3 DEF Reachable
  <2> QED BY <1>8, <2>4, <2>5, OneReaches
<1> QED BY <1>9, <1>10

\* A request fails, which is told unless what is loaded stays.
LEMMA FailureReaches ==
    ASSUME IInv, ReaderIsNotStuck, NEW q \in Query, Fail(q)
    PROVE  ReaderIsNotStuck'
<1>1. PICK ps, g, b : ps = pages[q] /\ g = NoFetch /\ b = (fetch[q].kind # "refetch")
  OBVIOUS
<1>2. /\ pages' = [pages EXCEPT ![q] = ps] /\ fetch' = [fetch EXCEPT ![q] = g]
      /\ failed' = [failed EXCEPT ![q] = b] /\ UNCHANGED url
  BY <1>1 DEF Fail, IInv, ResultsOK
<1>3. Reachable(url, ps, g, b, q)
  <2>1. fetch[q].kind = "refetch" => pages[q] # <<>>
    BY DEF ReaderIsNotStuck, Reachable
  <2>2. g.kind # "refetch"
    BY <1>1 DEF NoFetch
  <2> QED BY <1>1, <2>1, <2>2 DEF Reachable
<1> QED BY <1>2, <1>3, OneReaches

\* A reader never waits for results that nobody loads: unless the page has some, the first
\* page is under way or the error page is shown (useInfiniteQuery and the states of
\* routes/results.tsx; with the guards of LoadMore, Extend and Retry, which between them
\* leave no case out where there are some, the safety half of EndIsReached).
THEOREM ReaderIsNotStuckCorrect == Spec => []ReaderIsNotStuck
<1>1. Init => ReaderIsNotStuck
  <2> SUFFICES ASSUME Init, NEW q \in Query
               PROVE  Reachable(url, pages[q], fetch[q], failed[q], q)
    BY DEF ReaderIsNotStuck
  <2>1. url = Empty /\ fetch[q] = NoFetch /\ NoFetch.kind # "refetch"
    BY DEF Init, NoFetch
  <2> QED BY <2>1, SearchAssumption DEF Reachable
<1>2. ASSUME IInv, ReaderIsNotStuck, [Next]_vars PROVE ReaderIsNotStuck'
  <2>1. ASSUME UNCHANGED <<url, results>> PROVE ReaderIsNotStuck'
    BY <1>2, <2>1 DEF ReaderIsNotStuck, results
  <2>2. CASE Type
    <3>1. PICK x \in Text : IF x = Empty THEN Show(x) ELSE UNCHANGED <<url, window, fetch, failed>>
      BY <2>2 DEF Type
    <3>2. UNCHANGED pages
      BY <2>2 DEF Type
    <3> QED BY <1>2, <2>1, <3>1, <3>2, ShowReaches DEF results
  <2>3. CASE Follow
    BY <1>2, <2>3, ShowReaches DEF Follow, IInv, ViewOK
  <2>4. CASE Visit
    BY <1>2, <2>4, ShowReaches DEF Visit, Text
  <2>5. ASSUME NEW q \in Query,
               LoadMore(q) \/ Retry(q) \/ Refetch(q) \/ Arrive(q) \/ Fail(q)
        PROVE  ReaderIsNotStuck'
    BY <1>2, <2>5, SentReaches, ArrivalReaches, FailureReaches
  <2>6. ASSUME NEW q \in Query, Extend(q) PROVE UNCHANGED <<url, results>>
    BY <2>6 DEF Extend
  <2>7. ASSUME NEW i \in Image, DropRow(i) PROVE UNCHANGED <<url, results>>
    BY <2>7 DEF DropRow
  <2>8. CASE Activate \/ UNCHANGED vars
    BY <2>1, <2>8 DEF Activate, vars
  <2> QED BY <1>2, <2>1, <2>2, <2>3, <2>4, <2>5, <2>6, <2>7, <2>8 DEF Next
<1> QED BY InvCorrect, <1>1, <1>2, PTL DEF Spec
=============================================================================
