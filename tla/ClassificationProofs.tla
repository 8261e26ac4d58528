----------------------- MODULE ClassificationProofs -----------------------
(***************************************************************************)
(* Reclassifications lose no value and bring none back, for every number   *)
(* of categories, fields, assignments and changes, and any forest.         *)
(***************************************************************************)
EXTENDS Classification, FiniteSetTheorems, SequenceTheorems,
        WellFoundedInduction, TLAPS

----------------------------------------------------------------------------
(* Sets of identifiers. *)

LEMMA LeastNumber ==
    ASSUME NEW T \in SUBSET Nat, T # {}
    PROVE  \E x \in T : \A y \in T : x <= y
<1>1. PICK x \in T : \A y \in T : <<y, x>> \notin OpToRel(<, Nat)
  BY WFMin, NatLessThanWellFounded
<1>2. \A y \in T : ~ (y < x)
  BY <1>1 DEF OpToRel
<1> QED BY <1>2

\* The oldest of a set of assignments is one of them.
LEMMA OldestIsOne ==
    ASSUME NEW T \in SUBSET Nat, T # {}
    PROVE  Oldest(T) \in T
BY LeastNumber, Zenon DEF Oldest

\* There is a k-th identifier for each k, another for another k: the rank of an
\* identifier maps the set one to one, hence onto the ranks.
LEMMA NthIsOne ==
    ASSUME NEW S \in SUBSET Nat, IsFiniteSet(S)
    PROVE  /\ Cardinality(S) \in Nat
           /\ \A k \in 1..Cardinality(S) : Nth(S, k) \in S
           /\ \A j, k \in 1..Cardinality(S) : Nth(S, j) = Nth(S, k) => j = k
<1> DEFINE n == Cardinality(S)
           upTo(c) == {d \in S : d <= c}
           rank == [c \in S |-> Cardinality(upTo(c))]
<1>1. n \in Nat
  BY FS_CardinalityType
<1>2. ASSUME NEW c \in S
      PROVE  /\ IsFiniteSet(upTo(c)) /\ c \in upTo(c)
             /\ Cardinality(upTo(c)) \in 1..n
  <2>1. upTo(c) \in SUBSET S /\ c \in upTo(c)
    OBVIOUS
  <2>2. IsFiniteSet(upTo(c)) /\ Cardinality(upTo(c)) <= n
    BY <2>1, FS_Subset
  <2>3. Cardinality(upTo(c)) \in Nat /\ Cardinality(upTo(c)) # 0
    BY <2>1, <2>2, FS_CardinalityType, FS_EmptySet
  <2> HIDE DEF upTo
  <2> QED BY <1>1, <2>1, <2>2, <2>3
<1>3. ASSUME NEW c \in S, NEW d \in S, c < d
      PROVE  Cardinality(upTo(c)) # Cardinality(upTo(d))
  <2>1. upTo(c) \in SUBSET upTo(d) /\ d \in upTo(d) /\ d \notin upTo(c)
    <3>1. d \in upTo(d)
      BY <1>3
    <3>2. ASSUME NEW x \in upTo(c) PROVE x \in upTo(d)
      <4>1. x \in S /\ x <= c
        OBVIOUS
      <4>2. x \in Nat /\ c \in Nat /\ d \in Nat
        BY <4>1
      <4>3. x <= d
        BY <1>3, <4>1, <4>2
      <4> QED BY <4>1, <4>3
    <3>3. d \notin upTo(c)
      <4>1. c \in Nat /\ d \in Nat
        OBVIOUS
      <4>2. ~ (d <= c)
        BY <1>3, <4>1
      <4> QED BY <4>2
    <3> HIDE DEF upTo
    <3> QED BY <3>1, <3>2, <3>3
  <2>2. IsFiniteSet(upTo(d))
    BY <1>2
  <2> HIDE DEF upTo
  <2>3. Cardinality(upTo(d)) = Cardinality(upTo(c)) => upTo(d) = upTo(c)
    BY <2>1, <2>2, FS_Subset
  <2> QED BY <2>1, <2>3
<1>4. rank \in [S -> 1..n]
  <2> HIDE DEF upTo
  <2> QED BY <1>2
<1>5. \A c, d \in S : rank[c] = rank[d] => c = d
  <2> SUFFICES ASSUME NEW c \in S, NEW d \in S, c # d PROVE rank[c] # rank[d]
    BY Zenon
  <2>1. c < d \/ d < c
    OBVIOUS
  <2> HIDE DEF upTo
  <2> QED BY <1>3, <2>1
<1>6. rank \in Injection(S, 1..n)
  <2> HIDE DEF rank
  <2> QED BY <1>4, <1>5 DEF Injection, IsInjective
<1>7. IsFiniteSet(1..n) /\ Cardinality(1..n) = n
  BY <1>1, FS_Interval
<1>8. rank \in Surjection(S, 1..n)
  <2> HIDE DEF rank, n
  <2> QED BY <1>6, <1>7, FS_Injection DEF n
<1>9. \A k \in 1..n : \E c \in S : Cardinality(upTo(c)) = k
  <2> HIDE DEF upTo
  <2> QED BY <1>8 DEF Surjection
<1>10. \A k \in 1..n : Nth(S, k) \in S /\ Cardinality(upTo(Nth(S, k))) = k
  BY <1>9, Zenon DEF Nth
<1> QED BY <1>1, <1>10, Zenon

----------------------------------------------------------------------------
(* Lists of assignments. *)

\* Assign appends an assignment in progress for each category chosen.
LEMMA AssignAppends ==
    ASSUME NEW list \in Seq(Assignment), NEW chosen \in SUBSET (1..MaxCategories)
    PROVE  LET longer == Assign(list, chosen) IN
           /\ longer \in Seq(Assignment)
           /\ \A n \in DOMAIN list : n \in DOMAIN longer /\ longer[n] = list[n]
           /\ \A n \in DOMAIN longer : n \notin DOMAIN list =>
                  ~ longer[n].ended /\ longer[n].category \in chosen
           /\ \A n, m \in DOMAIN longer :
                  n \notin DOMAIN list /\ m \notin DOMAIN list /\ n # m
                      => longer[n].category # longer[m].category
<1> DEFINE k == Cardinality(chosen)
           tail == [j \in 1..k |-> [category |-> Nth(chosen, j), ended |-> FALSE]]
           longer == Assign(list, chosen)
<1>1. chosen \in SUBSET Nat /\ IsFiniteSet(chosen)
  <2>1. IsFiniteSet(1..MaxCategories)
    BY BoundAssumption, FS_Interval
  <2>2. chosen \in SUBSET Nat
    BY BoundAssumption
  <2> QED BY <2>1, <2>2, FS_Subset
<1>2. /\ k \in Nat
      /\ \A j \in 1..k : Nth(chosen, j) \in chosen
      /\ \A i, j \in 1..k : Nth(chosen, i) = Nth(chosen, j) => i = j
  BY <1>1, NthIsOne
<1>3. longer = list \o tail
  BY DEF Assign
<1> HIDE DEF k, longer
<1>4. tail \in [1..k -> Assignment]
  BY <1>2 DEF Assignment
<1>5. tail \in Seq(Assignment) /\ Len(tail) = k
  <2> HIDE DEF tail
  <2> QED BY <1>2, <1>4
<1>6. /\ longer \in Seq(Assignment) /\ Len(longer) = Len(list) + k
      /\ \A n \in 1..Len(list) : longer[n] = list[n]
      /\ \A n \in 1..Len(longer) : n > Len(list) => longer[n] = tail[n - Len(list)]
  <2> HIDE DEF tail
  <2>1. longer \in Seq(Assignment) /\ Len(longer) = Len(list) + k
    BY <1>3, <1>5, ConcatProperties
  <2>2. \A n \in 1..Len(list) : longer[n] = list[n]
    BY <1>2, <1>3, <1>5
  <2>3. ASSUME NEW n \in 1..Len(longer), n > Len(list)
        PROVE  longer[n] = tail[n - Len(list)]
    BY <1>2, <1>3, <1>5, <2>1, <2>3
  <2> QED BY <2>1, <2>2, <2>3
<1>7. Len(list) \in Nat /\ DOMAIN list = 1..Len(list)
  OBVIOUS
<1>8. Len(longer) \in Nat /\ DOMAIN longer = 1..Len(longer)
  BY <1>6
<1>9. ASSUME NEW n \in DOMAIN longer, n \notin DOMAIN list
      PROVE  /\ n - Len(list) \in 1..k
             /\ longer[n] = [category |-> Nth(chosen, n - Len(list)), ended |-> FALSE]
  <2>1. n \in Nat /\ n > Len(list) /\ n <= Len(list) + k
    BY <1>2, <1>6, <1>7, <1>8, <1>9
  <2>2. n - Len(list) \in 1..k
    BY <2>1, <1>2, <1>7
  <2> QED BY <2>1, <2>2, <1>6, <1>8
<1>10. \A n \in DOMAIN longer : n \notin DOMAIN list =>
           ~ longer[n].ended /\ longer[n].category \in chosen
  BY <1>2, <1>9
<1>11. ASSUME NEW n \in DOMAIN longer, NEW m \in DOMAIN longer,
              n \notin DOMAIN list, m \notin DOMAIN list, n # m
       PROVE  longer[n].category # longer[m].category
  <2>1. n - Len(list) # m - Len(list)
    BY <1>7, <1>8, <1>11
  <2>2. Nth(chosen, n - Len(list)) # Nth(chosen, m - Len(list))
    BY <1>2, <1>9, <1>11, <2>1
  <2> QED BY <1>9, <1>11, <2>2
<1>12. \A n \in DOMAIN list : n \in DOMAIN longer
  BY <1>2, <1>6, <1>7, <1>8
<1> QED BY <1>6, <1>7, <1>10, <1>11, <1>12 DEF longer

\* End keeps every assignment, and ends those it should.
LEMMA EndEnds ==
    ASSUME NEW list \in Seq(Assignment), NEW s, NEW kept
    PROVE  LET now == End(list, s, kept) IN
           /\ now \in Seq(Assignment) /\ DOMAIN now = DOMAIN list /\ Len(now) = Len(list)
           /\ \A n \in DOMAIN list :
                  /\ now[n].category = list[n].category
                  /\ now[n].ended <=> \/ list[n].ended
                                      \/ /\ n \in Active(list, s)
                                         /\ list[n].category \notin kept
                  /\ list[n].ended => now[n] = list[n]
<1> DEFINE now == End(list, s, kept)
           over(n) == n \in Active(list, s) /\ list[n].category \notin kept
           row(n) == [list[n] EXCEPT !.ended = @ \/ over(n)]
<1>1. now = [n \in DOMAIN list |-> row(n)]
  BY DEF End
<1>2. DOMAIN list = 1..Len(list) /\ Len(list) \in Nat
  OBVIOUS
<1>3. ASSUME NEW n \in DOMAIN list
      PROVE  /\ row(n) \in Assignment
             /\ row(n).category = list[n].category
             /\ row(n).ended <=> list[n].ended \/ over(n)
             /\ list[n].ended => row(n) = list[n]
  <2>1. list[n] \in Assignment
    OBVIOUS
  <2>2. PICK c \in 1..MaxCategories, e \in BOOLEAN :
            list[n] = [category |-> c, ended |-> e]
    BY <2>1 DEF Assignment
  <2> DEFINE ends == list[n].ended \/ over(n)
  <2>3. row(n) = [list[n] EXCEPT !.ended = ends]
    BY Zenon
  <2>4. ends \in BOOLEAN /\ (ends <=> e \/ over(n)) /\ (e => ends = e)
    BY <2>2
  <2> HIDE DEF over, row, ends
  <2>5. row(n) = [category |-> c, ended |-> ends]
    BY <2>2, <2>3
  <2>6. row(n) \in Assignment
    BY <2>4, <2>5 DEF Assignment
  <2> QED BY <2>2, <2>4, <2>5, <2>6
<1> HIDE DEF row, over
<1>4. now \in [1..Len(list) -> Assignment]
  BY <1>1, <1>2, <1>3
<1>5. now \in Seq(Assignment) /\ Len(now) = Len(list) /\ DOMAIN now = DOMAIN list
  BY <1>2, <1>4
<1>6. \A n \in DOMAIN list : now[n] = row(n)
  BY <1>1
<1> HIDE DEF now
<1> QED BY <1>3, <1>5, <1>6 DEF now, over

----------------------------------------------------------------------------
(* The tree of the categories. *)

Forest(cats) ==
    /\ cats \in Seq(Category)
    /\ \A c \in DOMAIN cats : cats[c].parent # 0 =>
           cats[c].parent < c /\ cats[cats[c].parent].space = cats[c].space

\* Ancestry, of any table of categories.
Line(cats, c) ==
    LET line[d \in DOMAIN cats] ==
            {d} \cup (IF cats[d].parent = 0 THEN {} ELSE line[cats[d].parent])
    IN line[c]

LEMMA ParentsAreOlder ==
    ASSUME NEW cats, Forest(cats)
    PROVE  /\ Len(cats) \in Nat /\ DOMAIN cats = 1..Len(cats)
           /\ \A c \in DOMAIN cats : cats[c].parent # 0 =>
                  /\ cats[c].parent \in DOMAIN cats /\ cats[c].parent < c
                  /\ cats[cats[c].parent].space = cats[c].space
<1>1. Len(cats) \in Nat /\ DOMAIN cats = 1..Len(cats)
  BY DEF Forest
<1>2. ASSUME NEW c \in DOMAIN cats, cats[c].parent # 0
      PROVE  cats[c].parent \in DOMAIN cats
  <2>1. cats[c].parent \in 0..MaxCategories
    <3>1. cats \in Seq(Category) /\ c \in 1..Len(cats)
      BY <1>1 DEF Forest
    <3>2. cats[c] \in Category
      BY <3>1
    <3> QED BY <3>2 DEF Category
  <2>2. cats[c].parent < c
    BY <1>2 DEF Forest
  <2>3. cats[c].parent \in Nat /\ c \in 1..Len(cats)
    BY <1>1, <2>1, BoundAssumption
  <2> QED BY <1>1, <1>2, <2>2, <2>3
<1> QED BY <1>1, <1>2 DEF Forest

\* The recursion has a solution, as parents are older: a least number of categories
\* for which it has none does not exist.
LEMMA LineUnfolds ==
    ASSUME NEW cats, Forest(cats)
    PROVE  \A c \in DOMAIN cats :
               Line(cats, c) =
                   {c} \cup (IF cats[c].parent = 0 THEN {} ELSE Line(cats, cats[c].parent))
<1> DEFINE up(f, d) == {d} \cup (IF cats[d].parent = 0 THEN {} ELSE f[cats[d].parent])
           Solves(f, k) == f = [d \in 1..k |-> up(f, d)]
           T == {k \in 0..Len(cats) : ~ \E f : Solves(f, k)}
<1>1. /\ Len(cats) \in Nat /\ DOMAIN cats = 1..Len(cats)
      /\ \A c \in DOMAIN cats : cats[c].parent # 0 =>
             cats[c].parent \in DOMAIN cats /\ cats[c].parent < c
  BY ParentsAreOlder
<1>2. T = {}
  <2> SUFFICES ASSUME T # {} PROVE FALSE
    OBVIOUS
  <2>1. T \in SUBSET Nat
    BY <1>1
  <2>2. PICK k \in T : \A j \in T : k <= j
    <3> HIDE DEF T
    <3> QED BY <2>1, LeastNumber
  <2>3. k # 0
    <3> DEFINE g == [d \in 1..0 |-> {}]
    <3>1. g = [d \in 1..0 |-> up(g, d)]
      <4> HIDE DEF up
      <4> QED OBVIOUS
    <3>2. Solves(g, 0)
      BY <3>1
    <3> HIDE DEF Solves, g
    <3> QED BY <3>2
  <2>4. k \in 1..Len(cats) /\ k - 1 \in 0..Len(cats) /\ k - 1 \notin T
    <3>1. k \in 0..Len(cats)
      OBVIOUS
    <3>2. k \in Nat /\ ~ (k <= k - 1)
      BY <3>1
    <3> HIDE DEF T
    <3> QED BY <1>1, <2>2, <2>3, <3>1, <3>2
  <2>5. PICK f : Solves(f, k - 1)
    <3> HIDE DEF Solves
    <3> QED BY <2>4
  <2> DEFINE g == [d \in 1..k |-> IF d = k THEN up(f, k) ELSE f[d]]
  <2>6. ASSUME NEW d \in 1..k PROVE g[d] = up(g, d)
    <3>1. cats[d].parent # 0 => cats[d].parent \in 1..(k - 1)
      BY <1>1, <2>4
    <3>2. cats[d].parent # 0 => g[cats[d].parent] = f[cats[d].parent]
      <4> HIDE DEF up
      <4> QED BY <2>4, <3>1
    <3>3. up(g, d) = up(f, d)
      <4> HIDE DEF g
      <4> QED BY <3>2
    <3>4. CASE d = k
      <4> HIDE DEF up
      <4> QED BY <3>3, <3>4
    <3>5. CASE d # k
      <4>1. d \in 1..(k - 1)
        BY <2>4, <3>5
      <4>2. f[d] = up(f, d)
        <5> HIDE DEF up
        <5> QED BY <2>5, <4>1
      <4> HIDE DEF up
      <4> QED BY <3>3, <3>5, <4>2
    <3> QED BY <3>4, <3>5
  <2>7. g = [d \in 1..k |-> g[d]]
    <3> HIDE DEF up
    <3> QED OBVIOUS
  <2>8. Solves(g, k)
    <3> HIDE DEF up, g
    <3> QED BY <2>6, <2>7
  <2> HIDE DEF Solves, g
  <2> QED BY <2>2, <2>8
<1> DEFINE line == CHOOSE f : f = [d \in DOMAIN cats |-> up(f, d)]
<1>3. line = [d \in DOMAIN cats |-> up(line, d)]
  <2>1. \E f : Solves(f, Len(cats))
    <3> HIDE DEF Solves
    <3> QED BY <1>1, <1>2
  <2>2. \E f : f = [d \in DOMAIN cats |-> up(f, d)]
    <3> HIDE DEF up
    <3> QED BY <1>1, <2>1
  <2> HIDE DEF up
  <2> QED BY <2>2, Zenon
<1>4. \A c : Line(cats, c) = line[c]
  BY DEF Line
<1>5. \A c \in DOMAIN cats : line[c] = up(line, c)
  <2> HIDE DEF line, up
  <2> QED BY <1>3
<1> HIDE DEF line
<1> QED BY <1>4, <1>5

\* A category keeps its ancestry when others are created,
LEMMA LineStays ==
    ASSUME NEW cats, NEW more, Forest(cats), Forest(more), Len(cats) <= Len(more),
           \A c \in DOMAIN cats : more[c] = cats[c]
    PROVE  \A c \in DOMAIN cats : Line(more, c) = Line(cats, c)
<1> DEFINE T == {c \in DOMAIN cats : Line(more, c) # Line(cats, c)}
<1> SUFFICES ASSUME T # {} PROVE FALSE
  OBVIOUS
<1>1. /\ Len(cats) \in Nat /\ DOMAIN cats = 1..Len(cats)
      /\ \A c \in DOMAIN cats : cats[c].parent # 0 =>
             cats[c].parent \in DOMAIN cats /\ cats[c].parent < c
  BY ParentsAreOlder
<1>2. DOMAIN cats \subseteq DOMAIN more
  BY <1>1, ParentsAreOlder
<1>3. T \in SUBSET Nat
  BY <1>1
<1>4. PICK c \in T : \A d \in T : c <= d
  <2> HIDE DEF T
  <2> QED BY <1>3, LeastNumber
<1>5. c \in DOMAIN cats /\ Line(more, c) # Line(cats, c)
  OBVIOUS
<1>6. cats[c].parent # 0 => Line(more, cats[c].parent) = Line(cats, cats[c].parent)
  <2> SUFFICES ASSUME cats[c].parent # 0
               PROVE  cats[c].parent \notin T
    BY <1>1, <1>5
  <2>1. cats[c].parent \in DOMAIN cats /\ cats[c].parent < c
    BY <1>1, <1>5
  <2>2. ~ (c <= cats[c].parent)
    BY <1>1, <1>5, <2>1
  <2> HIDE DEF T
  <2> QED BY <1>4, <2>2
<1>7. Line(cats, c) = {c} \cup (IF cats[c].parent = 0 THEN {} ELSE Line(cats, cats[c].parent))
  BY <1>5, LineUnfolds
<1>8. Line(more, c) = {c} \cup (IF cats[c].parent = 0 THEN {} ELSE Line(more, cats[c].parent))
  BY <1>2, <1>5, LineUnfolds
<1> QED BY <1>5, <1>6, <1>7, <1>8

\* and a tree is of one space.
LEMMA LineInSpace ==
    ASSUME NEW cats, Forest(cats)
    PROVE  \A c \in DOMAIN cats : \A d \in Line(cats, c) : cats[d].space = cats[c].space
<1> DEFINE T == {c \in DOMAIN cats : \E d \in Line(cats, c) : cats[d].space # cats[c].space}
<1> SUFFICES ASSUME T # {} PROVE FALSE
  OBVIOUS
<1>1. /\ Len(cats) \in Nat /\ DOMAIN cats = 1..Len(cats)
      /\ \A c \in DOMAIN cats : cats[c].parent # 0 =>
             /\ cats[c].parent \in DOMAIN cats /\ cats[c].parent < c
             /\ cats[cats[c].parent].space = cats[c].space
  BY ParentsAreOlder
<1>2. T \in SUBSET Nat
  BY <1>1
<1>3. PICK c \in T : \A d \in T : c <= d
  <2> HIDE DEF T
  <2> QED BY <1>2, LeastNumber
<1>4. c \in DOMAIN cats
  OBVIOUS
<1>5. PICK d \in Line(cats, c) : cats[d].space # cats[c].space
  OBVIOUS
<1>6. cats[c].parent # 0 /\ d \in Line(cats, cats[c].parent)
  BY <1>4, <1>5, LineUnfolds
<1>7. cats[c].parent \in DOMAIN cats /\ ~ (c <= cats[c].parent)
  BY <1>1, <1>4, <1>6
<1>8. cats[c].parent \notin T
  <2> HIDE DEF T
  <2> QED BY <1>3, <1>7
<1>9. cats[d].space = cats[cats[c].parent].space
  BY <1>6, <1>7, <1>8
<1> QED BY <1>1, <1>4, <1>5, <1>6, <1>9

LEMMA AncestryIsLine ==
    \A c : Ancestry(c) = Line(categories, c) /\ Ancestry(c)' = Line(categories', c)
BY DEF Ancestry, Line

----------------------------------------------------------------------------
(* The inductive invariant. *)

Live(list) == {n \in DOMAIN list : ~ list[n].ended}

\* Assignments `list` and values `held` an item of the space s may have.  What is
\* not ended is of that space, values hang where they can be reached, and of the
\* assignments in progress no two are to one category or hold one field.
Sound(list, held, s) ==
    /\ \A n \in DOMAIN list :
           /\ list[n].category \in DOMAIN categories
           /\ ~ list[n].ended => categories[list[n].category].space = s
    /\ DOMAIN held \subseteq (DOMAIN list) \X fields
    /\ \A n \in DOMAIN list, f \in fields : <<n, f>> \in DOMAIN held =>
           held[<<n, f>>] \in Values /\ f[1] \in Ancestry(list[n].category)
    /\ \A n, m \in Live(list) : n # m =>
           /\ list[n].category # list[m].category
           /\ \A f \in fields : <<n, f>> \in DOMAIN held => <<m, f>> \notin DOMAIN held

\* What the handler has read is of the past, or still so, and what it expects if
\* the item had reached it by then is what it has read.
HandlerOK ==
    handler # None =>
        /\ handler.revision <= item.revision
        /\ handler.pinned => handler.expected \in {0, handler.revision}
        /\ handler.pinned /\ handler.revision = item.revision =>
               handler.space = item.space

IInv ==
    /\ TypeOK
    /\ Sound(assigned, value, item.space)
    /\ HandlerOK

\* In sound assignments, those of the space are those in progress.
LEMMA ActiveIsLive ==
    ASSUME NEW list, NEW held, NEW s, Sound(list, held, s)
    PROVE  /\ Active(list, s) = Live(list)
           /\ \A f : Reaching(f, list, s) =
                         {n \in Live(list) : f[1] \in Ancestry(list[n].category)}
<1>1. Active(list, s) = Live(list)
  BY DEF Sound, Active, Live
<1> QED BY <1>1 DEF Reaching

\* Source finds the assignment that holds the field, if there is one.
LEMMA SourceAnswers ==
    ASSUME NEW list \in Seq(Assignment), NEW held, NEW s, Sound(list, held, s),
           NEW f \in Effective(list, s)
    PROVE  LET n == Source(f, list, held, s) IN
           /\ f \in fields
           /\ n \in Live(list) /\ f[1] \in Ancestry(list[n].category)
           /\ \A m \in Live(list) : <<m, f>> \in DOMAIN held => n = m
           /\ Answer(f, list, held, s) =
                  IF <<n, f>> \in DOMAIN held THEN held[<<n, f>>] ELSE None
           /\ Answer(f, list, held, s) # None <=> <<n, f>> \in DOMAIN held
<1> DEFINE n == Source(f, list, held, s)
           all == Reaching(f, list, s)
           holding == {m \in all : <<m, f>> \in DOMAIN held}
<1>1. n = Oldest(IF holding # {} THEN holding ELSE all)
  BY DEF Source
<1>2. all = {m \in Live(list) : f[1] \in Ancestry(list[m].category)}
  BY ActiveIsLive
<1>3. f \in fields /\ all # {}
  BY DEF Effective
<1>4. DOMAIN list \in SUBSET Nat
  OBVIOUS
<1>5. all \in SUBSET Nat /\ holding \in SUBSET Nat
  BY <1>2, <1>4 DEF Live
<1>6. n \in all /\ (holding # {} => n \in holding)
  <2> HIDE DEF n, all, holding
  <2>1. Oldest(all) \in all
    BY <1>3, <1>5, OldestIsOne
  <2>2. holding # {} => Oldest(holding) \in holding
    BY <1>5, OldestIsOne
  <2>3. holding \subseteq all
    BY DEF holding
  <2> QED BY <1>1, <2>1, <2>2, <2>3
<1>7. ASSUME NEW m \in Live(list), <<m, f>> \in DOMAIN held PROVE n = m
  <2>1. m \in DOMAIN list /\ f[1] \in Ancestry(list[m].category)
    BY <1>3, <1>7 DEF Sound, Live
  <2>2. m \in holding
    BY <1>2, <1>7, <2>1
  <2>3. n \in holding
    BY <1>6, <2>2
  <2>4. n \in Live(list) /\ <<n, f>> \in DOMAIN held
    <3> HIDE DEF n
    <3> QED BY <1>2, <2>3
  <2> HIDE DEF n
  <2> QED BY <1>3, <1>7, <2>4 DEF Sound
<1>8. Answer(f, list, held, s) =
          IF <<n, f>> \in DOMAIN held THEN held[<<n, f>>] ELSE None
  BY DEF Answer
<1>9. n \in Live(list) /\ f[1] \in Ancestry(list[n].category)
  <2> HIDE DEF n
  <2> QED BY <1>2, <1>6
<1>10. <<n, f>> \in DOMAIN held => held[<<n, f>>] # None
  <2> HIDE DEF n
  <2>1. n \in DOMAIN list
    BY <1>9 DEF Live
  <2> QED BY <1>3, <2>1, NoneAssumption DEF Sound
<1> HIDE DEF n
<1> QED BY <1>3, <1>7, <1>8, <1>9, <1>10 DEF n

----------------------------------------------------------------------------
(* Changes of the assignments. *)

\* The list that a change of categories leaves to an item it puts in the space s.
Reclassified(list, s) ==
    /\ list \in Seq(Assignment)
    /\ \A n \in DOMAIN assigned :
           /\ n \in DOMAIN list
           /\ list[n].category = assigned[n].category
           /\ assigned[n].ended => list[n] = assigned[n]
           /\ s # item.space => list[n].ended
    /\ \A n \in DOMAIN list :
           /\ list[n].category \in DOMAIN categories
           /\ ~ list[n].ended => categories[list[n].category].space = s
    /\ \A n, m \in Live(list) : n # m => list[n].category # list[m].category

\* The values that go with it: sound again, those of what has ended left alone,
\* and each field of the item showing what it did, or nothing.
Carried(list, held, s) ==
    /\ Sound(list, held, s)
    /\ \A n \in DOMAIN assigned, f \in fields : assigned[n].ended =>
           /\ <<n, f>> \in DOMAIN held <=> <<n, f>> \in DOMAIN value
           /\ <<n, f>> \in DOMAIN value => held[<<n, f>>] = value[<<n, f>>]
    /\ \A f \in Effective(list, s) :
           Answer(f, list, held, s) = IF f \in ShownFields THEN Shown(f) ELSE None

\* Values that stay are carried, by a change that ends nothing or everything.
LEMMA ValuesStay ==
    ASSUME TypeOK, Sound(assigned, value, item.space), NEW list, NEW s,
           Reclassified(list, s),
           s # item.space \/ \A n \in DOMAIN assigned : list[n] = assigned[n]
    PROVE  Carried(list, value, s)
<1> USE DEF Reclassified
<1>1. \A n \in DOMAIN assigned : n \in Live(list) => s = item.space /\ n \in Live(assigned)
  BY DEF Live
<1>2. \A n \in DOMAIN list, f \in fields : <<n, f>> \in DOMAIN value => n \in DOMAIN assigned
  BY DEF Sound
<1>3. Sound(list, value, s)
  <2>1. DOMAIN value \subseteq (DOMAIN list) \X fields
    BY DEF Sound
  <2>2. ASSUME NEW n \in DOMAIN list, NEW f \in fields, <<n, f>> \in DOMAIN value
        PROVE  value[<<n, f>>] \in Values /\ f[1] \in Ancestry(list[n].category)
    BY <1>2, <2>2 DEF Sound
  <2>3. ASSUME NEW n \in Live(list), NEW m \in Live(list), n # m,
               NEW f \in fields, <<n, f>> \in DOMAIN value
        PROVE  <<m, f>> \notin DOMAIN value
    <3> SUFFICES ASSUME <<m, f>> \in DOMAIN value PROVE FALSE
      OBVIOUS
    <3>1. n \in DOMAIN list /\ m \in DOMAIN list
      BY DEF Live
    <3>2. n \in Live(assigned) /\ m \in Live(assigned)
      BY <1>1, <1>2, <2>3, <3>1
    <3> QED BY <2>3, <3>2 DEF Sound
  <2> QED BY <2>1, <2>2, <2>3 DEF Sound
<1>4. ASSUME NEW f \in Effective(list, s)
      PROVE  Answer(f, list, value, s) = IF f \in ShownFields THEN Shown(f) ELSE None
  <2> DEFINE n == Source(f, list, value, s)
             m == Source(f, assigned, value, item.space)
  <2>1. /\ f \in fields /\ n \in Live(list)
        /\ \A k \in Live(list) : <<k, f>> \in DOMAIN value => n = k
        /\ Answer(f, list, value, s) =
               IF <<n, f>> \in DOMAIN value THEN value[<<n, f>>] ELSE None
    BY <1>3, SourceAnswers
  <2>2. assigned \in Seq(Assignment)
    BY DEF TypeOK
  <2>3. f \in ShownFields =>
            /\ m \in Live(assigned)
            /\ \A k \in Live(assigned) : <<k, f>> \in DOMAIN value => m = k
            /\ Shown(f) = IF <<m, f>> \in DOMAIN value THEN value[<<m, f>>] ELSE None
    BY <2>2, SourceAnswers DEF ShownFields, Shown
  <2> HIDE DEF n, m
  <2>4. CASE <<n, f>> \in DOMAIN value
    <3>1. n \in DOMAIN list
      BY <2>1 DEF Live
    <3>2. n \in DOMAIN assigned /\ f[1] \in Ancestry(assigned[n].category)
      BY <1>2, <2>1, <2>4, <3>1 DEF Sound
    <3>3. s = item.space /\ n \in Live(assigned)
      BY <1>1, <2>1, <3>2
    <3>4. f \in ShownFields
      <4>1. n \in Reaching(f, assigned, item.space)
        BY <3>2, <3>3, ActiveIsLive
      <4> QED BY <2>1, <4>1 DEF ShownFields, Effective
    <3> QED BY <2>1, <2>3, <2>4, <3>3, <3>4
  <2>5. CASE <<n, f>> \notin DOMAIN value
    <3> SUFFICES ASSUME f \in ShownFields, <<m, f>> \in DOMAIN value
                 PROVE  FALSE
      BY <2>1, <2>3, <2>5
    <3>1. s = item.space
      <4> SUFFICES ASSUME s # item.space PROVE FALSE
        OBVIOUS
      <4>1. f[1] \in Ancestry(list[n].category) /\ list[n].category \in DOMAIN categories
            /\ categories[list[n].category].space = s
        BY <1>3, SourceAnswers DEF n, Live, Sound
      <4>2. /\ f[1] \in Ancestry(assigned[m].category)
            /\ assigned[m].category \in DOMAIN categories
            /\ categories[assigned[m].category].space = item.space
        BY <2>2, SourceAnswers DEF m, Live, Sound, ShownFields
      <4>3. Forest(categories)
        BY DEF TypeOK, Forest
      <4> QED BY <4>1, <4>2, <4>3, LineInSpace, AncestryIsLine
    <3>2. m \in Live(assigned) /\ m \in DOMAIN assigned
      BY <2>3 DEF Live
    <3>3. m \in Live(list)
      BY <3>1, <3>2 DEF Live
    <3> QED BY <2>1, <2>5, <3>3
  <2> QED BY <2>4, <2>5
<1> QED BY <1>3, <1>4 DEF Carried

\* So are those that preserve_reachable_values moves.
LEMMA ValuesMove ==
    ASSUME TypeOK, Sound(assigned, value, item.space), NEW list,
           Reclassified(list, item.space)
    PROVE  Carried(list, Preserved(list), item.space)
<1> DEFINE s == item.space
           Before(f) == Answer(f, assigned, value, s)
           After(f) == Answer(f, list, value, s)
           src(f) == Source(f, list, value, s)
           moved == {f \in Effective(assigned, s) \cap Effective(list, s) :
                         /\ Before(f) # None
                         /\ After(f) = None
                         /\ src(f) # Source(f, assigned, value, s)}
           targets == {<<src(f), f>> : f \in moved}
           held == [at \in DOMAIN value \cup targets |->
                        IF at \in targets THEN Before(at[2]) ELSE value[at]]
<1>1. Preserved(list) = held
  BY DEF Preserved
<1>2. /\ list \in Seq(Assignment) /\ assigned \in Seq(Assignment)
      /\ DOMAIN value \subseteq (DOMAIN assigned) \X fields
      /\ \A n \in DOMAIN assigned : n \in DOMAIN list /\ list[n].category = assigned[n].category
      /\ \A n \in DOMAIN assigned : n \in Live(list) => n \in Live(assigned)
  BY DEF Reclassified, TypeOK, Live
<1>3. Sound(list, value, s)
  <2>1. DOMAIN value \subseteq (DOMAIN list) \X fields
    BY <1>2
  <2>2. ASSUME NEW n \in DOMAIN list, NEW f \in fields, <<n, f>> \in DOMAIN value
        PROVE  value[<<n, f>>] \in Values /\ f[1] \in Ancestry(list[n].category)
    BY <1>2, <2>2 DEF Sound
  <2>3. ASSUME NEW n \in Live(list), NEW m \in Live(list), n # m,
               NEW f \in fields, <<n, f>> \in DOMAIN value
        PROVE  <<m, f>> \notin DOMAIN value
    BY <1>2, <2>3 DEF Sound
  <2> QED BY <2>1, <2>2, <2>3 DEF Sound, Reclassified
<1>4. ASSUME NEW f \in Effective(list, s)
      PROVE  /\ f \in fields
             /\ src(f) \in Live(list) /\ src(f) \in DOMAIN list
             /\ f[1] \in Ancestry(list[src(f)].category)
             /\ \A m \in Live(list) : <<m, f>> \in DOMAIN value => src(f) = m
             /\ After(f) # None <=> <<src(f), f>> \in DOMAIN value
  BY <1>2, <1>3, SourceAnswers DEF Live
<1>5. ASSUME NEW f \in Effective(assigned, s), Before(f) # None
      PROVE  /\ f \in fields
             /\ <<Source(f, assigned, value, s), f>> \in DOMAIN value
             /\ Before(f) \in Values
  <2>1. LET n == Source(f, assigned, value, s) IN
        /\ f \in fields /\ n \in DOMAIN assigned
        /\ Before(f) = IF <<n, f>> \in DOMAIN value THEN value[<<n, f>>] ELSE None
    BY <1>2, SourceAnswers DEF Live
  <2> HIDE DEF Before
  <2> QED BY <1>5, <2>1 DEF Sound
<1> HIDE DEF Before, After, src, s
<1>6. ASSUME NEW f \in moved, NEW m \in Live(list)
      PROVE  <<m, f>> \notin DOMAIN value
  BY <1>4
<1>7. \A n, f : <<n, f>> \in targets => f \in moved /\ n = src(f)
  OBVIOUS
<1>8. \A f \in moved : <<src(f), f>> \in targets /\ f \in Effective(list, s) /\ f \in fields
  BY <1>4
<1>9. \A f \in moved : f \in Effective(assigned, s) /\ Before(f) # None /\ Before(f) \in Values
  BY <1>5
<1>10. \A f \in Effective(list, s) : f \notin moved =>
           (f \in Effective(assigned, s) /\ Before(f) # None =>
                After(f) # None \/ src(f) = Source(f, assigned, value, s))
  OBVIOUS
<1>11. \A at \in targets : \E f \in moved : at = <<src(f), f>>
  OBVIOUS
<1> HIDE DEF moved, targets
<1>12. DOMAIN held = DOMAIN value \cup targets
  OBVIOUS
<1>13. \A f \in moved : held[<<src(f), f>>] = Before(f)
  BY <1>8
<1>14. \A n, f : <<n, f>> \in DOMAIN value /\ <<n, f>> \notin targets
                     => held[<<n, f>>] = value[<<n, f>>]
  OBVIOUS
<1> HIDE DEF held
<1>15. Sound(list, held, s)
  <2>1. DOMAIN held \subseteq (DOMAIN list) \X fields
    <3>1. targets \subseteq (DOMAIN list) \X fields
      BY <1>4, <1>8, <1>11
    <3> QED BY <1>3, <1>12, <3>1 DEF Sound
  <2>2. ASSUME NEW n \in DOMAIN list, NEW f \in fields, <<n, f>> \in DOMAIN held
        PROVE  held[<<n, f>>] \in Values /\ f[1] \in Ancestry(list[n].category)
    <3>1. CASE <<n, f>> \in targets
      BY <1>4, <1>7, <1>8, <1>9, <1>13, <3>1
    <3>2. CASE <<n, f>> \notin targets
      BY <1>3, <1>12, <1>14, <2>2, <3>2 DEF Sound
    <3> QED BY <3>1, <3>2
  <2>3. ASSUME NEW n \in Live(list), NEW m \in Live(list), n # m,
               NEW f \in fields, <<n, f>> \in DOMAIN held
        PROVE  <<m, f>> \notin DOMAIN held
    <3>1. CASE f \in moved
      BY <1>6, <1>7, <1>12, <2>3, <3>1
    <3>2. CASE f \notin moved
      BY <1>3, <1>7, <1>12, <2>3, <3>2 DEF Sound
    <3> QED BY <3>1, <3>2
  <2>4. \A n, m \in Live(list) : n # m => list[n].category # list[m].category
    BY DEF Reclassified
  <2>5. \A n \in DOMAIN list :
            /\ list[n].category \in DOMAIN categories
            /\ ~ list[n].ended => categories[list[n].category].space = s
    BY <1>3 DEF Sound
  <2> QED BY <2>1, <2>2, <2>3, <2>4, <2>5 DEF Sound
<1>16. ASSUME NEW n \in DOMAIN assigned, NEW f \in fields, assigned[n].ended
       PROVE  /\ <<n, f>> \in DOMAIN held <=> <<n, f>> \in DOMAIN value
              /\ <<n, f>> \in DOMAIN value => held[<<n, f>>] = value[<<n, f>>]
  <2>1. n \notin Live(list)
    BY <1>16 DEF Reclassified, Live
  <2>2. <<n, f>> \notin targets
    BY <1>4, <1>7, <1>8, <2>1
  <2> QED BY <1>12, <1>14, <2>2
<1>17. ASSUME NEW f \in Effective(list, s)
       PROVE  Answer(f, list, held, s) =
                  IF f \in Effective(assigned, s) THEN Before(f) ELSE None
  <2> DEFINE n == Source(f, list, held, s)
             m == Source(f, assigned, value, s)
  <2>1. /\ f \in fields /\ n \in Live(list) /\ n \in DOMAIN list
        /\ \A k \in Live(list) : <<k, f>> \in DOMAIN held => n = k
        /\ Answer(f, list, held, s) =
               IF <<n, f>> \in DOMAIN held THEN held[<<n, f>>] ELSE None
    BY <1>2, <1>15, SourceAnswers DEF Live
  <2>2. f \in Effective(assigned, s) =>
            /\ m \in Live(assigned)
            /\ \A k \in Live(assigned) : <<k, f>> \in DOMAIN value => m = k
            /\ Before(f) = IF <<m, f>> \in DOMAIN value THEN value[<<m, f>>] ELSE None
    BY <1>2, SourceAnswers DEF Before, s
  <2> HIDE DEF n, m
  <2>3. CASE f \in moved
    BY <1>4, <1>8, <1>9, <1>12, <1>13, <2>1, <2>3
  <2>4. CASE f \notin moved /\ <<n, f>> \in DOMAIN held
    <3>1. <<n, f>> \in DOMAIN value /\ held[<<n, f>>] = value[<<n, f>>]
      BY <1>7, <1>12, <1>14, <2>4
    <3>2. n \in DOMAIN assigned /\ n \in Live(assigned)
      BY <1>2, <2>1, <3>1
    <3>3. f \in Effective(assigned, s)
      <4>1. f[1] \in Ancestry(assigned[n].category)
        BY <2>1, <3>1, <3>2 DEF Sound
      <4>2. n \in Reaching(f, assigned, s)
        BY <3>2, <4>1, ActiveIsLive DEF s
      <4> QED BY <2>1, <4>2 DEF Effective
    <3> QED BY <2>1, <2>2, <2>4, <3>1, <3>2, <3>3
  <2>5. CASE f \notin moved /\ <<n, f>> \notin DOMAIN held
    <3> SUFFICES ASSUME f \in Effective(assigned, s), Before(f) # None PROVE FALSE
      BY <2>1, <2>5
    <3>1. <<m, f>> \in DOMAIN value
      BY <2>2
    <3>2. After(f) # None \/ src(f) = m
      BY <1>10, <2>5 DEF m
    <3>3. src(f) \in Live(list) /\ <<src(f), f>> \in DOMAIN value
      BY <1>4, <3>1, <3>2
    <3> QED BY <1>12, <2>1, <2>5, <3>3
  <2> QED BY <2>3, <2>4, <2>5
<1> QED BY <1>1, <1>15, <1>16, <1>17 DEF Carried, Shown, ShownFields, Before, s

----------------------------------------------------------------------------
(* The steps. *)

\* What the two action properties say of a step.
ValuesKept ==
    /\ assigned' # assigned =>
           \A f \in ShownFields' :
               Shown(f)' = IF f \in ShownFields THEN Shown(f) ELSE None
    /\ assigned' # assigned \/ value' # value => item'.revision = item.revision + 1

Sealed ==
    \A n \in DOMAIN assigned \ Active(assigned, item.space) :
        /\ n \in DOMAIN assigned' \ Active(assigned', item'.space)
        /\ assigned'[n] = assigned[n]
        /\ \A f \in fields :
               LET at == <<n, f>> IN
               /\ at \in DOMAIN value' <=> at \in DOMAIN value
               /\ at \in DOMAIN value => value'[at] = value[at]

\* What a step shows is what its tables show.
LEMMA TablesShow ==
    ASSUME UNCHANGED <<categories, fields>>
    PROVE  /\ ShownFields' = Effective(assigned', item'.space)
           /\ \A f : Shown(f)' = Answer(f, assigned', value', item'.space)
           /\ Sound(assigned, value, item.space)' <=> Sound(assigned', value', item'.space)
<1>1. \A c : Ancestry(c)' = Ancestry(c)
  BY AncestryIsLine
<1>2. Active(assigned, item.space)' = Active(assigned', item'.space)
  BY DEF Active
<1>3. \A f : Reaching(f, assigned, item.space)' = Reaching(f, assigned', item'.space)
  BY <1>1, <1>2 DEF Reaching
<1>4. ShownFields' = Effective(assigned', item'.space)
  BY <1>3 DEF ShownFields, Effective
<1>5. ASSUME NEW f
      PROVE  Source(f, assigned, value, item.space)'
                 = Source(f, assigned', value', item'.space)
  <2>1. Reaching(f, assigned, item.space)' = Reaching(f, assigned', item'.space)
    BY <1>3
  <2> QED BY <2>1 DEF Source
<1>6. \A f : Shown(f)' = Answer(f, assigned', value', item'.space)
  BY <1>5 DEF Shown, Answer
<1>7. Sound(assigned, value, item.space)' <=> Sound(assigned', value', item'.space)
  BY <1>1 DEF Sound, Live
<1> QED BY <1>4, <1>6, <1>7

\* The handler after a change of the item.
LEMMA HandlerStep ==
    ASSUME IInv, item'.revision = item.revision + 1, item'.revision \in 1..MaxRevision,
           \/ UNCHANGED handler
           \/ Written /\ item'.space = item.space
    PROVE  handler' \in Handler \cup {None} /\ HandlerOK'
<1>1. item.revision \in Nat
  BY DEF IInv, TypeOK
<1>2. CASE UNCHANGED handler
  <2>1. handler # None => handler.revision \in Nat
    BY BoundAssumption DEF IInv, TypeOK, Handler
  <2> QED BY <1>1, <1>2, <2>1 DEF IInv, TypeOK, HandlerOK
<1>3. CASE Written /\ item'.space = item.space
  <2>1. PICK s \in Spaces, r \in 1..MaxRevision, e \in 0..MaxRevision, k \in BOOLEAN :
            handler = [space |-> s, revision |-> r, expected |-> e, pinned |-> k]
    BY <1>3 DEF Written, IInv, TypeOK, Handler
  <2>2. /\ handler' = [space |-> s, revision |-> item'.revision, expected |-> 0,
                     pinned |-> k \/ s = item.space]
        /\ e = item.revision
    BY <1>3, <2>1 DEF Written, AfterWrite
  <2>3. item.revision # 0
    BY DEF IInv, TypeOK
  <2>4. k => s = item.space
    <3>1. /\ handler.space = s /\ handler.revision = r
          /\ handler.expected = e /\ handler.pinned = k
      BY <2>1
    <3>2. handler # None
      BY <1>3 DEF Written
    <3>3. k => e \in {0, r} /\ (r = item.revision => s = item.space)
      BY <3>1, <3>2 DEF IInv, HandlerOK
    <3> QED BY <2>2, <2>3, <3>3
  <2>5. 0 \in 0..MaxRevision
    BY BoundAssumption
  <2>6. handler' \in Handler
    <3>1. PICK b \in BOOLEAN : b = (k \/ s = item.space)
      OBVIOUS
    <3>2. handler' = [space |-> s, revision |-> item'.revision, expected |-> 0, pinned |-> b]
      BY <2>2, <3>1
    <3> QED BY <2>5, <3>2 DEF Handler
  <2>7. /\ handler'.space = s /\ handler'.revision = item'.revision
        /\ handler'.expected = 0
        /\ handler'.pinned => s = item.space
    BY <2>2, <2>4
  <2>8. item'.revision \in Nat
    BY <1>1
  <2> QED BY <1>3, <2>4, <2>6, <2>7, <2>8 DEF HandlerOK
<1> QED BY <1>2, <1>3

\* The item after a change, which may have put it in another space.
After(s) == [space |-> s, trashed |-> item.trashed, revision |-> item.revision + 1]

LEMMA AfterIsNext ==
    ASSUME TypeOK, NEW s
    PROVE  NextRevision = After(item.space) /\ [NextRevision EXCEPT !.space = s] = After(s)
<1>1. PICK t \in Spaces, b \in BOOLEAN, r \in 1..MaxRevision :
          item = [space |-> t, trashed |-> b, revision |-> r]
  BY DEF TypeOK
<1>2. NextRevision = [space |-> t, trashed |-> b, revision |-> r + 1]
  BY <1>1 DEF NextRevision
<1>3. [NextRevision EXCEPT !.space = s] = [space |-> s, trashed |-> b, revision |-> r + 1]
  BY <1>2
<1> QED BY <1>1, <1>2, <1>3 DEF After

LEMMA AfterType ==
    ASSUME TypeOK, item.revision < MaxRevision, NEW s \in Spaces
    PROVE  /\ After(s) \in [space : Spaces, trashed : BOOLEAN, revision : 1..MaxRevision]
           /\ After(s).space = s /\ After(s).revision = item.revision + 1
           /\ After(s).revision \in 1..MaxRevision
<1>1. item.trashed \in BOOLEAN /\ item.revision \in 1..MaxRevision
  BY DEF TypeOK
<1>2. item.revision + 1 \in 1..MaxRevision
  BY <1>1, BoundAssumption
<1> QED BY <1>1, <1>2 DEF After

\* A change of categories.
LEMMA ReclassifyStep ==
    ASSUME IInv, NEW s \in Spaces,
           Reclassified(assigned', s), Carried(assigned', value', s),
           Len(assigned') <= MaxAssignments,
           item' = After(s),
           item.revision < MaxRevision,
           UNCHANGED <<categories, fields>>,
           \/ UNCHANGED handler
           \/ Written /\ s = item.space
    PROVE  IInv' /\ ValuesKept /\ Sealed
<1>1. TypeOK
  BY DEF IInv
<1>2. /\ item' \in [space : Spaces, trashed : BOOLEAN, revision : 1..MaxRevision]
      /\ item'.space = s
  BY <1>1, AfterType
<1>3. item'.revision \in 1..MaxRevision /\ item'.revision = item.revision + 1
  BY <1>1, AfterType
<1>4. Sound(assigned', value', s)
  BY DEF Carried
<1>5. TypeOK'
  <2>1. \A at \in DOMAIN value' : value'[at] \in Values
    BY <1>4 DEF Sound
  <2>2. handler' \in Handler \cup {None}
    BY <1>2, <1>3, HandlerStep
  <2>3. DOMAIN value' \subseteq (DOMAIN assigned') \X fields
    BY <1>4 DEF Sound
  <2>4. assigned' \in Seq(Assignment)
    BY DEF Reclassified
  <2>5. /\ categories \in Seq(Category) /\ Len(categories) <= MaxCategories
        /\ \A c \in DOMAIN categories : categories[c].parent # 0 =>
               /\ categories[c].parent < c
               /\ categories[categories[c].parent].space = categories[c].space
        /\ fields \subseteq Field
    BY Zenon DEF IInv, TypeOK
  <2>6. categories' = categories /\ fields' = fields
    OBVIOUS
  <2>7. DOMAIN value' \subseteq (DOMAIN assigned') \X fields'
    BY <2>3
  <2> QED BY <1>2, <2>1, <2>2, <2>4, <2>5, <2>6, <2>7 DEF TypeOK
<1>6. Sound(assigned, value, item.space)'
  BY <1>2, <1>4, TablesShow
<1>7. HandlerOK'
  BY <1>2, <1>3, HandlerStep
<1>8. ValuesKept
  <2>1. ShownFields' = Effective(assigned', s)
        /\ \A f : Shown(f)' = Answer(f, assigned', value', s)
    BY <1>2, TablesShow
  <2>2. \A f \in ShownFields' : Shown(f)' = IF f \in ShownFields THEN Shown(f) ELSE None
    BY <2>1 DEF Carried
  <2> QED BY <1>3, <2>2 DEF ValuesKept
<1>9. Sealed
  <2>1. Active(assigned, item.space) = Live(assigned)
    BY ActiveIsLive DEF IInv
  <2>2. SUFFICES ASSUME NEW n \in DOMAIN assigned, assigned[n].ended
                 PROVE  /\ n \in DOMAIN assigned' \ Active(assigned', item'.space)
                        /\ assigned'[n] = assigned[n]
                        /\ \A f \in fields :
                               /\ <<n, f>> \in DOMAIN value' <=> <<n, f>> \in DOMAIN value
                               /\ <<n, f>> \in DOMAIN value =>
                                      value'[<<n, f>>] = value[<<n, f>>]
    BY <2>1 DEF Sealed, Live
  <2>3. n \in DOMAIN assigned' /\ assigned'[n] = assigned[n]
    BY <2>2 DEF Reclassified
  <2>4. n \notin Active(assigned', item'.space)
    BY <2>2, <2>3 DEF Active
  <2> QED BY <2>2, <2>3, <2>4 DEF Carried
<1> QED BY <1>5, <1>6, <1>7, <1>8, <1>9 DEF IInv

LEMMA ChosenAreNumbers ==
    ASSUME IInv
    PROVE  /\ assigned \in Seq(Assignment)
           /\ categories \in Seq(Category) /\ Forest(categories)
           /\ DOMAIN categories \subseteq 1..MaxCategories
<1>1. /\ categories \in Seq(Category) /\ Len(categories) <= MaxCategories
      /\ assigned \in Seq(Assignment)
  BY DEF IInv, TypeOK
<1>2. DOMAIN categories = 1..Len(categories) /\ Len(categories) \in Nat
  BY <1>1
<1>3. DOMAIN categories \subseteq 1..MaxCategories
  BY <1>1, <1>2, BoundAssumption
<1>4. Forest(categories)
  BY DEF IInv, TypeOK, Forest
<1> QED BY <1>1, <1>3, <1>4

\* The lists of the three operations that change them.
LEMMA AddReclassifies ==
    ASSUME IInv, NEW chosen \in SUBSET DOMAIN categories,
           chosen \cap CategoriesOf(assigned, item.space) = {},
           BelongTo(chosen, item.space)
    PROVE  /\ Reclassified(Assign(assigned, chosen), item.space)
           /\ \A n \in DOMAIN assigned : Assign(assigned, chosen)[n] = assigned[n]
<1> DEFINE list == Assign(assigned, chosen)
           s == item.space
<1>1. assigned \in Seq(Assignment) /\ chosen \in SUBSET (1..MaxCategories)
  BY ChosenAreNumbers
<1>2. /\ list \in Seq(Assignment)
      /\ \A n \in DOMAIN assigned : n \in DOMAIN list /\ list[n] = assigned[n]
      /\ \A n \in DOMAIN list : n \notin DOMAIN assigned =>
             ~ list[n].ended /\ list[n].category \in chosen
      /\ \A n, m \in DOMAIN list :
             n \notin DOMAIN assigned /\ m \notin DOMAIN assigned /\ n # m
                 => list[n].category # list[m].category
  BY <1>1, AssignAppends
<1> HIDE DEF list
<1>3. \A n \in DOMAIN list :
          /\ list[n].category \in DOMAIN categories
          /\ ~ list[n].ended => categories[list[n].category].space = s
  BY <1>2 DEF IInv, Sound, BelongTo
<1>4. \A n \in Live(assigned) : assigned[n].category \notin chosen
  BY ActiveIsLive DEF IInv, CategoriesOf
<1>5. ASSUME NEW n \in Live(list), NEW m \in Live(list), n # m
      PROVE  list[n].category # list[m].category
  <2>1. n \in DOMAIN list /\ m \in DOMAIN list
    BY DEF Live
  <2>2. \A k \in Live(list) : k \in DOMAIN assigned => k \in Live(assigned)
    BY <1>2 DEF Live
  <2>3. CASE n \in DOMAIN assigned /\ m \in DOMAIN assigned
    BY <1>2, <1>5, <2>2, <2>3 DEF IInv, Sound
  <2>4. CASE n \in DOMAIN assigned /\ m \notin DOMAIN assigned
    BY <1>2, <1>4, <2>1, <2>2, <2>4
  <2>5. CASE n \notin DOMAIN assigned /\ m \in DOMAIN assigned
    BY <1>2, <1>4, <2>1, <2>2, <2>5
  <2>6. CASE n \notin DOMAIN assigned /\ m \notin DOMAIN assigned
    BY <1>2, <1>5, <2>1, <2>6
  <2> QED BY <2>3, <2>4, <2>5, <2>6
<1>6. Reclassified(list, s)
  BY <1>2, <1>3, <1>5 DEF Reclassified
<1> QED BY <1>2, <1>6 DEF list

LEMMA ReplaceReclassifies ==
    ASSUME IInv, NEW kept, NEW chosen \in SUBSET DOMAIN categories, NEW s \in Spaces,
           chosen \cap kept \cap CategoriesOf(assigned, item.space) = {},
           s # item.space => kept = {},
           BelongTo(chosen, s)
    PROVE  Reclassified(Assign(End(assigned, item.space, kept), chosen), s)
<1> DEFINE over == End(assigned, item.space, kept)
           list == Assign(over, chosen)
<1>1. assigned \in Seq(Assignment) /\ chosen \in SUBSET (1..MaxCategories)
  BY ChosenAreNumbers
<1>2. /\ over \in Seq(Assignment) /\ DOMAIN over = DOMAIN assigned
      /\ \A n \in DOMAIN assigned :
             /\ over[n].category = assigned[n].category
             /\ over[n].ended <=> \/ assigned[n].ended
                                  \/ /\ n \in Active(assigned, item.space)
                                     /\ assigned[n].category \notin kept
             /\ assigned[n].ended => over[n] = assigned[n]
  BY <1>1, EndEnds
<1>3. Active(assigned, item.space) = Live(assigned)
  BY ActiveIsLive DEF IInv
<1>4. \A n \in DOMAIN assigned :
          ~ over[n].ended => n \in Live(assigned) /\ assigned[n].category \in kept
  BY <1>2, <1>3 DEF Live
<1> HIDE DEF over
<1>5. /\ list \in Seq(Assignment)
      /\ \A n \in DOMAIN over : n \in DOMAIN list /\ list[n] = over[n]
      /\ \A n \in DOMAIN list : n \notin DOMAIN over =>
             ~ list[n].ended /\ list[n].category \in chosen
      /\ \A n, m \in DOMAIN list :
             n \notin DOMAIN over /\ m \notin DOMAIN over /\ n # m
                 => list[n].category # list[m].category
  BY <1>1, <1>2, AssignAppends
<1> HIDE DEF list
<1>6. \A n \in DOMAIN assigned : n \in DOMAIN list /\ list[n] = over[n]
  BY <1>2, <1>5
<1>7. ASSUME NEW n \in DOMAIN list
      PROVE  /\ list[n].category \in DOMAIN categories
             /\ ~ list[n].ended => categories[list[n].category].space = s
  <2>1. CASE n \in DOMAIN assigned
    <3>1. list[n].category = assigned[n].category /\ list[n].category \in DOMAIN categories
      BY <1>2, <1>6, <2>1 DEF IInv, Sound
    <3>2. ~ list[n].ended => s = item.space /\ n \in Live(assigned)
      BY <1>4, <1>6, <2>1
    <3> QED BY <2>1, <3>1, <3>2 DEF IInv, Sound, Live
  <2>2. CASE n \notin DOMAIN assigned
    BY <1>2, <1>5, <2>2 DEF BelongTo
  <2> QED BY <2>1, <2>2
<1>8. ASSUME NEW n \in Live(list), NEW m \in Live(list), n # m
      PROVE  list[n].category # list[m].category
  <2>1. n \in DOMAIN list /\ m \in DOMAIN list
    BY DEF Live
  <2>2. \A k \in Live(list) : k \in DOMAIN assigned =>
            /\ k \in Live(assigned)
            /\ list[k].category = assigned[k].category
            /\ list[k].category \in kept \cap CategoriesOf(assigned, item.space)
    BY <1>2, <1>3, <1>4, <1>6 DEF Live, CategoriesOf
  <2>3. \A k \in DOMAIN list : k \notin DOMAIN assigned => list[k].category \in chosen
    BY <1>2, <1>5
  <2>4. CASE n \in DOMAIN assigned /\ m \in DOMAIN assigned
    BY <1>8, <2>2, <2>4 DEF IInv, Sound
  <2>5. CASE n \in DOMAIN assigned /\ m \notin DOMAIN assigned
    BY <2>1, <2>2, <2>3, <2>5
  <2>6. CASE n \notin DOMAIN assigned /\ m \in DOMAIN assigned
    BY <2>1, <2>2, <2>3, <2>6
  <2>7. CASE n \notin DOMAIN assigned /\ m \notin DOMAIN assigned
    BY <1>2, <1>5, <1>8, <2>1, <2>7
  <2> QED BY <2>4, <2>5, <2>6, <2>7
<1>9. ASSUME NEW n \in DOMAIN assigned
      PROVE  /\ list[n].category = assigned[n].category
             /\ assigned[n].ended => list[n] = assigned[n]
             /\ s # item.space => list[n].ended
  BY <1>2, <1>4, <1>6
<1> QED BY <1>5, <1>6, <1>7, <1>8, <1>9 DEF Reclassified, list, over

\* A change that leaves the assignments alone.
LEMMA OtherStep ==
    ASSUME IInv, UNCHANGED <<categories, fields, assigned>>,
           item' \in [space : Spaces, trashed : BOOLEAN, revision : 1..MaxRevision],
           item'.space = item.space,
           Sound(assigned, value', item.space),
           \A n \in DOMAIN assigned, f \in fields : assigned[n].ended =>
               /\ <<n, f>> \in DOMAIN value' <=> <<n, f>> \in DOMAIN value
               /\ <<n, f>> \in DOMAIN value => value'[<<n, f>>] = value[<<n, f>>],
           value' # value => item'.revision = item.revision + 1,
           handler' \in Handler \cup {None}, HandlerOK'
    PROVE  IInv' /\ ValuesKept /\ Sealed
<1>1. Sound(assigned, value, item.space)'
  BY TablesShow
<1>2. TypeOK'
  <2>1. \A at \in DOMAIN value' : value'[at] \in Values
    BY DEF Sound
  <2>2. DOMAIN value' \subseteq (DOMAIN assigned') \X fields'
    BY DEF Sound
  <2>3. /\ categories \in Seq(Category) /\ Len(categories) <= MaxCategories
        /\ \A c \in DOMAIN categories : categories[c].parent # 0 =>
               /\ categories[c].parent < c
               /\ categories[categories[c].parent].space = categories[c].space
        /\ fields \subseteq Field
        /\ assigned \in Seq(Assignment) /\ Len(assigned) <= MaxAssignments
    BY DEF IInv, TypeOK
  <2>4. categories' = categories /\ fields' = fields /\ assigned' = assigned
    OBVIOUS
  <2> QED BY <2>1, <2>2, <2>3, <2>4 DEF TypeOK
<1>3. ValuesKept
  BY DEF ValuesKept
<1>4. Sealed
  <2>1. Active(assigned, item.space) = Live(assigned)
    BY ActiveIsLive DEF IInv
  <2>2. Active(assigned', item'.space) = Active(assigned, item.space)
    BY DEF Active
  <2> QED BY <2>1, <2>2 DEF Sealed, Live
<1> QED BY <1>1, <1>2, <1>3, <1>4 DEF IInv

\* Nothing changes but, perhaps, the handler.
LEMMA HandlerOnly ==
    ASSUME IInv, UNCHANGED tables, handler' \in Handler \cup {None}, HandlerOK'
    PROVE  IInv' /\ ValuesKept /\ Sealed
<1>1. /\ UNCHANGED <<categories, fields, assigned>> /\ value' = value /\ item' = item
  BY DEF tables
<1>2. /\ item' \in [space : Spaces, trashed : BOOLEAN, revision : 1..MaxRevision]
      /\ Sound(assigned, value', item.space)
  BY <1>1 DEF IInv, TypeOK
<1> QED BY <1>1, <1>2, OtherStep

LEMMA HandlerWaits ==
    ASSUME IInv, UNCHANGED tables, Written \/ UNCHANGED handler
    PROVE  IInv' /\ ValuesKept /\ Sealed
<1>1. item' = item
  BY DEF tables
<1>2. CASE UNCHANGED handler
  <2>1. handler' \in Handler \cup {None} /\ HandlerOK'
    BY <1>1, <1>2 DEF IInv, TypeOK, HandlerOK
  <2> QED BY <2>1, HandlerOnly
<1>3. CASE Written
  <2>1. PICK s \in Spaces, r \in 1..MaxRevision, e \in 0..MaxRevision, k \in BOOLEAN :
            handler = [space |-> s, revision |-> r, expected |-> e, pinned |-> k]
    BY <1>3 DEF Written, IInv, TypeOK, Handler
  <2>2. /\ handler' = [space |-> s, revision |-> item.revision, expected |-> 0,
                     pinned |-> k \/ s = item.space]
        /\ e = item.revision
    BY <1>1, <1>3, <2>1 DEF Written, AfterWrite
  <2>3. item.revision \in 1..MaxRevision /\ item.revision \in Nat /\ item.revision # 0
    BY BoundAssumption DEF IInv, TypeOK
  <2>4. k => s = item.space
    <3>1. /\ handler.space = s /\ handler.revision = r
          /\ handler.expected = e /\ handler.pinned = k
      BY <2>1
    <3>2. handler # None
      BY <1>3 DEF Written
    <3>3. k => e \in {0, r} /\ (r = item.revision => s = item.space)
      BY <3>1, <3>2 DEF IInv, HandlerOK
    <3> QED BY <2>2, <2>3, <3>3
  <2>5. 0 \in 0..MaxRevision
    BY BoundAssumption
  <2>6. handler' \in Handler
    <3>1. PICK b \in BOOLEAN : b = (k \/ s = item.space)
      OBVIOUS
    <3>2. handler' = [space |-> s, revision |-> item.revision, expected |-> 0, pinned |-> b]
      BY <2>2, <3>1
    <3> QED BY <2>3, <2>5, <3>2 DEF Handler
  <2>7. /\ handler'.space = s /\ handler'.revision = item.revision
        /\ handler'.expected = 0
        /\ handler'.pinned => s = item.space
    BY <2>2, <2>4
  <2>8. HandlerOK'
    BY <1>1, <2>3, <2>4, <2>7 DEF HandlerOK
  <2> QED BY <2>6, <2>8, HandlerOnly
<1> QED BY <1>2, <1>3

LEMMA AddStep ==
    ASSUME IInv, NEW chosen \in SUBSET DOMAIN categories, AddItemCategories(chosen)
    PROVE  IInv' /\ ValuesKept /\ Sealed
<1> DEFINE new == chosen \ CategoriesOf(assigned, item.space)
<1>1. Written \/ UNCHANGED handler
  BY DEF AddItemCategories
<1>2. CASE new = {}
  <2>1. UNCHANGED tables
    BY <1>2 DEF AddItemCategories, AddCategories
  <2> QED BY <1>1, <2>1, HandlerWaits
<1>3. CASE new # {}
  <2>1. /\ BelongTo(new, item.space)
        /\ assigned' = Assign(assigned, new) /\ Bounded(assigned')
        /\ item' = NextRevision
        /\ UNCHANGED <<categories, fields>> /\ value' = value
    BY <1>3 DEF AddItemCategories, AddCategories
  <2>2. new \in SUBSET DOMAIN categories
        /\ new \cap CategoriesOf(assigned, item.space) = {}
    OBVIOUS
  <2> HIDE DEF new
  <2>3. /\ Reclassified(assigned', item.space)
        /\ \A n \in DOMAIN assigned : assigned'[n] = assigned[n]
    BY <2>1, <2>2, AddReclassifies
  <2>4. Carried(assigned', value', item.space)
    BY <2>1, <2>3, ValuesStay DEF IInv
  <2>5. item' = After(item.space)
    BY <2>1, AfterIsNext DEF IInv
  <2>6. item.revision < MaxRevision /\ Len(assigned') <= MaxAssignments
    BY <2>1 DEF Bounded
  <2>7. item.space \in Spaces
    BY DEF IInv, TypeOK
  <2> QED BY <1>1, <2>1, <2>3, <2>4, <2>5, <2>6, <2>7, ReclassifyStep
<1> QED BY <1>2, <1>3

LEMMA ReplaceStep ==
    ASSUME IInv, NEW chosen \in SUBSET DOMAIN categories, ReplaceItemCategories(chosen)
    PROVE  IInv' /\ ValuesKept /\ Sealed
<1> DEFINE current == CategoriesOf(assigned, item.space)
           list == Assign(End(assigned, item.space, chosen), chosen \ current)
<1>1. Written \/ UNCHANGED handler
  BY DEF ReplaceItemCategories
<1>2. CASE chosen = current
  <2>1. UNCHANGED tables
    BY <1>2 DEF ReplaceItemCategories, ReplaceCategories
  <2> QED BY <1>1, <2>1, HandlerWaits
<1>3. CASE chosen # current
  <2>1. /\ BelongTo(chosen, item.space)
        /\ assigned' = list /\ Bounded(assigned')
        /\ value' = Preserved(assigned')
        /\ item' = NextRevision
        /\ UNCHANGED <<categories, fields>>
    BY <1>3 DEF ReplaceItemCategories, ReplaceCategories
  <2>2. item.space \in Spaces
    BY DEF IInv, TypeOK
  <2>3. Reclassified(assigned', item.space)
    <3>1. BelongTo(chosen \ current, item.space)
      BY <2>1 DEF BelongTo
    <3>2. /\ (chosen \ current) \in SUBSET DOMAIN categories
          /\ (chosen \ current) \cap chosen \cap current = {}
      OBVIOUS
    <3> QED BY <2>1, <2>2, <3>1, <3>2, ReplaceReclassifies
  <2>4. Carried(assigned', value', item.space)
    BY <2>1, <2>3, ValuesMove DEF IInv
  <2>5. item' = After(item.space)
    BY <2>1, AfterIsNext DEF IInv
  <2>6. item.revision < MaxRevision /\ Len(assigned') <= MaxAssignments
    BY <2>1 DEF Bounded
  <2> QED BY <1>1, <2>1, <2>2, <2>3, <2>4, <2>5, <2>6, ReclassifyStep
<1> QED BY <1>2, <1>3

LEMMA TransferStep ==
    ASSUME IInv, NEW s \in Spaces, NEW chosen \in SUBSET DOMAIN categories,
           Transfer(s, chosen)
    PROVE  IInv' /\ ValuesKept /\ Sealed
<1>1. /\ s # item.space /\ BelongTo(chosen, s)
      /\ assigned' = Assign(End(assigned, item.space, {}), chosen)
      /\ Bounded(assigned')
      /\ item' = [NextRevision EXCEPT !.space = s]
      /\ UNCHANGED <<categories, fields>> /\ value' = value /\ UNCHANGED handler
  BY DEF Transfer
<1>2. Reclassified(assigned', s)
  <2>1. chosen \cap {} \cap CategoriesOf(assigned, item.space) = {}
    OBVIOUS
  <2> QED BY <1>1, <2>1, ReplaceReclassifies
<1>3. Carried(assigned', value', s)
  BY <1>1, <1>2, ValuesStay DEF IInv
<1>4. item' = After(s)
  BY <1>1, AfterIsNext DEF IInv
<1>5. item.revision < MaxRevision /\ Len(assigned') <= MaxAssignments
  BY <1>1 DEF Bounded
<1> QED BY <1>1, <1>2, <1>3, <1>4, <1>5, ReclassifyStep

LEMMA SetStep ==
    ASSUME IInv, NEW f \in fields, NEW v \in Values, SetItemFieldValue(f, v)
    PROVE  IInv' /\ ValuesKept /\ Sealed
<1> DEFINE n == Source(f, assigned, value, item.space)
           at == <<n, f>>
<1>1. /\ item.revision < MaxRevision
      /\ f \in Effective(assigned, item.space)
      /\ value' = [x \in DOMAIN value \cup {at} |-> IF x = at THEN v ELSE value[x]]
      /\ item' = NextRevision
      /\ UNCHANGED <<categories, fields, assigned>>
      /\ Written \/ UNCHANGED handler
  BY DEF SetItemFieldValue, SetValue, Bounded
<1>2. /\ n \in Live(assigned) /\ n \in DOMAIN assigned /\ f[1] \in Ancestry(assigned[n].category)
      /\ \A m \in Live(assigned) : <<m, f>> \in DOMAIN value => n = m
  <2>1. assigned \in Seq(Assignment) /\ Sound(assigned, value, item.space)
    BY DEF IInv, TypeOK
  <2> QED BY <1>1, <2>1, SourceAnswers DEF Live
<1> HIDE DEF n
<1>3. DOMAIN value' = DOMAIN value \cup {at} /\ value'[at] = v
  BY <1>1
<1>4. \A m, g : <<m, g>> # at /\ <<m, g>> \in DOMAIN value => value'[<<m, g>>] = value[<<m, g>>]
  BY <1>1
<1>5. Sound(assigned, value', item.space)
  <2>1. DOMAIN value' \subseteq (DOMAIN assigned) \X fields
    BY <1>2, <1>3 DEF IInv, Sound
  <2>2. ASSUME NEW m \in DOMAIN assigned, NEW g \in fields, <<m, g>> \in DOMAIN value'
        PROVE  value'[<<m, g>>] \in Values /\ g[1] \in Ancestry(assigned[m].category)
    <3>1. CASE <<m, g>> = at
      BY <1>2, <1>3, <3>1
    <3>2. CASE <<m, g>> # at
      BY <1>3, <1>4, <2>2, <3>2 DEF IInv, Sound
    <3> QED BY <3>1, <3>2
  <2>3. ASSUME NEW m \in Live(assigned), NEW k \in Live(assigned), m # k,
               NEW g \in fields, <<m, g>> \in DOMAIN value'
        PROVE  <<k, g>> \notin DOMAIN value'
    <3>1. CASE g = f
      BY <1>2, <1>3, <2>3, <3>1
    <3>2. CASE g # f
      BY <1>3, <2>3, <3>2 DEF IInv, Sound
    <3> QED BY <3>1, <3>2
  <2>4. \A m, k \in Live(assigned) : m # k => assigned[m].category # assigned[k].category
    BY DEF IInv, Sound
  <2>5. \A m \in DOMAIN assigned :
            /\ assigned[m].category \in DOMAIN categories
            /\ ~ assigned[m].ended => categories[assigned[m].category].space = item.space
    BY DEF IInv, Sound
  <2> QED BY <2>1, <2>2, <2>3, <2>4, <2>5 DEF Sound
<1>6. ASSUME NEW m \in DOMAIN assigned, NEW g \in fields, assigned[m].ended
      PROVE  /\ <<m, g>> \in DOMAIN value' <=> <<m, g>> \in DOMAIN value
             /\ <<m, g>> \in DOMAIN value => value'[<<m, g>>] = value[<<m, g>>]
  <2>1. <<m, g>> # at
    BY <1>2, <1>6 DEF Live
  <2> QED BY <1>3, <1>4, <2>1
<1>7. item' = After(item.space) /\ TypeOK /\ item.space \in Spaces
  BY <1>1, AfterIsNext DEF IInv, TypeOK
<1>8. /\ item' \in [space : Spaces, trashed : BOOLEAN, revision : 1..MaxRevision]
      /\ item'.space = item.space /\ item'.revision = item.revision + 1
      /\ item'.revision \in 1..MaxRevision
  BY <1>1, <1>7, AfterType
<1>9. handler' \in Handler \cup {None} /\ HandlerOK'
  BY <1>1, <1>8, HandlerStep
<1> QED BY <1>1, <1>5, <1>6, <1>8, <1>9, OtherStep

LEMMA TrashStep ==
    ASSUME IInv, TrashOrRestore
    PROVE  IInv' /\ ValuesKept /\ Sealed
<1>1. PICK s \in Spaces, b \in BOOLEAN, r \in 1..MaxRevision :
          item = [space |-> s, trashed |-> b, revision |-> r]
  BY DEF IInv, TypeOK
<1>2. r < MaxRevision
  BY <1>1, BoundAssumption DEF TrashOrRestore
<1>3. NextRevision = [space |-> s, trashed |-> b, revision |-> r + 1]
  BY <1>1 DEF NextRevision
<1>4. PICK c \in BOOLEAN : item' = [space |-> s, trashed |-> c, revision |-> r + 1]
  <2>1. item' = [NextRevision EXCEPT !.trashed = ~ b]
    BY <1>3 DEF TrashOrRestore
  <2>2. item' = [space |-> s, trashed |-> ~ b, revision |-> r + 1]
    BY <1>3, <2>1
  <2>3. (~ b) \in BOOLEAN
    OBVIOUS
  <2> QED BY <2>2, <2>3
<1>5. /\ item' \in [space : Spaces, trashed : BOOLEAN, revision : 1..MaxRevision]
      /\ item'.space = item.space /\ item'.revision = item.revision + 1
      /\ item'.revision \in 1..MaxRevision
  <2>1. r + 1 \in 1..MaxRevision
    BY <1>2, BoundAssumption
  <2> QED BY <1>1, <1>4, <2>1
<1>6. UNCHANGED <<categories, fields, assigned>> /\ value' = value /\ UNCHANGED handler
  BY DEF TrashOrRestore
<1>7. handler' \in Handler \cup {None} /\ HandlerOK'
  BY <1>5, <1>6, HandlerStep
<1>8. Sound(assigned, value', item.space)
  BY <1>6 DEF IInv
<1> QED BY <1>5, <1>6, <1>7, <1>8, OtherStep

LEMMA AuthorizeStep ==
    ASSUME IInv, NEW expected \in 0..MaxRevision, AuthorizeItem(expected)
    PROVE  IInv' /\ ValuesKept /\ Sealed
<1>1. /\ handler' = [space |-> item.space, revision |-> item.revision,
                    expected |-> expected, pinned |-> expected <= item.revision]
      /\ expected \in {0, item.revision, item.revision + 1}
      /\ UNCHANGED tables /\ item' = item
  BY DEF AuthorizeItem, tables
<1>2. item.space \in Spaces /\ item.revision \in 1..MaxRevision
  BY DEF IInv, TypeOK
<1>3. handler' \in Handler
  <2>1. (expected <= item.revision) \in BOOLEAN
    OBVIOUS
  <2> QED BY <1>1, <1>2, <2>1 DEF Handler
<1>4. /\ handler'.space = item.space /\ handler'.revision = item.revision
      /\ handler'.expected = expected /\ handler'.pinned = (expected <= item.revision)
  BY <1>1
<1>5. item.revision \in Nat
  BY <1>2
<1>6. expected <= item.revision => expected \in {0, item.revision}
  BY <1>1, <1>5
<1>7. HandlerOK'
  <2>1. handler'.pinned => handler'.expected \in {0, handler'.revision}
    BY <1>4, <1>6
  <2>2. handler'.revision <= item'.revision /\ handler'.space = item'.space
    BY <1>1, <1>4, <1>5
  <2> QED BY <2>1, <2>2 DEF HandlerOK
<1> QED BY <1>1, <1>3, <1>7, HandlerOnly

LEMMA ListStep ==
    ASSUME IInv, ListItemFields
    PROVE  IInv' /\ ValuesKept /\ Sealed
<1>1. handler' \in Handler \cup {None} /\ HandlerOK' /\ UNCHANGED tables
  BY DEF ListItemFields, HandlerOK
<1> QED BY <1>1, HandlerOnly

\* A new field is on no assignment.
LEMMA FieldStep ==
    ASSUME IInv, NEW c \in DOMAIN categories, NEW name \in FieldNames, CreateField(c, name)
    PROVE  IInv' /\ ValuesKept /\ Sealed
<1>1. /\ fields' = fields \cup {<<c, name>>}
      /\ categories' = categories /\ assigned' = assigned /\ value' = value
      /\ item' = item /\ handler' = handler
  BY DEF CreateField
<1>2. \A d : Ancestry(d)' = Ancestry(d)
  BY <1>1, AncestryIsLine
<1>3. <<c, name>> \in Field
  BY ChosenAreNumbers DEF Field
<1>4. TypeOK'
  <2>1. fields' \subseteq Field /\ fields \subseteq fields'
    BY <1>1, <1>3 DEF IInv, TypeOK
  <2>2. DOMAIN value' \subseteq (DOMAIN assigned') \X fields'
    BY <1>1, <2>1 DEF IInv, TypeOK
  <2>3. TypeOK
    BY DEF IInv
  <2> QED BY <1>1, <2>1, <2>2, <2>3 DEF TypeOK
<1>5. \A m : \A f \in fields' : <<m, f>> \in DOMAIN value => f \in fields
  BY DEF IInv, TypeOK
<1>6. Sound(assigned, value, item.space)'
  <2>1. DOMAIN value' \subseteq (DOMAIN assigned') \X fields'
    BY <1>4 DEF TypeOK
  <2>2. Sound(assigned, value, item.space)
    BY DEF IInv
  <2> QED BY <1>1, <1>2, <1>5, <2>1, <2>2 DEF Sound, Live
<1>7. HandlerOK'
  BY <1>1 DEF IInv, HandlerOK
<1>8. ValuesKept /\ Sealed
  BY <1>1 DEF ValuesKept, Sealed, Active
<1> QED BY <1>4, <1>6, <1>7, <1>8 DEF IInv

\* A new category is above none.
LEMMA CategoryStep ==
    ASSUME IInv, NEW s \in Spaces, NEW p \in 0..Len(categories), CreateCategory(s, p)
    PROVE  IInv' /\ ValuesKept /\ Sealed
<1>1. /\ Len(categories) < MaxCategories
      /\ p # 0 => categories[p].space = s
      /\ categories' = Append(categories, [space |-> s, parent |-> p])
      /\ fields' = fields /\ assigned' = assigned /\ value' = value
      /\ item' = item /\ handler' = handler
  BY DEF CreateCategory
<1>2. /\ categories \in Seq(Category) /\ Forest(categories)
      /\ Len(categories) \in Nat /\ DOMAIN categories = 1..Len(categories)
  BY ChosenAreNumbers
<1>3. [space |-> s, parent |-> p] \in Category
  <2>1. p \in 0..MaxCategories
    BY <1>1, <1>2, BoundAssumption
  <2> QED BY <2>1 DEF Category
<1>4. /\ categories' \in Seq(Category) /\ Len(categories') = Len(categories) + 1
      /\ DOMAIN categories' = 1..(Len(categories) + 1)
      /\ \A c \in DOMAIN categories : categories'[c] = categories[c]
      /\ categories'[Len(categories) + 1] = [space |-> s, parent |-> p]
  <2> DEFINE new == [space |-> s, parent |-> p]
  <2> HIDE DEF new
  <2>1. categories' = Append(categories, new) /\ new \in Category
    BY <1>1, <1>3 DEF new
  <2>2. /\ categories' \in Seq(Category) /\ Len(categories') = Len(categories) + 1
        /\ \A c \in 1..Len(categories) : categories'[c] = categories[c]
        /\ categories'[Len(categories) + 1] = new
    BY <1>2, <2>1, AppendProperties
  <2> QED BY <1>2, <2>2 DEF new
<1>5. ASSUME NEW c \in DOMAIN categories', categories'[c].parent # 0
      PROVE  /\ categories'[c].parent < c
             /\ categories'[categories'[c].parent].space = categories'[c].space
  <2>1. CASE c \in DOMAIN categories
    <3>1. categories[c].parent # 0 /\ categories'[c] = categories[c]
      BY <1>4, <1>5, <2>1
    <3>2. /\ categories[c].parent \in DOMAIN categories /\ categories[c].parent < c
          /\ categories[categories[c].parent].space = categories[c].space
      BY <1>2, <2>1, <3>1, ParentsAreOlder
    <3> QED BY <1>4, <3>1, <3>2
  <2>2. CASE c \notin DOMAIN categories
    <3>1. c = Len(categories) + 1
      BY <1>2, <1>4, <2>2
    <3>2. categories'[c].parent = p /\ categories'[c].space = s
      BY <1>4, <3>1
    <3>3. p \in DOMAIN categories /\ p < c
      BY <1>2, <1>5, <3>1, <3>2
    <3> QED BY <1>1, <1>4, <1>5, <3>2, <3>3
  <2> QED BY <2>1, <2>2
<1>6. Forest(categories')
  BY <1>4, <1>5 DEF Forest
<1>7. \A c \in DOMAIN categories : Ancestry(c)' = Ancestry(c)
  <2>1. Len(categories) <= Len(categories')
    BY <1>2, <1>4
  <2> QED BY <1>2, <1>4, <1>6, <2>1, LineStays, AncestryIsLine
<1>8. TypeOK'
  <2>1. Len(categories') <= MaxCategories
    BY <1>1, <1>2, <1>4, BoundAssumption
  <2>2. TypeOK
    BY DEF IInv
  <2> QED BY <1>1, <1>4, <1>5, <2>1, <2>2 DEF TypeOK
<1>9. Sound(assigned, value, item.space)'
  <2>1. \A c \in DOMAIN categories : c \in DOMAIN categories'
    BY <1>2, <1>4
  <2>2. Sound(assigned, value, item.space)
    BY DEF IInv
  <2> QED BY <1>1, <1>4, <1>7, <2>1, <2>2 DEF Sound, Live
<1>10. HandlerOK'
  BY <1>1 DEF IInv, HandlerOK
<1>11. ValuesKept /\ Sealed
  BY <1>1 DEF ValuesKept, Sealed, Active
<1> QED BY <1>8, <1>9, <1>10, <1>11 DEF IInv

----------------------------------------------------------------------------
LEMMA InitIInv == Init => IInv
<1> SUFFICES ASSUME Init PROVE IInv
  OBVIOUS
<1>1. PICK s \in Spaces : item = [space |-> s, trashed |-> FALSE, revision |-> 1]
  BY DEF Init
<1>2. categories = <<>> /\ fields = {} /\ assigned = <<>> /\ value = <<>> /\ handler = None
  BY DEF Init
<1>3. item \in [space : Spaces, trashed : BOOLEAN, revision : 1..MaxRevision]
  <2>1. 1 \in 1..MaxRevision
    BY BoundAssumption
  <2> QED BY <1>1, <2>1
<1>4. DOMAIN categories = {} /\ DOMAIN assigned = {} /\ DOMAIN value = {}
  BY <1>2
<1>5. /\ categories \in Seq(Category) /\ Len(categories) <= MaxCategories
      /\ assigned \in Seq(Assignment) /\ Len(assigned) <= MaxAssignments
  BY <1>2, BoundAssumption
<1>6. TypeOK
  BY <1>2, <1>3, <1>4, <1>5 DEF TypeOK
<1>7. Sound(assigned, value, item.space)
  BY <1>4 DEF Sound, Live
<1>8. HandlerOK
  BY <1>2 DEF HandlerOK
<1> QED BY <1>6, <1>7, <1>8 DEF IInv

LEMMA Step == IInv /\ [Next]_vars => IInv' /\ ValuesKept /\ Sealed
<1> SUFFICES ASSUME IInv, [Next]_vars PROVE IInv' /\ ValuesKept /\ Sealed
  OBVIOUS
<1>1. CASE \E s \in Spaces, p \in 0..Len(categories) : CreateCategory(s, p)
  BY <1>1, CategoryStep
<1>2. CASE \E c \in DOMAIN categories, name \in FieldNames : CreateField(c, name)
  BY <1>2, FieldStep
<1>3. CASE \E chosen \in SUBSET DOMAIN categories : AddItemCategories(chosen)
  BY <1>3, AddStep
<1>4. CASE \E chosen \in SUBSET DOMAIN categories : ReplaceItemCategories(chosen)
  BY <1>4, ReplaceStep
<1>5. CASE \E chosen \in SUBSET DOMAIN categories, s \in Spaces : Transfer(s, chosen)
  BY <1>5, TransferStep
<1>6. CASE \E f \in fields, v \in Values : SetItemFieldValue(f, v)
  BY <1>6, SetStep
<1>7. CASE TrashOrRestore
  BY <1>7, TrashStep
<1>8. CASE \E expected \in 0..MaxRevision : AuthorizeItem(expected)
  BY <1>8, AuthorizeStep
<1>9. CASE ListItemFields
  BY <1>9, ListStep
<1>10. CASE UNCHANGED vars
  <2>1. UNCHANGED tables /\ UNCHANGED handler
    BY <1>10 DEF vars
  <2> QED BY <2>1, HandlerWaits
<1> QED
  BY <1>1, <1>2, <1>3, <1>4, <1>5, <1>6, <1>7, <1>8, <1>9, <1>10 DEF Next

LEMMA AlwaysIInv == Spec => []IInv
<1>1. IInv /\ [Next]_vars => IInv'
  BY Step
<1> QED BY InitIInv, <1>1, PTL DEF Spec

\* The state has its type: categories form a forest, each tree of it in one space,
\* and values hang on assignments there are.
THEOREM ClassificationTypeCorrect == Spec => []TypeOK
<1>1. IInv => TypeOK
  BY DEF IInv
<1> QED BY AlwaysIInv, <1>1, PTL

\* In any forest, an item is in a category once, and one assignment at most holds
\* the value of a field it shows (set_item_field_value, preserve_reachable_values).
THEOREM FieldsHaveOneValue == Spec => []OneValuePerField
<1>1. IInv => OneValuePerField
  BY ActiveIsLive DEF IInv, Sound, OneValuePerField
<1> QED BY AlwaysIInv, <1>1, PTL

\* A page whose revision is still the item's shows the item as it is, although its
\* parts are read at different moments (authorized_item, effective_item_fields),
\* but for the answer to a write that named a revision the item had not reached
\* and found the item in another space.
THEOREM PagesAreRight == Spec => []CurrentPagesAreRight
<1>1. IInv => CurrentPagesAreRight
  BY DEF IInv, HandlerOK, CurrentPagesAreRight, ShownFields, AnsweredFields, Shown, Answered
<1> QED BY AlwaysIInv, <1>1, PTL

\* A reclassification or a transfer loses no value that can still be reached, and
\* brings none back (preserve_reachable_values, apply_transfer_categories).
THEOREM ValuesSurvive == Spec => ReclassificationKeepsValues
<1>1. IInv /\ [Next]_vars => [ValuesKept]_vars
  BY Step
<1> QED BY AlwaysIInv, <1>1, PTL DEF Spec, ReclassificationKeepsValues, ValuesKept

\* What has ended never comes back to a classification, nor do its values change.
THEOREM EndedIsSealed == Spec => HistoryIsSealed
<1>1. IInv /\ [Next]_vars => [Sealed]_vars
  BY Step
<1> QED BY AlwaysIInv, <1>1, PTL DEF Spec, HistoryIsSealed, Sealed
=============================================================================
