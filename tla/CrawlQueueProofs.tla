-------------------------- MODULE CrawlQueueProofs --------------------------
(* The crawl queue: its types, and that the pages which are followed are   *)
(* the best ones within the budget.  What the sequences of the model are   *)
(* (the fold of `push` over a list, the sorted queue) is proved first, by  *)
(* induction over their length.                                            *)
EXTENDS CrawlQueue, FiniteSetTheorems, TLAPS

-----------------------------------------------------------------------------
(* Induction, from the library's fact that < is well founded on Nat.       *)

LEMMA LeastElement ==
    ASSUME NEW T, T \subseteq Nat, T # {}
    PROVE  \E n \in T : \A m \in T : n <= m
<1> DEFINE R == OpToRel(<, Nat)
<1>1. \E x \in T : \A y \in T : <<y, x>> \notin R
  <2>1. IsWellFoundedOn(R, Nat)
    BY NatLessThanWellFounded
  <2> HIDE DEF R
  <2> QED BY <2>1, WFMin
<1>2. \A x, y \in Nat : y < x => <<y, x>> \in R
  BY DEF OpToRel
<1> HIDE DEF R
<1>3. PICK n \in T : \A m \in T : <<m, n>> \notin R
  BY <1>1
<1>4. ASSUME NEW m \in T PROVE n <= m
  <2>1. m \in Nat /\ n \in Nat /\ ~(m < n)
    BY <1>2, <1>3
  <2> QED BY <2>1
<1> QED BY <1>4

LEMMA Induction ==
    ASSUME NEW T, NEW n \in Nat, 0 \in T, \A k \in 0 .. n - 1 : k \in T => k + 1 \in T
    PROVE  n \in T
<1> SUFFICES ASSUME n \notin T PROVE FALSE
  OBVIOUS
<1>1. PICK k \in (0 .. n) \ T : \A m \in (0 .. n) \ T : k <= m
  <2>1. (0 .. n) \ T \subseteq Nat /\ (0 .. n) \ T # {}
    OBVIOUS
  <2> QED BY <2>1, LeastElement
<1>2. k # 0 /\ k - 1 \in 0 .. n - 1 /\ k - 1 \in T
  BY <1>1
<1> QED BY <1>1, <1>2

LEMMA Maximum ==
    ASSUME NEW n \in Nat, NEW s \in SUBSET (1 .. n), s # {}
    PROVE  Max(s) \in s /\ \A x \in s : x <= Max(s)
<1> DEFINE D == {n - x : x \in s}
<1>1. PICK m \in D : \A o \in D : m <= o
  <2>1. \A x \in s : n - x \in Nat
    OBVIOUS
  <2>2. D \subseteq Nat /\ D # {}
    BY <2>1
  <2> HIDE DEF D
  <2> QED BY <2>2, LeastElement
<1>2. PICK x \in s : m = n - x
  OBVIOUS
<1>3. ASSUME NEW y \in s PROVE y <= x
  <2>1. n - y \in D /\ x \in Nat /\ y \in Nat
    OBVIOUS
  <2>2. m <= n - y
    BY <1>1, <2>1
  <2> QED BY <1>2, <2>1, <2>2
<1>4. \E z \in s : \A y \in s : z >= y
  BY <1>3
<1>5. Max(s) \in s /\ \A y \in s : Max(s) >= y
  BY <1>4 DEF Max
<1> QED BY <1>5

-----------------------------------------------------------------------------
(* Folds.                                                                  *)

(* There is a function that computes the fold of F from the right end of a *)
(* set of positions.                                                       *)
IsFold(g, F, base, n) ==
    \A s \in SUBSET (1 .. n) :
        g[s] = IF s = {} THEN base ELSE F[<<g[s \ {Max(s)}], Max(s)>>]

LEMMA FoldExists ==
    ASSUME NEW Q, NEW n \in Nat, NEW F \in [Q \X (1 .. n) -> Q], NEW base \in Q
    PROVE  \E g \in [SUBSET (1 .. n) -> Q] : IsFold(g, F, base, n)
<1> DEFINE T == {k \in 0 .. n : \E g \in [SUBSET (1 .. k) -> Q] : IsFold(g, F, base, k)}
<1>1. 0 \in T
  <2> DEFINE g == [s \in SUBSET (1 .. 0) |-> base]
  <2>1. g \in [SUBSET (1 .. 0) -> Q]
    OBVIOUS
  <2>2. \A s \in SUBSET (1 .. 0) : s = {} /\ g[s] = base
    OBVIOUS
  <2>3. IsFold(g, F, base, 0)
    BY <2>2 DEF IsFold
  <2>4. 0 \in 0 .. n
    OBVIOUS
  <2> HIDE DEF g
  <2> QED BY <2>1, <2>3, <2>4
<1>2. ASSUME NEW k \in 0 .. n - 1, k \in T PROVE k + 1 \in T
  <2>1. PICK g \in [SUBSET (1 .. k) -> Q] : IsFold(g, F, base, k)
    BY <1>2
  <2> DEFINE h == [s \in SUBSET (1 .. k + 1) |->
                     IF k + 1 \in s THEN F[<<g[s \ {k + 1}], k + 1>>] ELSE g[s]]
  <2>2. \A s \in SUBSET (1 .. k + 1) :
           /\ k + 1 \in s => Max(s) = k + 1 /\ s \ {k + 1} \in SUBSET (1 .. k)
           /\ k + 1 \notin s => s \in SUBSET (1 .. k)
    <3>1. ASSUME NEW s \in SUBSET (1 .. k + 1), k + 1 \in s PROVE Max(s) = k + 1
      <4>1. PICK m : m = Max(s)
        OBVIOUS
      <4>2. k + 1 \in Nat /\ s # {}
        BY <3>1
      <4>3. m \in s /\ \A x \in s : x <= m
        BY <4>1, <4>2, Maximum
      <4>4. m = k + 1
        BY <3>1, <4>3
      <4> QED BY <4>1, <4>4
    <3> QED BY <3>1
  <2>3. h \in [SUBSET (1 .. k + 1) -> Q]
    <3> SUFFICES ASSUME NEW s \in SUBSET (1 .. k + 1) PROVE h[s] \in Q
      OBVIOUS
    <3>1. k + 1 \in 1 .. n
      OBVIOUS
    <3>2. CASE k + 1 \in s
      <4>1. g[s \ {k + 1}] \in Q
        <5>1. s \ {k + 1} \in SUBSET (1 .. k)
          BY <2>2, <3>2
        <5> HIDE DEF h
        <5> QED BY <5>1
      <4>2. h[s] = F[<<g[s \ {k + 1}], k + 1>>]
        BY <3>2
      <4> HIDE DEF h
      <4> QED BY <3>1, <4>1, <4>2
    <3>3. CASE k + 1 \notin s
      <4>1. s \in SUBSET (1 .. k) /\ h[s] = g[s]
        BY <2>2, <3>3
      <4> HIDE DEF h
      <4> QED BY <4>1
    <3> QED BY <3>2, <3>3
  <2>4. ASSUME NEW s \in SUBSET (1 .. k + 1)
        PROVE  h[s] = IF s = {} THEN base ELSE F[<<h[s \ {Max(s)}], Max(s)>>]
    <3>1. CASE k + 1 \in s
      <4>1. h[s \ {k + 1}] = g[s \ {k + 1}]
        BY <2>2, <3>1
      <4>2. h[s] = F[<<g[s \ {k + 1}], k + 1>>]
        BY <3>1
      <4> HIDE DEF h
      <4> QED BY <2>2, <3>1, <4>1, <4>2
    <3>2. CASE k + 1 \notin s
      <4>1. s \in SUBSET (1 .. k) /\ h[s] = g[s] /\ h[s \ {Max(s)}] = g[s \ {Max(s)}]
        BY <2>2, <3>2
      <4> HIDE DEF h
      <4> QED BY <2>1, <4>1 DEF IsFold
    <3> QED BY <3>1, <3>2
  <2>5. IsFold(h, F, base, k + 1)
    <3> HIDE DEF h
    <3> QED BY <2>4 DEF IsFold
  <2> HIDE DEF h
  <2> QED BY <2>3, <2>5
<1>3. n \in T
  <2> HIDE DEF T
  <2> QED BY <1>1, <1>2, Induction
<1> QED BY <1>3

LEMMA InitialPositions ==
    ASSUME NEW k \in Nat, k # 0
    PROVE  /\ 1 .. k # {}
           /\ (1 .. k) \ {k} = 1 .. (k - 1)
           /\ Max(1 .. k) = k
<1>1. k \in Nat /\ (1 .. k) \in SUBSET (1 .. k) /\ k \in 1 .. k /\ (1 .. k) # {}
  OBVIOUS
<1>2. PICK m : m = Max(1 .. k)
  OBVIOUS
<1>3. m \in 1 .. k /\ k <= m
  BY <1>1, <1>2, Maximum
<1>4. m = k /\ (1 .. k) \ {k} = 1 .. (k - 1)
  BY <1>3
<1> QED BY <1>1, <1>2, <1>4

Tiers == {Core, High, Medium, Low}
Queues == [items : Seq(CrawlItems), seen : SUBSET Titles]

LEMMA PushType ==
    ASSUME NEW q \in Queues, NEW t \in Titles, NEW r \in Tiers
    PROVE  Push(q, t, r) \in Queues
<1>1. [title |-> t, tier |-> r, rank |-> Len(q.items) + 1] \in CrawlItems
  BY DEF CrawlItems, Tiers, Queues
<1> QED BY <1>1 DEF Push, Queues

(* `extend` pushes the titles one after the other. *)
LEMMA ExtendSteps ==
    ASSUME NEW queue \in Queues, NEW titles \in Seq(Titles), NEW tier \in [Titles -> Tiers]
    PROVE  \E h \in [0 .. Len(titles) -> Queues] :
              /\ h[0] = queue
              /\ \A k \in 1 .. Len(titles) :
                    h[k] = Push(h[k - 1], titles[k], tier[titles[k]])
              /\ h[Len(titles)] = Extend(queue, titles, tier)
<1> DEFINE n == Len(titles)
           Body(f, s) == IF s = {} THEN queue
                         ELSE Push(f[s \ {Max(s)}], titles[Max(s)], tier[titles[Max(s)]])
           iter == CHOOSE f : f = [s \in SUBSET (1 .. n) |-> Body(f, s)]
<1>1. n \in Nat /\ DOMAIN titles = 1 .. n /\ \A k \in 1 .. n : titles[k] \in Titles
  OBVIOUS
<1>2. Extend(queue, titles, tier) = iter[1 .. n]
  BY <1>1 DEF Extend, FoldLeft, MapThenFoldSet
<1>3. \E f : f = [s \in SUBSET (1 .. n) |-> Body(f, s)]
  <2> DEFINE F == [x \in Queues \X (1 .. n) |-> Push(x[1], titles[x[2]], tier[titles[x[2]]])]
  <2>1. F \in [Queues \X (1 .. n) -> Queues]
    BY <1>1, PushType
  <2>2. \A q \in Queues, k \in 1 .. n : F[<<q, k>>] = Push(q, titles[k], tier[titles[k]])
    OBVIOUS
  <2> HIDE DEF F, n
  <2>3. PICK g \in [SUBSET (1 .. n) -> Queues] : IsFold(g, F, queue, n)
    BY <1>1, <2>1, FoldExists
  <2>4. ASSUME NEW s \in SUBSET (1 .. n) PROVE g[s] = Body(g, s)
    <3>1. CASE s = {}
      BY <2>3, <3>1 DEF IsFold
    <3>2. CASE s # {}
      <4>1. Max(s) \in 1 .. n
        BY <1>1, <3>2, Maximum
      <4>2. g[s \ {Max(s)}] \in Queues
        OBVIOUS
      <4>3. g[s] = F[<<g[s \ {Max(s)}], Max(s)>>]
        BY <2>3, <3>2 DEF IsFold
      <4> QED BY <2>2, <3>2, <4>1, <4>2, <4>3
    <3> QED BY <3>1, <3>2
  <2>5. g = [s \in SUBSET (1 .. n) |-> Body(g, s)]
    BY <2>4
  <2> QED BY <2>5
<1>4. iter = [s \in SUBSET (1 .. n) |-> Body(iter, s)]
  BY <1>3
<1> HIDE DEF iter
<1> DEFINE h == [k \in 0 .. n |-> iter[1 .. k]]
<1>5. \A s \in SUBSET (1 .. n) : iter[s] = Body(iter, s)
  BY <1>4
<1>6. h[0] = queue
  <2>1. 1 .. 0 = {} /\ 0 \in 0 .. n /\ {} \in SUBSET (1 .. n)
    BY <1>1
  <2> HIDE DEF n
  <2> QED BY <1>5, <2>1
<1>7. ASSUME NEW k \in 1 .. n PROVE h[k] = Push(h[k - 1], titles[k], tier[titles[k]])
  <2>1. k \in Nat /\ k # 0 /\ (1 .. k) \in SUBSET (1 .. n) /\ k \in 0 .. n /\ k - 1 \in 0 .. n
    BY <1>1
  <2>2. (1 .. k) # {} /\ (1 .. k) \ {k} = 1 .. (k - 1) /\ Max(1 .. k) = k
    BY <2>1, InitialPositions
  <2> HIDE DEF n
  <2>3. iter[1 .. k] = Push(iter[1 .. (k - 1)], titles[k], tier[titles[k]])
    BY <1>5, <2>1, <2>2
  <2> QED BY <2>1, <2>3
<1>8. h \in [0 .. n -> Queues]
  <2> DEFINE T == {k \in 0 .. n : h[k] \in Queues}
  <2>1. 0 \in T
    <3> HIDE DEF h
    <3> QED BY <1>1, <1>6
  <2>2. ASSUME NEW k \in 0 .. n - 1, k \in T PROVE k + 1 \in T
    <3>1. k + 1 \in 1 .. n /\ k + 1 \in 0 .. n /\ (k + 1) - 1 = k
      BY <1>1
    <3>2. h[k + 1] = Push(h[k], titles[k + 1], tier[titles[k + 1]])
      <4> HIDE DEF h, n
      <4> QED BY <1>7, <3>1
    <3>3. h[k] \in Queues /\ titles[k + 1] \in Titles /\ tier[titles[k + 1]] \in Tiers
      <4> HIDE DEF h
      <4> QED BY <1>1, <2>2, <3>1
    <3> HIDE DEF h, n
    <3> QED BY <3>1, <3>2, <3>3, PushType
  <2>3. ASSUME NEW k \in 0 .. n PROVE h[k] \in Queues
    <3>1. k \in Nat /\ \A j \in 0 .. k - 1 : j \in 0 .. n - 1
      BY <1>1
    <3> HIDE DEF T
    <3>2. k \in T
      BY <2>1, <2>2, <3>1, Induction
    <3> QED BY <3>2 DEF T
  <2> HIDE DEF n
  <2> QED BY <2>3
<1>9. h[n] = iter[1 .. n]
  BY <1>1
<1> HIDE DEF h
<1> QED BY <1>2, <1>6, <1>7, <1>8, <1>9

(* Before the sort: the items are ranked by discovery, their titles are    *)
(* seen and no title comes twice.                                          *)
Distinct(s) == \A j, k \in DOMAIN s : s[j].title = s[k].title => j = k
Ranked(s) == \A k \in DOMAIN s : s[k].rank = k
Found(q) ==
    /\ q \in Queues
    /\ Distinct(q.items)
    /\ Ranked(q.items)
    /\ \A k \in DOMAIN q.items : q.items[k].title \in q.seen

LEMMA PushFinds ==
    ASSUME NEW q, Found(q), NEW t \in Titles, NEW r \in Tiers
    PROVE  Found(Push(q, t, r))
<1>1. CASE t \in q.seen
  BY <1>1 DEF Push
<1>2. CASE t \notin q.seen
  <2> DEFINE item == [title |-> t, tier |-> r, rank |-> Len(q.items) + 1]
             n == Len(q.items)
             s == Append(q.items, item)
  <2>1. q \in Queues /\ n \in Nat /\ q.items \in Seq(CrawlItems) /\ DOMAIN q.items = 1 .. n
    BY DEF Found, Queues
  <2>2. item \in CrawlItems
    BY <2>1 DEF CrawlItems, Tiers
  <2>3. Push(q, t, r) = [items |-> s, seen |-> q.seen \cup {t}]
    BY <1>2 DEF Push
  <2>4. /\ s \in Seq(CrawlItems) /\ DOMAIN s = 1 .. n + 1
        /\ s[n + 1] = item
        /\ \A k \in 1 .. n : s[k] = q.items[k]
    BY <2>1, <2>2
  <2>5. \A k \in 1 .. n : q.items[k].title # t
    BY <1>2, <2>1 DEF Found
  <2>6. item.title = t /\ item.rank = n + 1
    OBVIOUS
  <2> HIDE DEF item, s
  <2>7. \A k \in 1 .. n + 1 : k \in 1 .. n \/ k = n + 1
    BY <2>1
  <2> HIDE DEF n
  <2>8. Distinct(s)
    BY <2>1, <2>4, <2>5, <2>6, <2>7 DEF Distinct, Found
  <2>9. Ranked(s)
    BY <2>1, <2>4, <2>6, <2>7 DEF Ranked, Found
  <2>10. \A k \in DOMAIN s : s[k].title \in q.seen \cup {t}
    BY <2>1, <2>4, <2>6, <2>7 DEF Found
  <2>11. Push(q, t, r) \in Queues
    BY <2>1, PushType
  <2>12. Push(q, t, r).items = s /\ Push(q, t, r).seen = q.seen \cup {t}
    BY <2>3
  <2> QED BY <2>8, <2>9, <2>10, <2>11, <2>12 DEF Found
<1> QED BY <1>1, <1>2

LEMMA ExtendFinds ==
    ASSUME NEW q, Found(q), NEW titles \in Seq(Titles), NEW tier \in [Titles -> Tiers]
    PROVE  Found(Extend(q, titles, tier))
<1> DEFINE n == Len(titles)
<1>1. q \in Queues /\ n \in Nat /\ \A k \in 1 .. n : titles[k] \in Titles
  BY DEF Found
<1>2. PICK h \in [0 .. n -> Queues] :
         /\ h[0] = q
         /\ \A k \in 1 .. n : h[k] = Push(h[k - 1], titles[k], tier[titles[k]])
         /\ h[n] = Extend(q, titles, tier)
  BY <1>1, ExtendSteps
<1> DEFINE T == {k \in 0 .. n : Found(h[k])}
<1> HIDE DEF n
<1>3. 0 \in T
  BY <1>1, <1>2
<1>4. ASSUME NEW k \in 0 .. n - 1, k \in T PROVE k + 1 \in T
  <2>1. k + 1 \in 1 .. n /\ k + 1 \in 0 .. n /\ (k + 1) - 1 = k
    BY <1>1
  <2>2. h[k + 1] = Push(h[k], titles[k + 1], tier[titles[k + 1]])
    BY <1>2, <2>1
  <2>3. titles[k + 1] \in Titles /\ tier[titles[k + 1]] \in Tiers /\ Found(h[k])
    BY <1>1, <1>4, <2>1
  <2>4. Found(h[k + 1])
    BY <2>2, <2>3, PushFinds
  <2> QED BY <2>1, <2>4
<1>5. n \in T
  <2> HIDE DEF T
  <2> QED BY <1>1, <1>3, <1>4, Induction
<1> QED BY <1>2, <1>5

(* What a page or the harvest offers is a sequence of titles. *)
LEMMA OfferType ==
    ASSUME NEW titles \in Seq(Titles)
    PROVE  Offer(titles) \in Seq(Titles)
<1> DEFINE n == Len(titles)
           Q == Seq(Titles)
           Take(out, t) == IF Len(out) < FollowCap /\ t \in Followable
                           THEN Append(out, t) ELSE out
           Body(f, s) == IF s = {} THEN << >> ELSE Take(f[s \ {Max(s)}], titles[Max(s)])
           iter == CHOOSE f : f = [s \in SUBSET (1 .. n) |-> Body(f, s)]
<1>1. n \in Nat /\ DOMAIN titles = 1 .. n /\ \A k \in 1 .. n : titles[k] \in Titles
  OBVIOUS
<1>2. Offer(titles) = iter[1 .. n]
  BY <1>1 DEF Offer, FoldLeft, MapThenFoldSet
<1>3. \A out \in Q, t \in Titles : Take(out, t) \in Q
  OBVIOUS
<1>4. \E f \in [SUBSET (1 .. n) -> Q] : f = [s \in SUBSET (1 .. n) |-> Body(f, s)]
  <2> DEFINE F == [x \in Q \X (1 .. n) |-> Take(x[1], titles[x[2]])]
  <2>1. F \in [Q \X (1 .. n) -> Q]
    BY <1>1, <1>3
  <2>2. \A out \in Q, k \in 1 .. n : F[<<out, k>>] = Take(out, titles[k])
    OBVIOUS
  <2>3. << >> \in Q
    OBVIOUS
  <2> HIDE DEF F, n, Q, Take
  <2>4. PICK g \in [SUBSET (1 .. n) -> Q] : IsFold(g, F, << >>, n)
    BY <1>1, <2>1, <2>3, FoldExists
  <2>5. ASSUME NEW s \in SUBSET (1 .. n) PROVE g[s] = Body(g, s)
    <3>1. CASE s = {}
      BY <2>4, <3>1 DEF IsFold
    <3>2. CASE s # {}
      <4>1. Max(s) \in 1 .. n
        BY <1>1, <3>2, Maximum
      <4>2. g[s \ {Max(s)}] \in Q
        OBVIOUS
      <4>3. g[s] = F[<<g[s \ {Max(s)}], Max(s)>>]
        BY <2>4, <3>2 DEF IsFold
      <4> QED BY <2>2, <3>2, <4>1, <4>2, <4>3
    <3> QED BY <3>1, <3>2
  <2>6. g = [s \in SUBSET (1 .. n) |-> Body(g, s)]
    BY <2>5
  <2> QED BY <2>6
<1>5. iter = [s \in SUBSET (1 .. n) |-> Body(iter, s)]
  <2> HIDE DEF Body
  <2> QED BY <1>4
<1> HIDE DEF iter
<1>6. \A s \in SUBSET (1 .. n) : iter[s] = Body(iter, s)
  BY <1>5
<1> DEFINE T == {k \in 0 .. n : iter[1 .. k] \in Q}
<1> HIDE DEF n, Q, Take
<1>7. 0 \in T
  <2>1. 1 .. 0 = {} /\ 0 \in 0 .. n /\ {} \in SUBSET (1 .. n) /\ << >> \in Q
    BY <1>1 DEF Q
  <2> QED BY <1>6, <2>1
<1>8. ASSUME NEW k \in 0 .. n - 1, k \in T PROVE k + 1 \in T
  <2>1. PICK j : j = k + 1
    OBVIOUS
  <2>2. j \in Nat /\ j # 0 /\ (1 .. j) \in SUBSET (1 .. n) /\ j \in 1 .. n /\ j \in 0 .. n /\ j - 1 = k
    BY <1>1, <2>1
  <2>3. (1 .. j) # {} /\ (1 .. j) \ {j} = 1 .. (j - 1) /\ Max(1 .. j) = j
    BY <2>2, InitialPositions
  <2>4. iter[1 .. j] = Take(iter[1 .. k], titles[j])
    BY <1>6, <2>2, <2>3
  <2>5. iter[1 .. k] \in Q /\ titles[j] \in Titles
    BY <1>1, <1>8, <2>2
  <2> QED BY <1>3, <2>1, <2>2, <2>4, <2>5
<1>9. n \in T
  <2> HIDE DEF T
  <2> QED BY <1>1, <1>7, <1>8, Induction
<1> QED BY <1>2, <1>9 DEF Q

-----------------------------------------------------------------------------
(* The sort.                                                               *)

(* There is a permutation that sorts: an item goes to the place behind the *)
(* items that come before it.                                              *)
LEMMA SortExists ==
    ASSUME NEW s \in Seq(CrawlItems), Ranked(s)
    PROVE  \E p \in Bijection(DOMAIN s, DOMAIN s) : Sorts(p, s)
<1> DEFINE n == Len(s)
           B(j, k) == Before(s[j], s[k])
           Below(k) == {j \in 1 .. n : B(j, k)}
           r == [k \in 1 .. n |-> Cardinality(Below(k)) + 1]
<1>1. n \in Nat /\ DOMAIN s = 1 .. n
  OBVIOUS
<1>2. \A k \in 1 .. n : s[k].tier \in Nat /\ s[k].rank = k
  <2>1. \A k \in 1 .. n : s[k] \in CrawlItems
    OBVIOUS
  <2> QED BY <1>1, <2>1 DEF CrawlItems, Ranked, Core, High, Medium, Low
<1>3. \A j, k \in 1 .. n : j # k => B(j, k) \/ B(k, j)
  BY <1>1, <1>2 DEF Before
<1>4. \A k \in 1 .. n : ~B(k, k)
  BY <1>1, <1>2 DEF Before
<1>5. \A i, j, k \in 1 .. n : B(i, j) /\ B(j, k) => B(i, k)
  <2>1. 1 .. n \subseteq Nat
    BY <1>1
  <2> HIDE DEF n
  <2> QED BY <1>2, <2>1 DEF Before
<1>6. IsFiniteSet(1 .. n) /\ Cardinality(1 .. n) = n
  BY <1>1, FS_Interval
<1> HIDE DEF n, B
<1>7. ASSUME NEW k \in 1 .. n
      PROVE  IsFiniteSet(Below(k)) /\ Cardinality(Below(k)) \in 0 .. n - 1
  <2>1. Below(k) \in SUBSET (1 .. n) /\ k \notin Below(k)
    BY <1>4
  <2> HIDE DEF Below
  <2>2. IsFiniteSet(Below(k))
    BY <1>6, <2>1, FS_Subset
  <2>3. Cardinality(Below(k) \cup {k}) = Cardinality(Below(k)) + 1
    BY <2>1, <2>2, FS_AddElement
  <2>4. (Below(k) \cup {k}) \in SUBSET (1 .. n)
    BY <2>1
  <2>5. Cardinality(Below(k) \cup {k}) <= n
    BY <1>6, <2>4, FS_Subset
  <2>6. Cardinality(Below(k)) \in Nat
    BY <2>2, FS_CardinalityType
  <2> QED BY <1>1, <2>2, <2>3, <2>5, <2>6
<1>8. ASSUME NEW j \in 1 .. n, NEW k \in 1 .. n, B(j, k) PROVE r[j] < r[k]
  <2>1. (Below(j) \cup {j}) \in SUBSET Below(k) /\ j \notin Below(j)
    BY <1>4, <1>5, <1>8
  <2> HIDE DEF Below
  <2>2. Cardinality(Below(j) \cup {j}) = Cardinality(Below(j)) + 1
    BY <1>7, <2>1, FS_AddElement
  <2>3. Cardinality(Below(j) \cup {j}) <= Cardinality(Below(k))
    BY <1>7, <2>1, FS_Subset
  <2>4. r[j] = Cardinality(Below(j)) + 1 /\ r[k] = Cardinality(Below(k)) + 1
    OBVIOUS
  <2>5. Cardinality(Below(j)) \in Int /\ Cardinality(Below(k)) \in Int
    BY <1>1, <1>7
  <2> QED BY <2>2, <2>3, <2>4, <2>5
<1>9. r \in [1 .. n -> 1 .. n]
  <2> SUFFICES ASSUME NEW k \in 1 .. n PROVE r[k] \in 1 .. n
    OBVIOUS
  <2> HIDE DEF Below
  <2> QED BY <1>1, <1>7
<1> HIDE DEF r
<1>10. \A j, k \in 1 .. n : r[j] = r[k] => j = k
  <2> SUFFICES ASSUME NEW j \in 1 .. n, NEW k \in 1 .. n, j # k PROVE r[j] # r[k]
    OBVIOUS
  <2>1. r[j] \in Int /\ r[k] \in Int
    BY <1>1, <1>9
  <2>2. r[j] < r[k] \/ r[k] < r[j]
    BY <1>3, <1>8
  <2> QED BY <2>1, <2>2
<1>11. r \in Injection(1 .. n, 1 .. n)
  BY <1>9, <1>10 DEF Injection, IsInjective
<1>12. \A i \in 1 .. n : \E k \in 1 .. n : r[k] = i
  <2>1. r \in Surjection(1 .. n, 1 .. n)
    BY <1>6, <1>11, FS_Injection
  <2> QED BY <2>1 DEF Surjection
<1> DEFINE p == [i \in 1 .. n |-> CHOOSE k \in 1 .. n : r[k] = i]
<1>13. \A i \in 1 .. n : p[i] \in 1 .. n /\ r[p[i]] = i
  BY <1>12
<1>14. p \in [1 .. n -> 1 .. n]
  BY <1>13
<1> HIDE DEF p
<1>15. \A j, k \in 1 .. n : p[j] = p[k] => j = k
  BY <1>13
<1>16. \A k \in 1 .. n : p[r[k]] = k
  BY <1>9, <1>10, <1>13
<1>17. p \in Bijection(1 .. n, 1 .. n)
  <2>1. \A k \in 1 .. n : \E i \in 1 .. n : p[i] = k
    BY <1>9, <1>16
  <2> QED BY <1>14, <1>15, <2>1 DEF Bijection, Injection, Surjection, IsInjective
<1>18. ASSUME NEW j \in 1 .. n, NEW k \in 1 .. n, j < k PROVE B(p[j], p[k])
  <2>1. j \in Int /\ k \in Int
    BY <1>1
  <2>2. p[j] # p[k] /\ p[j] \in 1 .. n /\ p[k] \in 1 .. n
    BY <1>13, <1>15, <1>18, <2>1
  <2>3. CASE B(p[k], p[j])
    <3>1. r[p[k]] < r[p[j]]
      BY <1>8, <2>2, <2>3
    <3> QED BY <1>13, <1>18, <2>1, <3>1
  <2> QED BY <1>3, <2>2, <2>3
<1>19. Sorts(p, s)
  BY <1>1, <1>18 DEF Sorts, B
<1> QED BY <1>1, <1>17, <1>19

(* The sorted queue has the same items, each once, in order.               *)
LEMMA SortedQueue ==
    ASSUME NEW s \in Seq(CrawlItems), Ranked(s), Distinct(s)
    PROVE  /\ Sorted(s) \in Seq(CrawlItems)
           /\ Len(Sorted(s)) = Len(s)
           /\ Distinct(Sorted(s))
           /\ \A j, k \in DOMAIN s : j < k => Before(Sorted(s)[j], Sorted(s)[k])
           /\ \A k \in DOMAIN s : \E j \in DOMAIN s : Sorted(s)[k] = s[j]
<1> DEFINE n == Len(s)
           p == CHOOSE q \in Bijection(DOMAIN s, DOMAIN s) : Sorts(q, s)
           t == [k \in DOMAIN s |-> s[p[k]]]
<1>1. n \in Nat /\ DOMAIN s = 1 .. n
  OBVIOUS
<1>2. p \in Bijection(DOMAIN s, DOMAIN s) /\ Sorts(p, s)
  BY SortExists
<1>3. Sorted(s) = t
  BY DEF Sorted
<1> HIDE DEF p
<1>4. \A k \in 1 .. n : p[k] \in 1 .. n
  BY <1>1, <1>2 DEF Bijection, Injection
<1>5. \A j, k \in 1 .. n : p[j] = p[k] => j = k
  BY <1>1, <1>2 DEF Bijection, Injection, IsInjective
<1>6. \A k \in 1 .. n : s[k] \in CrawlItems
  OBVIOUS
<1>7. t \in Seq(CrawlItems) /\ Len(t) = n /\ DOMAIN t = 1 .. n
  <2>1. t \in [1 .. n -> CrawlItems]
    BY <1>1, <1>4, <1>6
  <2> HIDE DEF t
  <2> QED BY <1>1, <2>1
<1>8. \A k \in 1 .. n : t[k] = s[p[k]]
  BY <1>1
<1> HIDE DEF t
<1>9. Distinct(t)
  BY <1>1, <1>4, <1>5, <1>7, <1>8 DEF Distinct
<1>10. \A j, k \in DOMAIN s : j < k => Before(t[j], t[k])
  BY <1>1, <1>2, <1>8 DEF Sorts
<1>11. \A k \in DOMAIN s : \E j \in DOMAIN s : t[k] = s[j]
  BY <1>1, <1>4, <1>8
<1> QED BY <1>3, <1>7, <1>9, <1>10, <1>11

-----------------------------------------------------------------------------
(* The inductive invariant.  Until the sort the queue is in the order of   *)
(* discovery and nothing is popped; from the sort on it is in the order of *)
(* the tiers and does not change.                                          *)
Counted == {k \in 1 .. nextIndex : Worth(items[k].title)}

Discovering ==
    phase \in {"languages", "seeds", "sort"} =>
        nextIndex = 0 /\ followed = 0 /\ Ranked(items)

Following == phase \in {"follow", "done"} => InOrder

(* The pages that count are the ones that were popped and could be read;   *)
(* they are never more than the budget.                                    *)
Budget ==
    /\ followed <= Extra
    /\ phase # "done" => followed = Cardinality(Counted)
    /\ phase = "done" => BudgetIsSpent

CrawlInv ==
    /\ CrawlTypeOK
    /\ wikiPages <= language
    /\ Distinct(items)
    /\ Discovering
    /\ Following
    /\ Budget

LEMMA EventTiers == Tier \in [Titles -> Tiers] /\ EventTier \in [Titles -> Tiers]
BY CrawlAssumption DEF EventTier, Tiers

LEMMA ExtraType ==
    ASSUME CrawlTypeOK
    PROVE  Extra \in Nat
BY CrawlAssumption DEF CrawlTypeOK, Extra

LEMMA QueueFound ==
    ASSUME CrawlInv, phase \in {"languages", "seeds", "sort"}
    PROVE  Found(TheQueue)
BY DEF CrawlInv, CrawlTypeOK, Discovering, Found, TheQueue, Queues

(* A queue that is found is what the types ask of items and seen.          *)
LEMMA BecomesFound ==
    ASSUME NEW q, Found(q), Becomes(q)
    PROVE  /\ items' \in Seq(CrawlItems)
           /\ seen' \subseteq Titles
           /\ \A k \in 1 .. Len(items') : items'[k].title \in seen'
           /\ Distinct(items')
           /\ Ranked(items')
BY DEF Found, Queues, Becomes

LEMMA CountedType ==
    ASSUME CrawlTypeOK
    PROVE  IsFiniteSet(Counted) /\ Cardinality(Counted) \in 0 .. nextIndex
<1>1. nextIndex \in Nat /\ Counted \in SUBSET (1 .. nextIndex)
  BY DEF CrawlTypeOK, Counted
<1>2. IsFiniteSet(1 .. nextIndex) /\ Cardinality(1 .. nextIndex) = nextIndex
  BY <1>1, FS_Interval
<1>3. IsFiniteSet(Counted) /\ Cardinality(Counted) <= nextIndex
  BY <1>1, <1>2, FS_Subset
<1> QED BY <1>1, <1>3, FS_CardinalityType

LEMMA CrawlInitInv == CrawlInit => CrawlInv
<1> SUFFICES ASSUME CrawlInit PROVE CrawlInv
  OBVIOUS
<1>1. CrawlTypeOK
  BY CrawlAssumption DEF CrawlInit, CrawlTypeOK
<1>2. wikiPages <= language /\ Distinct(items) /\ Discovering /\ Following
  BY DEF CrawlInit, Distinct, Discovering, Ranked, Following
<1>3. Counted = {}
  BY DEF CrawlInit, Counted
<1>4. Budget
  BY <1>1, <1>3, ExtraType, FS_EmptySet DEF CrawlInit, Budget
<1> QED BY <1>1, <1>2, <1>4 DEF CrawlInv

(* A step that discovers.                                                  *)
LEMMA DiscoveryInv ==
    ASSUME CrawlInv,
           phase \in {"languages", "seeds"}, phase' \in {"languages", "seeds", "sort"},
           NEW q, Found(q), Becomes(q),
           language' \in 0 .. Languages, wikiPages' \in 0 .. Languages,
           wikiPages' <= language',
           events' \subseteq Titles,
           UNCHANGED <<nextIndex, followed, readable>>
    PROVE  CrawlInv'
<1>1. nextIndex = 0 /\ followed = 0
  BY DEF CrawlInv, Discovering
<1>2. CrawlTypeOK'
  BY <1>1, BecomesFound DEF CrawlInv, CrawlTypeOK
<1>3. Distinct(items)' /\ Discovering' /\ Following'
  BY <1>1, BecomesFound DEF Discovering, Following
<1>4. Counted' = {}
  BY <1>1 DEF Counted
<1>5. Extra' \in Nat
  <2>1. wikiPages' \in Nat /\ FollowCap \in Nat
    BY CrawlAssumption
  <2>2. \A w \in Nat : (IF FollowCap > w THEN FollowCap - w ELSE 0) \in Nat
    BY <2>1
  <2>3. Extra' = IF FollowCap > wikiPages' THEN FollowCap - wikiPages' ELSE 0
    BY DEF Extra
  <2> QED BY <2>1, <2>2, <2>3
<1>6. Budget'
  BY <1>1, <1>4, <1>5, FS_EmptySet DEF Budget
<1> QED BY <1>2, <1>3, <1>6 DEF CrawlInv

LEMMA SubjectPageInv ==
    ASSUME CrawlInv, NEW title \in Titles, NEW links \in LinkLists, SubjectPage(title, links)
    PROVE  CrawlInv'
<1> DEFINE q == [TheQueue EXCEPT !.seen = @ \cup {title}]
           r == ExtendLinks(q, Offer(links))
<1>1. Found(TheQueue)
  BY QueueFound DEF SubjectPage
<1>2. q.items = TheQueue.items /\ q.seen = TheQueue.seen \cup {title} /\ q \in Queues
  BY <1>1 DEF Found, TheQueue, Queues
<1>3. Found(q)
  <2> HIDE DEF q
  <2> QED BY <1>1, <1>2 DEF Found
<1>4. links \in Seq(Titles)
  BY CrawlAssumption
<1>5. Found(r)
  <2> HIDE DEF q
  <2> QED BY <1>3, <1>4, OfferType, EventTiers, ExtendFinds DEF ExtendLinks
<1>6. Becomes(r)
  BY DEF SubjectPage
<1>7. /\ language' \in 0 .. Languages /\ wikiPages' \in 0 .. Languages
      /\ wikiPages' <= language'
  BY CrawlAssumption DEF CrawlInv, CrawlTypeOK, SubjectPage
<1> HIDE DEF r
<1> QED BY <1>5, <1>6, <1>7, DiscoveryInv DEF SubjectPage, CrawlInv, CrawlTypeOK

LEMMA SubjectPageFailsInv ==
    ASSUME CrawlInv, SubjectPageFails
    PROVE  CrawlInv'
<1>1. Found(TheQueue)
  BY QueueFound DEF SubjectPageFails
<1>2. Becomes(TheQueue)
  BY DEF SubjectPageFails, Becomes, TheQueue
<1>3. /\ language' \in 0 .. Languages /\ wikiPages' \in 0 .. Languages
      /\ wikiPages' <= language'
  BY CrawlAssumption DEF CrawlInv, CrawlTypeOK, SubjectPageFails
<1> QED BY <1>1, <1>2, <1>3, DiscoveryInv DEF SubjectPageFails, CrawlInv, CrawlTypeOK

LEMMA HarvestInv ==
    ASSUME CrawlInv, NEW found \in EventLists, Harvest(found)
    PROVE  CrawlInv'
<1> DEFINE r == ExtendEvents(TheQueue, Offer(found))
<1>1. Found(TheQueue)
  BY QueueFound DEF Harvest
<1>2. Offer(found) \in Seq(Titles)
  BY CrawlAssumption, OfferType
<1>3. Found(r)
  BY <1>1, <1>2, EventTiers, ExtendFinds DEF ExtendEvents
<1>4. ToSet(Offer(found)) \subseteq Titles
  BY <1>2 DEF ToSet
<1>5. Becomes(r) /\ events' \subseteq Titles
  BY <1>4 DEF Harvest, CrawlInv, CrawlTypeOK
<1> HIDE DEF r
<1> QED BY <1>3, <1>5, DiscoveryInv DEF Harvest, CrawlInv, CrawlTypeOK

LEMMA LoadSeedsInv ==
    ASSUME CrawlInv, NEW titles \in SeedLists, LoadSeeds(titles)
    PROVE  CrawlInv'
<1> DEFINE r == ExtendLinks(TheQueue, titles)
<1>1. Found(TheQueue)
  BY QueueFound DEF LoadSeeds
<1>2. Found(r)
  BY <1>1, CrawlAssumption, EventTiers, ExtendFinds DEF ExtendLinks
<1>3. Becomes(r)
  BY DEF LoadSeeds
<1> HIDE DEF r
<1> QED BY <1>2, <1>3, DiscoveryInv DEF LoadSeeds, CrawlInv, CrawlTypeOK

LEMMA SortByPriorityInv ==
    ASSUME CrawlInv, SortByPriority
    PROVE  CrawlInv'
<1>1. nextIndex = 0 /\ followed = 0 /\ Ranked(items)
  BY DEF CrawlInv, Discovering, SortByPriority
<1>2. items \in Seq(CrawlItems) /\ Len(items) \in Nat /\ DOMAIN items = 1 .. Len(items)
  BY DEF CrawlInv, CrawlTypeOK
<1>3. items' = Sorted(items)
  <2>1. SubSeq(items, 1, 0) = << >> /\ SubSeq(items, 0 + 1, Len(items)) = items
    BY <1>2
  <2>2. Sorted(items) \in Seq(CrawlItems)
    BY <1>1, <1>2, SortedQueue DEF CrawlInv
  <2>3. << >> \o Sorted(items) = Sorted(items)
    BY <2>2
  <2> QED BY <1>1, <2>1, <2>3 DEF SortByPriority
<1>4. /\ items' \in Seq(CrawlItems)
      /\ Len(items') = Len(items)
      /\ Distinct(items')
      /\ \A j, k \in DOMAIN items : j < k => Before(items'[j], items'[k])
      /\ \A k \in DOMAIN items : \E j \in DOMAIN items : items'[k] = items[j]
  BY <1>1, <1>2, <1>3, SortedQueue DEF CrawlInv
<1>5. CrawlTypeOK'
  BY <1>1, <1>2, <1>4 DEF CrawlInv, CrawlTypeOK, SortByPriority
<1>6. Discovering'
  BY DEF Discovering, SortByPriority
<1>7. Following'
  <2>1. DOMAIN items' = 1 .. Len(items')
    BY <1>4
  <2>2. \A j, k \in 1 .. Len(items') : j < k => items'[j].title # items'[k].title
    BY <1>2, <1>4, <2>1 DEF Distinct
  <2> QED BY <1>2, <1>4, <2>2 DEF Following, InOrder
<1>8. Counted' = {}
  BY <1>1 DEF Counted, SortByPriority
<1>9. Extra' = Extra /\ Extra \in Nat
  BY ExtraType DEF CrawlInv, SortByPriority, Extra
<1>10. Budget'
  BY <1>1, <1>8, <1>9, FS_EmptySet DEF Budget, SortByPriority
<1>11. wikiPages' <= language'
  BY DEF CrawlInv, SortByPriority
<1> QED BY <1>4, <1>5, <1>6, <1>7, <1>10, <1>11 DEF CrawlInv

(* An item is popped within the budget; `more` pages are counted.          *)
LEMMA PopInv ==
    ASSUME CrawlInv, PopWithin,
           followed' = followed + IF Worth(items[nextIndex + 1].title) THEN 1 ELSE 0
    PROVE  CrawlInv'
<1> DEFINE w == Worth(items[nextIndex + 1].title)
<1>1. nextIndex \in Nat /\ followed \in Nat /\ Extra \in Nat /\ Len(items) \in Nat
  BY ExtraType DEF CrawlInv, CrawlTypeOK
<1>2. phase = "follow" /\ nextIndex' = nextIndex + 1 /\ nextIndex < Len(items) /\ followed < Extra
  BY DEF PopWithin
<1>3. Counted' = IF w THEN Counted \cup {nextIndex + 1} ELSE Counted
  <2>1. 1 .. nextIndex' = (1 .. nextIndex) \cup {nextIndex + 1}
    BY <1>1, <1>2
  <2>2. \A t : Worth(t)' <=> Worth(t)
    BY DEF Worth, Pinned, PopWithin
  <2>3. Counted' = {k \in 1 .. nextIndex' : Worth(items[k].title)}
    BY <2>2 DEF Counted, PopWithin
  <2> QED BY <2>1, <2>3 DEF Counted
<1>4. nextIndex + 1 \notin Counted /\ IsFiniteSet(Counted) /\ Cardinality(Counted) \in 0 .. nextIndex
  BY <1>1, CountedType DEF CrawlInv, Counted
<1>5. Cardinality(Counted') = Cardinality(Counted) + IF w THEN 1 ELSE 0
  <2>1. Cardinality(Counted \cup {nextIndex + 1}) = Cardinality(Counted) + 1
    BY <1>4, FS_AddElement
  <2> QED BY <1>1, <1>3, <1>4, <2>1
<1>6. followed = Cardinality(Counted)
  BY <1>2 DEF CrawlInv, Budget
<1>7. followed' = Cardinality(Counted') /\ followed' <= nextIndex' /\ followed' <= Extra /\ followed' \in Nat
  BY <1>1, <1>2, <1>4, <1>5, <1>6
<1>8. nextIndex' \in 0 .. Len(items) /\ followed' \in 0 .. Len(items)
  BY <1>1, <1>2, <1>7
<1>9. CrawlTypeOK'
  BY <1>8 DEF CrawlInv, CrawlTypeOK, PopWithin
<1>10. phase' = "follow" /\ items' = items /\ Extra' = Extra /\ wikiPages' <= language'
  BY <1>2 DEF PopWithin, Extra, CrawlInv
<1>11. Discovering' /\ Following'
  BY <1>2, <1>10 DEF Discovering, Following, InOrder, CrawlInv
<1>12. Budget'
  BY <1>7, <1>10 DEF Budget
<1> QED BY <1>9, <1>10, <1>11, <1>12 DEF CrawlInv

LEMMA FollowEndsInv ==
    ASSUME CrawlInv, FollowEnds
    PROVE  CrawlInv'
<1> DEFINE W == {k \in 1 .. Len(items) : Worth(items[k].title)}
<1>1. nextIndex \in 0 .. Len(items) /\ followed \in Nat /\ Extra \in Nat /\ Len(items) \in Nat
  BY ExtraType DEF CrawlInv, CrawlTypeOK
<1>2. phase = "follow" /\ phase' = "done"
  BY DEF FollowEnds
<1>3. followed = Cardinality(Counted) /\ followed <= Extra
  BY <1>2 DEF CrawlInv, Budget
<1>4. IsFiniteSet(W) /\ Cardinality(W) \in Nat /\ followed <= Cardinality(W)
  <2>1. IsFiniteSet(1 .. Len(items)) /\ W \in SUBSET (1 .. Len(items)) /\ Counted \in SUBSET W
    <3>1. 1 .. nextIndex \subseteq 1 .. Len(items) /\ Len(items) \in Int
      BY <1>1
    <3>2. IsFiniteSet(1 .. Len(items))
      BY <3>1, FS_Interval
    <3>3. W \in SUBSET (1 .. Len(items))
      OBVIOUS
    <3>4. Counted \in SUBSET W
      BY <3>1 DEF Counted
    <3> QED BY <3>2, <3>3, <3>4
  <2> QED BY <1>3, <2>1, FS_Subset, FS_CardinalityType
<1>5. nextIndex = Len(items) => Cardinality(W) = Cardinality(Counted)
  BY DEF Counted
<1> HIDE DEF W
<1>6. followed = IF Cardinality(W) < Extra THEN Cardinality(W) ELSE Extra
  <2>1. CASE nextIndex = Len(items)
    BY <1>1, <1>3, <1>5, <2>1
  <2>2. CASE followed >= Extra
    BY <1>1, <1>3, <1>4, <2>2
  <2> QED BY <2>1, <2>2 DEF FollowEnds
<1>7. UNCHANGED <<items, seen, followed, wikiPages, language, events, readable>> /\ Extra' = Extra
  BY DEF FollowEnds, Extra
<1>8. BudgetIsSpent'
  <2>1. \A t : Worth(t)' <=> Worth(t)
    BY <1>7 DEF Worth, Pinned
  <2>2. W' = W
    BY <1>7, <2>1 DEF W
  <2> QED BY <1>6, <1>7, <2>2 DEF BudgetIsSpent, W
<1>9. CrawlTypeOK'
  <2>1. nextIndex' \in 0 .. Len(items)
    BY <1>1 DEF FollowEnds
  <2> QED BY <1>2, <1>7, <2>1 DEF CrawlInv, CrawlTypeOK
<1>10. Discovering' /\ Following' /\ wikiPages' <= language' /\ Distinct(items)'
  BY <1>2, <1>7 DEF Discovering, Following, InOrder, CrawlInv
<1>11. Budget'
  BY <1>2, <1>3, <1>7, <1>8 DEF Budget
<1> QED BY <1>9, <1>10, <1>11 DEF CrawlInv

LEMMA CrawlStutterInv ==
    ASSUME CrawlInv, UNCHANGED crawlVars
    PROVE  CrawlInv'
<1> USE DEF crawlVars
<1>1. CrawlTypeOK' /\ wikiPages' <= language' /\ Distinct(items)' /\ Discovering' /\ Following'
  BY DEF CrawlInv, CrawlTypeOK, Discovering, Following, InOrder
<1>2. \A t : Worth(t)' <=> Worth(t)
  BY DEF Worth, Pinned
<1>3. Counted' = Counted
  BY <1>2 DEF Counted
<1>4. BudgetIsSpent' <=> BudgetIsSpent
  BY <1>2 DEF BudgetIsSpent, Extra
<1>5. Budget'
  BY <1>3, <1>4 DEF CrawlInv, Budget, Extra
<1> QED BY <1>1, <1>5 DEF CrawlInv

LEMMA CrawlNextInv == CrawlInv /\ [CrawlNext]_crawlVars => CrawlInv'
<1> SUFFICES ASSUME CrawlInv, [CrawlNext]_crawlVars PROVE CrawlInv'
  OBVIOUS
<1>1. CASE \E title \in Titles, links \in LinkLists : SubjectPage(title, links)
  BY <1>1, SubjectPageInv
<1>2. CASE SubjectPageFails
  BY <1>2, SubjectPageFailsInv
<1>3. CASE \E found \in EventLists : Harvest(found)
  BY <1>3, HarvestInv
<1>4. CASE \E titles \in SeedLists : LoadSeeds(titles)
  BY <1>4, LoadSeedsInv
<1>5. CASE SortByPriority
  BY <1>5, SortByPriorityInv
<1>6. followed \in Nat
  BY DEF CrawlInv, CrawlTypeOK
<1>7. CASE FollowPage
  <2>1. PopWithin /\ followed' = followed + IF Worth(items[nextIndex + 1].title) THEN 1 ELSE 0
    BY <1>6, <1>7 DEF FollowPage
  <2> QED BY <2>1, PopInv
<1>8. CASE SkipPage
  <2>1. PopWithin /\ followed' = followed + IF Worth(items[nextIndex + 1].title) THEN 1 ELSE 0
    BY <1>6, <1>8 DEF SkipPage
  <2> QED BY <2>1, PopInv
<1>9. CASE FollowEnds
  BY <1>9, FollowEndsInv
<1>10. CASE UNCHANGED crawlVars
  BY <1>10, CrawlStutterInv
<1> QED BY <1>1, <1>2, <1>3, <1>4, <1>5, <1>7, <1>8, <1>9, <1>10 DEF CrawlNext

(* Everything CrawlInv says holds in every state.                          *)
THEOREM CrawlInvariant == CrawlSpec => []CrawlInv
BY CrawlInitInv, CrawlNextInv, PTL DEF CrawlSpec

(* The queue, its index and the counters of the follow loop stay within    *)
(* their types.                                                            *)
THEOREM CrawlTypes == CrawlSpec => []CrawlTypeOK
<1>1. CrawlInv => CrawlTypeOK
  BY DEF CrawlInv
<1> QED BY <1>1, CrawlInvariant, PTL

(* Whatever the languages, the harvest and the seeds put into the queue,   *)
(* and whichever pages cannot be read, the follow loop takes the titles in *)
(* the order of the tiers, none twice, and stops only when the budget is   *)
(* spent or the queue is empty.                                            *)
THEOREM FollowingTheBest == CrawlSpec => []FollowsTheBest
<1>1. CrawlInv => FollowsTheBest
  BY DEF CrawlInv, Following, Budget, FollowsTheBest
<1> QED BY <1>1, CrawlInvariant, PTL

=============================================================================
