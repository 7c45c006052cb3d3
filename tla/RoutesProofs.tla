------------------------------ MODULE RoutesProofs ------------------------------
(***************************************************************************)
(* Theorems about the route table, for every set of documents and requests *)
(* that the assumptions of Routes describe, and however hosts and methods  *)
(* are spelled.  A request never finds two rules that are equally          *)
(* specific, so that it finds the same rule in whichever order a document  *)
(* lists its rules; of two rules of which one matches only requests that   *)
(* the other matches too it does not find the other; what it finds has a   *)
(* word for each parameter; and no document is refused for a request that  *)
(* no two of its rules match.                                              *)
(***************************************************************************)
EXTENDS Routes, FiniteSetTheorems, WellFoundedInduction, TLAPS

-----------------------------------------------------------------------------
(* Rules.                                                                  *)

\* A rule has so many segments of a kind.
LEMMA CountIsNat ==
  ASSUME NEW segments \in Seq(Segment), NEW kind
  PROVE  Count(segments, kind) \in Nat
<1>1. /\ Len(segments) \in Nat
      /\ DOMAIN segments = 1..Len(segments)
  OBVIOUS
<1>2. IsFiniteSet(1..Len(segments))
  BY <1>1, FS_Interval
<1>3. IsFiniteSet({i \in DOMAIN segments : segments[i] \in kind})
  BY <1>1, <1>2, FS_Subset
<1> QED
  BY <1>3, FS_CardinalityType DEF Count

\* A rule that can be read has a score.
LEMMA ScoreIsInt ==
  ASSUME NEW rule, WellFormed(rule)
  PROVE  Score(rule) \in Int /\ Compiled(rule).score = Score(rule)
<1>1. /\ Count(Body(rule.path), Literals) \in Nat
      /\ Count(Body(rule.path), Params) \in Nat
  BY CountIsNat DEF WellFormed
<1> QED
  BY <1>1 DEF Score, Compiled

\* Two rules that match one request overlap, in the sense of checkAmbiguity:
\* where overlaps says no, no request is matched twice.
LEMMA MatchedTwice ==
  ASSUME NEW a, NEW b, NEW r, WellFormed(a), WellFormed(b),
         Matches(a, r), Matches(b, r)
  PROVE  Overlaps(Compiled(a), Compiled(b))
<1> DEFINE s == Body(a.path)
           t == Body(b.path)
           parts == SplitPath(r.path)
<1>1. /\ s \in Seq(Segment) /\ Len(s) \in Nat /\ DOMAIN s = 1..Len(s)
      /\ t \in Seq(Segment) /\ Len(t) \in Nat /\ DOMAIN t = 1..Len(t)
  BY DEF WellFormed
<1>2. /\ Compiled(a).segments = s /\ Compiled(a).wildcard = Wildcard(a.path)
      /\ Compiled(b).segments = t /\ Compiled(b).wildcard = Wildcard(b.path)
  BY DEF Compiled
<1>3. /\ ScopesOverlap(Compiled(a).hosts, Compiled(b).hosts)
      /\ ScopesOverlap(Compiled(a).methods, Compiled(b).methods)
  BY DEF Matches, InScope, ScopesOverlap
<1>4. Fits(Compiled(a), parts) /\ Fits(Compiled(b), parts)
  BY DEF Matches
<1>5. Len(s) # Len(t) => Compiled(a).wildcard \/ Compiled(b).wildcard
  BY <1>2, <1>4 DEF Fits
<1>6. \A i \in DOMAIN s \cap DOMAIN t :
        s[i] \in Params \/ t[i] \in Params \/ s[i] = t[i]
  BY <1>2, <1>4 DEF Fits
<1> HIDE DEF s, t
<1> QED
  BY <1>2, <1>3, <1>5, <1>6 DEF Overlaps

\* A table that compiles has no two rules of one score for one request.
LEMMA ToldApartByScore ==
  ASSUME NEW doc, Compiles(doc), NEW r,
         NEW i \in Matching(doc, r), NEW j \in Matching(doc, r), i # j
  PROVE  Score(doc[i]) # Score(doc[j])
<1>1. /\ i \in DOMAIN doc /\ WellFormed(doc[i]) /\ Matches(doc[i], r)
      /\ j \in DOMAIN doc /\ WellFormed(doc[j]) /\ Matches(doc[j], r)
  BY DEF Matching, Compiles
<1>2. Overlaps(Compiled(doc[i]), Compiled(doc[j]))
  BY <1>1, MatchedTwice
<1>3. Compiled(doc[i]).score # Compiled(doc[j]).score
  BY <1>1, <1>2 DEF Compiles, Ambiguous
<1> QED
  BY <1>1, <1>3, ScoreIsInt

-----------------------------------------------------------------------------
(* The rule that decides.                                                  *)

\* A set of naturals has a least member.
LEMMA LeastMember ==
  ASSUME NEW S \in SUBSET Nat, S # {}
  PROVE  \E n \in S : \A m \in S : n <= m
<1>1. \E n \in S : \A m \in S : <<m, n>> \notin OpToRel(<, Nat)
  BY WFMin, NatLessThanWellFounded, Zenon
<1>2. PICK n \in S : \A m \in S : <<m, n>> \notin OpToRel(<, Nat)
  BY <1>1
<1>3. ASSUME NEW m \in S PROVE n <= m
  <2>1. ~(m < n)
    BY <1>2 DEF OpToRel
  <2>2. m \in Nat /\ n \in Nat
    OBVIOUS
  <2> QED
    BY <2>1, <2>2
<1> QED
  BY <1>3

\* i is among the rules of set, and none of them comes before it.
Foremost(doc, set, i) ==
  i \in set /\ \A j \in set : Precedes(doc, i, j)

\* Among some rules of a document one comes first: otherwise take the shortest
\* beginning of the document in which none of them does.
LEMMA OneIsForemost ==
  ASSUME NEW doc, NEW n \in Nat, DOMAIN doc = 1..n,
         \A i \in DOMAIN doc : WellFormed(doc[i]),
         NEW set \in SUBSET DOMAIN doc, set # {}
  PROVE  \E i \in set : Foremost(doc, set, i)
<1> DEFINE Upto(k) == set \cap 1..k
           Failing == {k \in 0..n : /\ Upto(k) # {}
                                    /\ \A i \in Upto(k) : ~Foremost(doc, Upto(k), i)}
<1>1. ASSUME NEW i \in DOMAIN doc, NEW j \in DOMAIN doc
      PROVE  /\ Score(doc[i]) \in Int /\ Score(doc[j]) \in Int
             /\ Precedes(doc, i, j) <=>
                  \/ Score(doc[i]) > Score(doc[j])
                  \/ Score(doc[i]) = Score(doc[j]) /\ i <= j
  BY ScoreIsInt DEF Precedes
<1>2. Failing = {}
  <2> SUFFICES ASSUME Failing # {} PROVE FALSE
    OBVIOUS
  <2>1. PICK k \in Failing : \A m \in Failing : k <= m
    <3>1. Failing \in SUBSET Nat
      OBVIOUS
    <3> HIDE DEF Failing
    <3> QED
      BY <3>1, LeastMember
  <2>2. /\ k \in 0..n /\ Upto(k) # {}
        /\ \A i \in Upto(k) : ~Foremost(doc, Upto(k), i)
    OBVIOUS
  <2>3. k # 0 /\ k \in 1..n /\ k - 1 \in 0..n /\ k - 1 \notin Failing
    <3>1. k # 0
      <4>1. 1..0 = {}
        OBVIOUS
      <4> QED
        BY <2>2, <4>1
    <3>2. k \in 1..n /\ k - 1 \in 0..n /\ ~(k <= k - 1)
      BY <2>2, <3>1
    <3> HIDE DEF Failing
    <3> QED
      BY <2>1, <3>1, <3>2
  <2>4. Upto(k) \subseteq Upto(k-1) \cup {k}
    BY <2>3
  <2>5. CASE Upto(k-1) = {}
    <3>1. Upto(k) = {k}
      BY <2>2, <2>4, <2>5
    <3>2. Precedes(doc, k, k)
      BY <1>1, <2>3
    <3> QED
      BY <2>2, <3>1, <3>2 DEF Foremost
  <2>6. CASE Upto(k-1) # {}
    <3>1. PICK i \in Upto(k-1) : Foremost(doc, Upto(k-1), i)
      BY <2>3, <2>6
    <3>2. i \in Upto(k) /\ i \in DOMAIN doc /\ i \in 1..(k-1)
      BY <2>3
    <3>3. CASE Upto(k) = Upto(k-1)
      BY <2>2, <3>1, <3>3
    <3>4. CASE k \in Upto(k)
      <4>1. k \in DOMAIN doc
        BY <2>3
      <4>2. CASE Precedes(doc, i, k)
        <5>1. Foremost(doc, Upto(k), i)
          BY <2>4, <3>1, <3>2, <4>2 DEF Foremost
        <5> QED
          BY <2>2, <3>2, <5>1
      <4>3. CASE ~Precedes(doc, i, k)
        <5>1. ASSUME NEW j \in Upto(k) PROVE Precedes(doc, k, j)
          <6>1. CASE j = k
            BY <1>1, <4>1, <6>1
          <6>2. CASE j \in Upto(k-1)
            <7>1. Precedes(doc, i, j) /\ j \in DOMAIN doc
              BY <3>1, <6>2 DEF Foremost
            <7>2. i <= k
              BY <2>3, <3>2
            <7>3. Score(doc[k]) > Score(doc[i])
              BY <1>1, <3>2, <4>1, <4>3, <7>2
            <7>4. Score(doc[i]) >= Score(doc[j])
              BY <1>1, <3>2, <7>1
            <7> QED
              BY <1>1, <3>2, <4>1, <7>1, <7>3, <7>4
          <6> QED
            BY <2>4, <6>1, <6>2
        <5> QED
          BY <2>2, <3>4, <5>1 DEF Foremost
      <4> QED
        BY <4>2, <4>3
    <3> QED
      BY <2>4, <3>3, <3>4
  <2> QED
    BY <2>5, <2>6
<1>3. Upto(n) = set
  OBVIOUS
<1>4. n \in 0..n
  OBVIOUS
<1> QED
  BY <1>2, <1>3, <1>4

\* What Match finds is a rule that matches, and the first of them in the table.
LEMMA MatchIsForemost ==
  ASSUME NEW doc, NEW n \in Nat, DOMAIN doc = 1..n,
         \A i \in DOMAIN doc : WellFormed(doc[i]), NEW r
  PROVE  IF Matching(doc, r) = {} THEN Match(doc, r) = None
         ELSE Foremost(doc, Matching(doc, r), Match(doc, r))
<1>1. CASE Matching(doc, r) = {}
  BY <1>1 DEF Match
<1>2. CASE Matching(doc, r) # {}
  <2>1. Matching(doc, r) \in SUBSET DOMAIN doc
    BY DEF Matching
  <2>2. \E i \in Matching(doc, r) : Foremost(doc, Matching(doc, r), i)
    BY <1>2, <2>1, OneIsForemost
  <2> QED
    BY <1>2, <2>2 DEF Match, Foremost
<1> QED
  BY <1>1, <1>2

\* Of all the rules that match, the one that decides has the highest score.
LEMMA MatchHasHighestScore ==
  ASSUME NEW doc, NEW n \in Nat, DOMAIN doc = 1..n, Compiles(doc), NEW r,
         NEW i \in Matching(doc, r),
         \A j \in Matching(doc, r) : Score(doc[j]) <= Score(doc[i])
  PROVE  Match(doc, r) = i
<1>1. \A j \in DOMAIN doc : WellFormed(doc[j])
  BY DEF Compiles
<1>2. PICK m : m = Match(doc, r)
  OBVIOUS
<1>3. m \in Matching(doc, r) /\ Precedes(doc, m, i)
  BY <1>1, <1>2, MatchIsForemost DEF Foremost
<1>4. /\ Score(doc[m]) \in Int /\ Compiled(doc[m]).score = Score(doc[m])
      /\ Score(doc[i]) \in Int /\ Compiled(doc[i]).score = Score(doc[i])
  BY <1>1, <1>3, ScoreIsInt DEF Matching
<1>5. Score(doc[m]) = Score(doc[i])
  BY <1>3, <1>4 DEF Precedes
<1> QED
  BY <1>2, <1>3, <1>5, ToldApartByScore

-----------------------------------------------------------------------------
(* Paths.                                                                  *)

\* What is left of a path is what stands in it and is no blank: the k-th of
\* the rest stands where k of it have been counted for the first time.
LEMMA NonBlanksAre ==
  ASSUME NEW T, NEW path \in Seq(T)
  PROVE  NonBlanks(path) \in Seq(T \ {Blank})
<1>1. PICK n \in Nat : n = Len(path) /\ DOMAIN path = 1..n
  OBVIOUS
<1>2. PICK at : /\ at = {i \in DOMAIN path : path[i] # Blank}
                /\ \A i \in at : i \in 1..n
  BY <1>1
<1> DEFINE Upto(m) == {j \in at : j <= m}
           Rank(m) == Cardinality(Upto(m))
<1>3. ASSUME NEW m \in 0..n
      PROVE  IsFiniteSet(Upto(m)) /\ Rank(m) \in Nat
  <2>1. IsFiniteSet(1..n) /\ Upto(m) \in SUBSET (1..n)
    BY <1>2, FS_Interval
  <2>2. IsFiniteSet(Upto(m))
    BY <2>1, FS_Subset
  <2> QED
    BY <2>2, FS_CardinalityType
<1>4. Upto(n) = at
  BY <1>2
<1>5. PICK size \in Nat : size = Cardinality(at)
  BY <1>3, <1>4
<1>6. ASSUME NEW k \in 1..size
      PROVE  \E i \in at : Rank(i) = k
  <2> DEFINE Reached == {m \in 0..n : Rank(m) >= k}
  <2>1. n \in Reached
    <3>1. Rank(n) = size
      BY <1>4, <1>5
    <3>2. Rank(n) >= k /\ n \in 0..n
      BY <3>1
    <3> QED
      BY <3>2
  <2>2. PICK m \in Reached : \A l \in Reached : m <= l
    <3>1. Reached \in SUBSET Nat
      OBVIOUS
    <3>2. Reached # {}
      BY <2>1
    <3> HIDE DEF Reached
    <3> QED
      BY <3>1, <3>2, LeastMember
  <2>3. m \in 0..n /\ Rank(m) >= k
    OBVIOUS
  <2>4. m # 0
    <3>1. Upto(0) = {}
      BY <1>2
    <3>2. Rank(0) = 0
      BY <3>1, FS_EmptySet
    <3> HIDE DEF Upto
    <3> QED
      BY <2>3, <3>2
  <2>5. m - 1 \in 0..n /\ ~(Rank(m - 1) >= k)
    <3>1. m - 1 \in 0..n /\ ~(m <= m - 1)
      BY <2>3, <2>4
    <3>2. m - 1 \notin Reached
      BY <2>2, <3>1
    <3> QED
      BY <3>1, <3>2
  <2>6. m \in at
    <3> SUFFICES ASSUME m \notin at PROVE FALSE
      OBVIOUS
    <3>1. Upto(m) = Upto(m - 1)
      BY <1>2, <2>3, <2>4
    <3> QED
      BY <2>3, <2>5, <3>1
  <2>7. Rank(m) = Rank(m - 1) + 1
    <3>1. Upto(m) = Upto(m - 1) \cup {m} /\ m \notin Upto(m - 1)
      BY <1>2, <2>3, <2>4, <2>6
    <3>2. IsFiniteSet(Upto(m - 1))
      BY <1>3, <2>5
    <3> HIDE DEF Upto
    <3> QED
      BY <3>1, <3>2, FS_AddElement
  <2>8. Rank(m) \in Nat /\ Rank(m - 1) \in Nat
    BY <1>3, <2>3, <2>5
  <2> HIDE DEF Rank
  <2> QED
    BY <2>3, <2>5, <2>6, <2>7, <2>8
<1>7. NonBlanks(path) =
        [k \in 1..size |-> path[CHOOSE i \in at : Rank(i) = k]]
  BY <1>2, <1>5 DEF NonBlanks
<1>8. ASSUME NEW k \in 1..size
      PROVE  path[CHOOSE i \in at : Rank(i) = k] \in T \ {Blank}
  <2>1. (CHOOSE i \in at : Rank(i) = k) \in at
    BY <1>6
  <2> QED
    BY <1>1, <1>2, <2>1
<1> DEFINE place(k) == CHOOSE i \in at : Rank(i) = k
<1>9. NonBlanks(path) \in [1..size -> T \ {Blank}]
  <2>1. \A k \in 1..size : path[place(k)] \in T \ {Blank}
    BY <1>8
  <2>2. NonBlanks(path) = [k \in 1..size |-> path[place(k)]]
    BY <1>7
  <2> HIDE DEF place
  <2> QED
    BY <2>1, <2>2
<1> QED
  BY <1>5, <1>9

\* What is left of a path before its query has none.
LEMMA CutIs ==
  ASSUME NEW T, NEW path \in Seq(T)
  PROVE  Cut(path) \in Seq(T \ {Query})
<1>1. PICK marks : marks = {i \in DOMAIN path : path[i] = Query}
  OBVIOUS
<1>2. CASE marks = {}
  <2>1. Cut(path) = path /\ \A i \in 1..Len(path) : path[i] \in T \ {Query}
    BY <1>1, <1>2 DEF Cut
  <2> QED
    BY <2>1
<1>3. CASE marks # {}
  <2>1. marks \in SUBSET Nat
    BY <1>1
  <2>2. \E i \in marks : \A j \in marks : i <= j
    BY <1>3, <2>1, LeastMember
  <2>3. PICK i : i = CHOOSE k \in marks : \A j \in marks : k <= j
    OBVIOUS
  <2>4. i \in marks /\ \A j \in marks : i <= j
    BY <2>2, <2>3
  <2>5. i \in 1..Len(path) /\ Cut(path) = SubSeq(path, 1, i - 1)
    BY <1>1, <1>3, <2>3, <2>4 DEF Cut
  <2>6. ASSUME NEW j \in 1..(i - 1)
        PROVE  path[j] \in T \ {Query}
    BY <1>1, <2>4, <2>5
  <2>7. /\ SubSeq(path, 1, i - 1) \in Seq(T)
        /\ Len(SubSeq(path, 1, i - 1)) = i - 1
        /\ \A j \in 1..(i - 1) : SubSeq(path, 1, i - 1)[j] = path[j]
    BY <2>5
  <2>8. PICK front \in Seq(T) : front = SubSeq(path, 1, i - 1)
    BY <2>7
  <2>9. Len(front) = i - 1 /\ \A j \in 1..(i - 1) : front[j] \in T \ {Query}
    BY <2>6, <2>7, <2>8
  <2>10. front \in Seq(T \ {Query})
    BY <2>9
  <2> QED
    BY <2>5, <2>8, <2>10
<1> QED
  BY <1>2, <1>3

\* The parts of a request's path are words: neither a blank nor a query is
\* ever held against a rule.
LEMMA PartsAreLiterals ==
  ASSUME NEW r \in Requests
  PROVE  SplitPath(r.path) \in Seq(Literals)
<1>1. PICK T : T = Literals \cup {Blank, Query}
  OBVIOUS
<1>2. PICK path \in Seq(T) : path = r.path
  BY <1>1, DocumentsAssumption DEF Request
<1>3. PICK rest \in Seq(T \ {Query}) : rest = Cut(path)
  BY CutIs
<1>4. NonBlanks(rest) \in Seq((T \ {Query}) \ {Blank})
  BY NonBlanksAre
<1>5. (T \ {Query}) \ {Blank} \subseteq Literals
  BY <1>1
<1>6. NonBlanks(rest) \in Seq(Literals)
  BY <1>4, <1>5
<1> QED
  BY <1>2, <1>3, <1>6 DEF SplitPath

-----------------------------------------------------------------------------
(* Another order.                                                          *)

\* An injection of a document's places into themselves reaches all of them.
LEMMA ReorderingIsOnto ==
  ASSUME NEW n \in Nat, NEW p \in [1..n -> 1..n], IsInjective(p),
         NEW i \in 1..n
  PROVE  \E j \in 1..n : p[j] = i
<1>1. IsFiniteSet(1..n)
  BY FS_Interval
<1>2. p \in Injection(1..n, 1..n)
  BY DEF Injection
<1>3. p \in Surjection(1..n, 1..n)
  BY <1>1, <1>2, FS_Injection
<1> QED
  BY <1>3 DEF Surjection

\* A request finds the same rule in both documents, or in neither.
FindsTheSame(doc, other, r) ==
  IF Match(doc, r) = None THEN Match(other, r) = None
  ELSE other[Match(other, r)] = doc[Match(doc, r)]

\* A document that is served in one order is served in any, and finds
\* the same rule.
LEMMA ReorderedIsServed ==
  ASSUME NEW doc, NEW n \in Nat, DOMAIN doc = 1..n, Compiles(doc),
         NEW p \in [1..n -> 1..n], IsInjective(p), NEW other,
         DOMAIN other = 1..n, \A i \in 1..n : other[i] = doc[p[i]]
  PROVE  Compiles(other) /\ \A r : FindsTheSame(doc, other, r)
<1>1. /\ DOMAIN other = 1..n
      /\ \A i \in 1..n : p[i] \in 1..n /\ other[i] = doc[p[i]]
  OBVIOUS
<1>2. Compiles(other)
  <2>1. \A i \in 1..n : WellFormed(other[i])
    BY <1>1 DEF Compiles
  <2>2. ASSUME NEW i \in 1..n, NEW j \in 1..n, i # j,
               Compiled(other[i]).score = Compiled(other[j]).score,
               Overlaps(Compiled(other[i]), Compiled(other[j]))
        PROVE  FALSE
    <3>1. p[i] \in DOMAIN doc /\ p[j] \in DOMAIN doc /\ p[i] # p[j]
      BY <2>2 DEF IsInjective
    <3>2. other[i] = doc[p[i]] /\ other[j] = doc[p[j]]
      BY <1>1
    <3> QED
      BY <2>2, <3>1, <3>2 DEF Compiles, Ambiguous
  <2> QED
    BY <1>1, <2>1, <2>2 DEF Compiles, Ambiguous
<1>3. ASSUME NEW r
      PROVE  FindsTheSame(doc, other, r)
  <2>1. \A i \in 1..n : i \in Matching(other, r) <=> p[i] \in Matching(doc, r)
    BY <1>1 DEF Matching
  <2>2. CASE Matching(doc, r) = {}
    <3>1. Matching(other, r) = {}
      BY <1>1, <2>1, <2>2 DEF Matching
    <3> QED
      BY <2>2, <3>1 DEF Match, FindsTheSame
  <2>3. CASE Matching(doc, r) # {}
    <3>1. PICK i : i = Match(doc, r)
      OBVIOUS
    <3>2. \A k \in DOMAIN doc : WellFormed(doc[k])
      BY DEF Compiles
    <3>3. Foremost(doc, Matching(doc, r), i) /\ i \in 1..n
      BY <2>3, <3>1, <3>2, MatchIsForemost DEF Foremost, Matching
    <3>4. PICK j \in 1..n : p[j] = i
      BY <3>3, ReorderingIsOnto
    <3>5. j \in Matching(other, r) /\ other[j] = doc[i]
      BY <1>1, <2>1, <3>3, <3>4 DEF Foremost
    <3>6. ASSUME NEW k \in Matching(other, r)
          PROVE  Score(other[k]) <= Score(other[j])
      <4>1. k \in 1..n /\ p[k] \in Matching(doc, r) /\ other[k] = doc[p[k]]
        BY <1>1, <2>1 DEF Matching
      <4>2. Precedes(doc, i, p[k]) /\ p[k] \in 1..n
        BY <3>3, <4>1 DEF Foremost
      <4>3. /\ Score(doc[i]) \in Int /\ Score(doc[p[k]]) \in Int
            /\ Compiled(doc[i]).score = Score(doc[i])
            /\ Compiled(doc[p[k]]).score = Score(doc[p[k]])
        BY <3>2, <3>3, <4>2, ScoreIsInt
      <4> QED
        BY <3>5, <4>1, <4>2, <4>3 DEF Precedes
    <3>7. Match(other, r) = j
      <4>1. DOMAIN other = 1..n /\ j \in Matching(other, r)
        BY <1>1, <3>5
      <4>2. \A k \in Matching(other, r) : Score(other[k]) <= Score(other[j])
        BY <3>6
      <4> QED
        BY <1>2, <4>1, <4>2, MatchHasHighestScore, Zenon
    <3>8. i # None
      BY <3>3, DocumentsAssumption
    <3> QED
      BY <3>1, <3>5, <3>7, <3>8 DEF FindsTheSame
  <2> QED
    BY <2>2, <2>3
<1> QED
  BY <1>2, <1>3

-----------------------------------------------------------------------------
(* The theorem.                                                            *)

\* What is served has compiled, what is refused has not.
RoutesInv ==
  /\ document \in Documents
  /\ status \in {"loading", "serving", "refused"}
  /\ status = "serving" => Compiles(document)
  /\ status = "refused" => ~Compiles(document)

\* Whatever is loaded after whatever.
LEMMA RoutesInvariant == Spec => []RoutesInv
<1>1. Init => RoutesInv
  BY DEF Init, RoutesInv
<1>2. RoutesInv /\ [Next]_vars => RoutesInv'
  <2> SUFFICES ASSUME RoutesInv, [Next]_vars PROVE RoutesInv'
    OBVIOUS
  <2>1. CASE Compile
    <3>1. document' = document
      BY <2>1 DEF Compile
    <3>2. \/ status' = "serving" /\ Compiles(document)
          \/ status' = "refused" /\ ~Compiles(document)
      BY <2>1 DEF Compile
    <3> QED
      BY <3>1, <3>2 DEF RoutesInv
  <2>2. ASSUME NEW doc \in Documents, Load(doc) PROVE RoutesInv'
    BY <2>2 DEF Load, RoutesInv
  <2>3. CASE UNCHANGED vars
    BY <2>3 DEF vars, RoutesInv
  <2> QED
    BY <2>1, <2>2, <2>3 DEF Next
<1> QED
  BY <1>1, <1>2, PTL DEF Spec

\* However a served document's rules are listed, it is served, and every
\* request finds the same rule: "by explicit specificity rather than file
\* order" (Compile, checkAmbiguity, Match).
THEOREM OrderIsIrrelevant == Spec => []FileOrderIsIrrelevant
<1>1. RoutesInv => FileOrderIsIrrelevant
  <2> SUFFICES ASSUME RoutesInv, Serving, NEW p \in Reorderings
               PROVE  LET other == [i \in DOMAIN document |-> document[p[i]]] IN
                      /\ Compiles(other)
                      /\ \A r \in Requests :
                           LET i == Match(document, r)
                               j == Match(other, r)
                           IN IF i = None THEN j = None
                              ELSE other[j] = document[i]
    BY DEF FileOrderIsIrrelevant
  <2>1. PICK n \in Nat : DOMAIN document = 1..n
    <3>1. document \in Seq(Rule)
      BY DocumentsAssumption DEF RoutesInv
    <3> QED
      BY <3>1
  <2>2. p \in [1..n -> 1..n] /\ IsInjective(p)
    BY <2>1 DEF Reorderings
  <2>3. Compiles(document)
    BY DEF RoutesInv, Serving
  <2>4. PICK other : other = [i \in DOMAIN document |-> document[p[i]]]
    OBVIOUS
  <2>5. DOMAIN other = 1..n /\ \A i \in 1..n : other[i] = document[p[i]]
    BY <2>1, <2>4
  <2>6. PICK doc : doc = document
    OBVIOUS
  <2>7. Compiles(other) /\ \A r : FindsTheSame(doc, other, r)
    BY <2>1, <2>2, <2>3, <2>5, <2>6, ReorderedIsServed
  <2> QED
    BY <2>4, <2>6, <2>7 DEF FindsTheSame
<1> QED
  BY <1>1, RoutesInvariant, PTL

-----------------------------------------------------------------------------
(* What a rule finds.                                                      *)

\* A parameter that a rule has stands somewhere last.
LEMMA LastMember ==
  ASSUME NEW n \in Nat, NEW S \in SUBSET (1..n), S # {}
  PROVE  \E i \in S : \A j \in S : i >= j
<1>1. PICK back : back = {n - i : i \in S}
  OBVIOUS
<1>2. back \in SUBSET Nat /\ back # {}
  <2>1. \A i \in S : n - i \in Nat
    OBVIOUS
  <2>2. back # {}
    BY <1>1
  <2> QED
    BY <1>1, <2>1, <2>2
<1>3. PICK b \in back : \A c \in back : b <= c
  BY <1>2, LeastMember
<1>4. PICK i \in S : b = n - i
  BY <1>1
<1>5. ASSUME NEW j \in S PROVE i >= j
  <2>1. n - i <= n - j
    BY <1>1, <1>3, <1>4
  <2>2. i \in 1..n /\ j \in 1..n
    OBVIOUS
  <2> QED
    BY <2>1, <2>2
<1> QED
  BY <1>5

\* What a request finds in a served document is a rule of that document, which
\* finds in the request a word for each of its parameters: no resource is ever
\* asked about whose id is the empty string (matchSegments, splitPath).
THEOREM RoutesTypeCorrect == Spec => []RoutesTypeOK
<1>1. RoutesInv => RoutesTypeOK
  <2> SUFFICES ASSUME RoutesInv, Serving, NEW r \in Requests,
                      NEW i, i = Match(document, r), i # None
               PROVE  /\ i \in DOMAIN document
                      /\ \A p \in DOMAIN Bindings(document[i], r) :
                           Bindings(document[i], r)[p] \in Literals
    BY DEF RoutesInv, RoutesTypeOK
  <2>1. /\ \A k \in DOMAIN document : WellFormed(document[k])
        /\ \E n \in Nat : DOMAIN document = 1..n
    <3>1. document \in Seq(Rule)
      BY DocumentsAssumption DEF RoutesInv
    <3> QED
      BY <3>1 DEF RoutesInv, Serving, Compiles
  <2>2. i \in Matching(document, r)
    BY <2>1, MatchIsForemost DEF Foremost
  <2>3. PICK rule : rule = document[i]
    OBVIOUS
  <2>4. i \in DOMAIN document /\ WellFormed(rule) /\ Matches(rule, r)
    BY <2>1, <2>2, <2>3 DEF Matching
  <2>5. PICK segments \in Seq(Segment), parts \in Seq(Literals) :
          segments = Body(rule.path) /\ parts = SplitPath(r.path)
    BY <2>4, PartsAreLiterals DEF WellFormed
  <2>6. PICK n \in Nat : n = Len(segments) /\ DOMAIN segments = 1..n
    OBVIOUS
  <2>7. Len(parts) \in Nat /\ Len(parts) >= n
    <3>1. Fits(Compiled(rule), parts) /\ Compiled(rule).segments = segments
      BY <2>4, <2>5 DEF Matches, Compiled
    <3> QED
      BY <2>6, <3>1 DEF Fits
  <2>8. ASSUME NEW p \in DOMAIN Bindings(rule, r)
        PROVE  Bindings(rule, r)[p] \in Literals
    <3>1. PICK at \in SUBSET (1..n) :
            at = {k \in DOMAIN segments : segments[k] = p}
      BY <2>6
    <3>2. /\ at # {}
          /\ Bindings(rule, r)[p] =
               parts[CHOOSE k \in at : \A j \in at : k >= j]
      BY <2>5, <2>8, <3>1 DEF Bindings
    <3>3. PICK last : last = CHOOSE k \in at : \A j \in at : k >= j
      OBVIOUS
    <3>4. last \in at
      <4>1. \E k \in at : \A j \in at : k >= j
        BY <3>2, LastMember
      <4> QED
        BY <3>3, <4>1
    <3>5. last \in 1..Len(parts)
      BY <2>7, <3>4
    <3>6. Bindings(rule, r)[p] = parts[last]
      BY <3>2, <3>3
    <3> QED
      BY <3>5, <3>6
  <2> QED
    BY <2>3, <2>4, <2>8
<1> QED
  BY <1>1, RoutesInvariant, PTL

-----------------------------------------------------------------------------
(* Narrower rules.                                                         *)

\* No scope is every scope.
ScopeWithin(s, t) == t = {} \/ (s # {} /\ s \subseteq t)

\* Compiled rule `a` is made for some of the requests that `b` is made for:
\* each way in which `b` is narrow, `a` is too.
Narrower(a, b) ==
  /\ ScopeWithin(a.hosts, b.hosts)
  /\ ScopeWithin(a.methods, b.methods)
  /\ Len(b.segments) <= Len(a.segments)
  /\ b.wildcard \/ (~a.wildcard /\ Len(b.segments) = Len(a.segments))
  /\ \A i \in DOMAIN b.segments :
       b.segments[i] \in Params \/ a.segments[i] = b.segments[i]

\* Whatever a narrower rule matches, the other one matches too.
LEMMA NarrowerMatchesLess ==
  ASSUME NEW a, NEW b, WellFormed(a), WellFormed(b),
         Narrower(Compiled(a), Compiled(b)),
         NEW r \in Requests, Matches(a, r)
  PROVE  Matches(b, r)
<1>1. PICK s, t, parts :
        s = Body(a.path) /\ t = Body(b.path) /\ parts = SplitPath(r.path)
  OBVIOUS
<1>2. /\ s \in Seq(Segment) /\ Len(s) \in Nat /\ DOMAIN s = 1..Len(s)
      /\ t \in Seq(Segment) /\ Len(t) \in Nat /\ DOMAIN t = 1..Len(t)
  BY <1>1 DEF WellFormed
<1>3. /\ Compiled(a).segments = s /\ Compiled(b).segments = t
  BY <1>1 DEF Compiled
<1>4. /\ IF Compiled(a).wildcard THEN Len(parts) >= Len(s)
         ELSE Len(parts) = Len(s)
      /\ \A i \in DOMAIN s : s[i] \in Params \/ s[i] = parts[i]
      /\ InScope(Compiled(a).hosts, Lower[Bare[r.host]])
      /\ InScope(Compiled(a).methods, Upper[r.method])
  BY <1>1, <1>3 DEF Matches, Fits
<1>5. Len(t) <= Len(s)
  BY <1>2, <1>3 DEF Narrower
<1>6. ASSUME NEW i \in DOMAIN t
      PROVE  t[i] \in Params \/ t[i] = parts[i]
  <2>1. t[i] \in Params \/ s[i] = t[i]
    BY <1>3 DEF Narrower
  <2>2. i \in DOMAIN s
    BY <1>2, <1>5
  <2> QED
    BY <1>4, <2>1, <2>2
<1>7. IF Compiled(b).wildcard THEN Len(parts) >= Len(t)
      ELSE Len(parts) = Len(t)
  <2>1. Len(parts) \in Nat
    BY <1>1, PartsAreLiterals
  <2>2. Compiled(b).wildcard
          \/ (~Compiled(a).wildcard /\ Len(t) = Len(s))
    BY <1>3 DEF Narrower
  <2>3. CASE Compiled(b).wildcard
    <3>1. Len(parts) >= Len(s)
      BY <1>2, <1>4, <2>1
    <3> QED
      BY <1>2, <1>5, <2>1, <2>3, <3>1
  <2>4. CASE ~Compiled(b).wildcard
    BY <1>4, <2>2, <2>4
  <2> QED
    BY <2>3, <2>4
<1>8. /\ InScope(Compiled(b).hosts, Lower[Bare[r.host]])
      /\ InScope(Compiled(b).methods, Upper[r.method])
  BY <1>4 DEF Narrower, ScopeWithin, InScope
<1> QED
  BY <1>1, <1>3, <1>6, <1>7, <1>8 DEF Matches, Fits

\* A segment is a literal or a parameter.
LEMMA CountsAddUp ==
  ASSUME NEW segments \in Seq(Segment)
  PROVE  /\ Count(segments, Literals) \in Nat
         /\ Count(segments, Params) \in Nat
         /\ Count(segments, Literals) + Count(segments, Params)
              = Len(segments)
<1>1. PICK n \in Nat : n = Len(segments) /\ DOMAIN segments = 1..n
  OBVIOUS
<1>2. PICK L, P : /\ L = {i \in 1..n : segments[i] \in Literals}
                  /\ P = {i \in 1..n : segments[i] \in Params}
  OBVIOUS
<1>3. L \cup P = 1..n /\ L \cap P = {}
  BY <1>1, <1>2, TokensAssumption DEF Segment
<1>4. IsFiniteSet(1..n) /\ Cardinality(1..n) = n
  BY FS_Interval
<1>5. IsFiniteSet(L) /\ IsFiniteSet(P)
  BY <1>2, <1>4, FS_Subset
<1>6. Cardinality(L \cup P) =
        Cardinality(L) + Cardinality(P) - Cardinality(L \cap P)
  BY <1>5, FS_Union
<1>7. Cardinality(L) \in Nat /\ Cardinality(P) \in Nat
  BY <1>5, FS_CardinalityType
<1>8. Cardinality(L \cap P) = 0
  BY <1>3, FS_EmptySet
<1>9. n = Cardinality(L) + Cardinality(P)
  <2>1. Cardinality(L \cup P) = n
    BY <1>3, <1>4
  <2> QED
    BY <1>6, <1>7, <1>8, <2>1
<1> QED
  BY <1>1, <1>2, <1>7, <1>9 DEF Count

\* Being narrower never costs a rule any of its score.
LEMMA NarrowerScoresAsHigh ==
  ASSUME NEW a, NEW b, WellFormed(a), WellFormed(b),
         Narrower(Compiled(a), Compiled(b))
  PROVE  Score(a) >= Score(b)
<1>1. PICK s, t : s = Body(a.path) /\ t = Body(b.path)
  OBVIOUS
<1>2. /\ s \in Seq(Segment) /\ Len(s) \in Nat /\ DOMAIN s = 1..Len(s)
      /\ t \in Seq(Segment) /\ Len(t) \in Nat /\ DOMAIN t = 1..Len(t)
  BY <1>1 DEF WellFormed
<1>3. /\ Compiled(a).segments = s /\ Compiled(b).segments = t
      /\ Compiled(a).wildcard = Wildcard(a.path)
      /\ Compiled(b).wildcard = Wildcard(b.path)
  BY <1>1 DEF Compiled
<1>4. /\ Len(t) <= Len(s)
      /\ Wildcard(a.path) => Wildcard(b.path)
  BY <1>2, <1>3 DEF Narrower
<1>5. /\ b.hosts # {} => a.hosts # {}
      /\ b.methods # {} => a.methods # {}
  <2>1. /\ ScopeWithin({Lower[h] : h \in a.hosts}, {Lower[h] : h \in b.hosts})
        /\ ScopeWithin({Upper[m] : m \in a.methods},
                       {Upper[m] : m \in b.methods})
    BY DEF Narrower, Compiled
  <2>2. ASSUME b.hosts # {}
        PROVE  a.hosts # {}
    <3>1. {Lower[h] : h \in b.hosts} # {}
      BY <2>2
    <3>2. {Lower[h] : h \in a.hosts} # {}
      BY <2>1, <3>1 DEF ScopeWithin
    <3> QED
      BY <3>2
  <2>3. ASSUME b.methods # {}
        PROVE  a.methods # {}
    <3>1. {Upper[m] : m \in b.methods} # {}
      BY <2>3
    <3>2. {Upper[m] : m \in a.methods} # {}
      BY <2>1, <3>1 DEF ScopeWithin
    <3> QED
      BY <3>2
  <2> QED
    BY <2>2, <2>3
<1>6. Count(t, Literals) <= Count(s, Literals)
  <2>1. PICK L, M : /\ L = {i \in DOMAIN s : s[i] \in Literals}
                    /\ M = {i \in DOMAIN t : t[i] \in Literals}
    OBVIOUS
  <2>2. M \subseteq L
    <3> SUFFICES ASSUME NEW i \in M PROVE i \in L
      OBVIOUS
    <3>1. i \in DOMAIN t /\ t[i] \in Literals
      BY <2>1
    <3>2. t[i] \in Params \/ s[i] = t[i]
      BY <1>3, <3>1 DEF Narrower
    <3>3. i \in DOMAIN s
      BY <1>2, <1>4, <3>1
    <3> QED
      BY <2>1, <3>1, <3>2, <3>3, TokensAssumption
  <2>3. IsFiniteSet(L)
    <3>1. IsFiniteSet(1..Len(s)) /\ L \in SUBSET (1..Len(s))
      BY <1>2, <2>1, FS_Interval
    <3> QED
      BY <3>1, FS_Subset
  <2>4. Cardinality(M) <= Cardinality(L)
    BY <2>2, <2>3, FS_Subset
  <2> QED
    BY <2>1, <2>4 DEF Count
<1>7. PICK ls, ps, lt, pt :
        /\ ls = Count(s, Literals) /\ ps = Count(s, Params)
        /\ lt = Count(t, Literals) /\ pt = Count(t, Params)
  OBVIOUS
<1>8. /\ ls \in Nat /\ ps \in Nat /\ lt \in Nat /\ pt \in Nat
      /\ ls + ps = Len(s) /\ lt + pt = Len(t) /\ lt <= ls
  BY <1>2, <1>6, <1>7, CountsAddUp
<1>9. 100 * ls + 10 * ps >= 100 * lt + 10 * pt
  BY <1>2, <1>4, <1>8
<1>10. PICK wa, wb, sa, sb, ma, mb :
         /\ wa = (IF Wildcard(a.path) THEN 5 ELSE 0)
         /\ wb = (IF Wildcard(b.path) THEN 5 ELSE 0)
         /\ sa = (IF a.hosts # {} THEN 10000 ELSE 0)
         /\ sb = (IF b.hosts # {} THEN 10000 ELSE 0)
         /\ ma = (IF a.methods # {} THEN 1000 ELSE 0)
         /\ mb = (IF b.methods # {} THEN 1000 ELSE 0)
  OBVIOUS
<1>11. /\ wa \in Nat /\ wb \in Nat /\ wa <= wb
       /\ sa \in Nat /\ sb \in Nat /\ sb <= sa
       /\ ma \in Nat /\ mb \in Nat /\ mb <= ma
  BY <1>4, <1>5, <1>10
<1>12. /\ Score(a) = sa + ma + 100 * ls + 10 * ps - wa
       /\ Score(b) = sb + mb + 100 * lt + 10 * pt - wb
  BY <1>1, <1>7, <1>10 DEF Score
<1> QED
  BY <1>8, <1>9, <1>11, <1>12

\* Of two rules of which one is narrower the other never decides.
LEMMA NarrowerComesFirst ==
  ASSUME NEW doc \in Documents, Compiles(doc),
         NEW i \in DOMAIN doc, NEW j \in DOMAIN doc, i # j,
         Narrower(Compiled(doc[i]), Compiled(doc[j])),
         NEW r \in MatchedBy(doc[i])
  PROVE  r \in MatchedBy(doc[j]) /\ Match(doc, r) # j
<1>1. \A k \in DOMAIN doc : WellFormed(doc[k])
  BY DEF Compiles
<1>2. r \in Requests /\ Matches(doc[i], r)
  BY DEF MatchedBy
<1>3. Matches(doc[j], r)
  BY <1>1, <1>2, NarrowerMatchesLess
<1>4. i \in Matching(doc, r) /\ j \in Matching(doc, r)
  BY <1>2, <1>3 DEF Matching
<1>5. Match(doc, r) # j
  <2> SUFFICES ASSUME Match(doc, r) = j PROVE FALSE
    OBVIOUS
  <2>1. PICK n \in Nat : DOMAIN doc = 1..n
    <3>1. doc \in Seq(Rule)
      BY DocumentsAssumption
    <3> QED
      BY <3>1
  <2>2. Precedes(doc, j, i)
    BY <1>1, <1>4, <2>1, MatchIsForemost DEF Foremost
  <2>3. /\ Score(doc[i]) \in Int /\ Score(doc[j]) \in Int
        /\ Compiled(doc[i]).score = Score(doc[i])
        /\ Compiled(doc[j]).score = Score(doc[j])
    BY <1>1, ScoreIsInt
  <2>4. Score(doc[i]) >= Score(doc[j])
    BY <1>1, NarrowerScoresAsHigh
  <2>5. Score(doc[i]) = Score(doc[j])
    BY <2>2, <2>3, <2>4 DEF Precedes
  <2> QED
    BY <1>4, <2>5, ToldApartByScore
<1> QED
  BY <1>2, <1>3, <1>5 DEF MatchedBy

\* A rule that is as narrow as another in every way, and narrower in some,
\* decides the requests it is made for, in every document that is served: no
\* two ways of being narrow outweigh each other in the score (compileRule,
\* Match).
THEOREM NarrowerIsHeard ==
  Spec => [](Serving =>
    \A i, j \in DOMAIN document :
      i # j /\ Narrower(Compiled(document[i]), Compiled(document[j])) =>
        /\ MatchedBy(document[i]) \subseteq MatchedBy(document[j])
        /\ \A r \in MatchedBy(document[i]) : Match(document, r) # j)
<1>1. RoutesInv =>
        (Serving =>
          \A i, j \in DOMAIN document :
            i # j /\ Narrower(Compiled(document[i]), Compiled(document[j])) =>
              /\ MatchedBy(document[i]) \subseteq MatchedBy(document[j])
              /\ \A r \in MatchedBy(document[i]) : Match(document, r) # j)
  <2> SUFFICES ASSUME RoutesInv, Serving,
                      NEW i \in DOMAIN document, NEW j \in DOMAIN document,
                      i # j,
                      Narrower(Compiled(document[i]), Compiled(document[j])),
                      NEW r \in MatchedBy(document[i])
               PROVE  /\ r \in MatchedBy(document[j])
                      /\ Match(document, r) # j
    OBVIOUS
  <2>1. document \in Documents /\ Compiles(document)
    BY DEF RoutesInv, Serving
  <2> QED
    BY <2>1, NarrowerComesFirst
<1> QED
  BY <1>1, RoutesInvariant, PTL

-----------------------------------------------------------------------------
(* Requests that tell rules apart.                                         *)

\* A rule hears of a request the host and the method, spelled its way, and the
\* parts of the path.
Tells(r, h, m, parts) ==
  /\ Lower[Bare[r.host]] = Lower[h] /\ Upper[r.method] = Upper[m]
  /\ SplitPath(r.path) = parts

\* Whatever a rule can be told arrives.
LEMMA Arrives ==
  ASSUME NEW h \in Portless, NEW m \in Methods, NEW n \in 0..MaxParts,
         NEW parts \in [1..n -> Literals]
  PROVE  \E r \in Requests : Tells(r, h, m, parts)
<1>1. parts \in Parts
  BY DEF Parts
<1>2. PICK told : told = <<Lower[h], Upper[m], parts>>
  OBVIOUS
<1>3. told \in {Lower[k] : k \in Portless}
               \X {Upper[k] : k \in Methods} \X Parts
  BY <1>1, <1>2
<1>4. PICK r \in Requests :
        told = <<Lower[Bare[r.host]], Upper[r.method], SplitPath(r.path)>>
  BY <1>3, RequestsAssumption
<1> QED
  BY <1>2, <1>4 DEF Tells

\* What a rule makes of what it is told.
LEMMA ToldMatches ==
  ASSUME NEW rule, NEW c, c = Compiled(rule),
         NEW r, NEW h, NEW m, NEW parts, Tells(r, h, m, parts)
  PROVE  Matches(rule, r) <=>
           /\ InScope(c.hosts, Lower[h]) /\ InScope(c.methods, Upper[m])
           /\ Fits(c, parts)
BY DEF Tells, Matches

\* A rule as Compiled gives it, with what a document leaves unmentioned.
LEMMA Unmentioned ==
  ASSUME NEW doc \in Documents
  PROVE  \E h \in Portless, m \in Methods, w \in Literals :
           \A i \in DOMAIN doc : LET c == Compiled(doc[i]) IN
             /\ Lower[h] \notin c.hosts /\ Upper[m] \notin c.methods
             /\ \A k \in DOMAIN c.segments : c.segments[k] # w
<1>1. PICK h \in Portless : \A i \in DOMAIN doc :
        Lower[h] \notin Compiled(doc[i]).hosts
  BY RulesAssumption
<1>2. PICK m \in Methods : \A i \in DOMAIN doc :
        Upper[m] \notin Compiled(doc[i]).methods
  BY RulesAssumption
<1>3. PICK w \in Literals : \A i \in DOMAIN doc :
        w \notin Range(Compiled(doc[i]).segments)
  BY RulesAssumption
<1>4. \A i \in DOMAIN doc : \A k \in DOMAIN Compiled(doc[i]).segments :
        Compiled(doc[i]).segments[k] # w
  BY <1>3 DEF Range
<1> QED
  BY <1>1, <1>2, <1>4

\* A rule of a document, compiled.
LEMMA CompiledIs ==
  ASSUME NEW doc \in Documents, NEW i \in DOMAIN doc, WellFormed(doc[i]),
         NEW c, c = Compiled(doc[i])
  PROVE  /\ c.segments \in Seq(Segment) /\ Len(c.segments) \in 0..MaxParts
         /\ c.wildcard => Len(c.segments) + 1 \in 0..MaxParts
         /\ c.wildcard \in BOOLEAN
         /\ \A x \in c.hosts : \E h \in Portless : x = Lower[h]
         /\ \A x \in c.methods : \E m \in Methods : x = Upper[m]
<1>1. doc[i] \in Rule /\ doc[i].hosts \subseteq Portless
  <2>1. doc \in Seq(Rule)
    BY DocumentsAssumption
  <2> QED
    BY <2>1, RulesAssumption
<1>2. doc[i].methods \subseteq Methods
  BY <1>1 DEF Rule
<1>3. /\ c.segments \in Seq(Segment)
      /\ c.hosts = {Lower[h] : h \in doc[i].hosts}
      /\ c.methods = {Upper[m] : m \in doc[i].methods}
      /\ c.wildcard \in BOOLEAN
  BY DEF Compiled, WellFormed, Wildcard
<1>4. /\ Len(c.segments) <= MaxParts
      /\ c.wildcard => Len(c.segments) < MaxParts
  BY RulesAssumption
<1>5. Len(c.segments) \in Nat
  BY <1>3
<1>6. /\ Len(c.segments) \in 0..MaxParts
      /\ c.wildcard => Len(c.segments) + 1 \in 0..MaxParts
  BY <1>4, <1>5, RequestsAssumption
<1>7. /\ \A x \in c.hosts : \E h \in Portless : x = Lower[h]
      /\ \A x \in c.methods : \E m \in Methods : x = Upper[m]
  BY <1>1, <1>2, <1>3
<1> QED
  BY <1>3, <1>6, <1>7

\* The converse of NarrowerMatchesLess: a rule that matches nothing but what
\* another matches is as narrow in every way.  Told only what it must be told,
\* and words, hosts and methods that the document does not mention for the
\* rest, it would otherwise match what the other does not.
LEMMA MatchesLessIsNarrower ==
  ASSUME NEW doc \in Documents, NEW i \in DOMAIN doc, NEW j \in DOMAIN doc,
         WellFormed(doc[i]), WellFormed(doc[j]),
         MatchedBy(doc[i]) \subseteq MatchedBy(doc[j])
  PROVE  Narrower(Compiled(doc[i]), Compiled(doc[j]))
<1>1. PICK a, b : a = Compiled(doc[i]) /\ b = Compiled(doc[j])
  OBVIOUS
<1>2. PICK s \in Seq(Segment), t \in Seq(Segment) :
        s = a.segments /\ t = b.segments
  BY <1>1, CompiledIs
<1>3. PICK n \in 0..MaxParts, l \in 0..MaxParts :
        /\ n = Len(s) /\ DOMAIN s = 1..n
        /\ l = Len(t) /\ DOMAIN t = 1..l
  BY <1>1, <1>2, CompiledIs
<1>4. PICK hh \in Portless, mm \in Methods, w \in Literals :
        /\ Lower[hh] \notin a.hosts /\ Lower[hh] \notin b.hosts
        /\ Upper[mm] \notin a.methods /\ Upper[mm] \notin b.methods
        /\ \A k \in 1..l : t[k] # w
  BY <1>1, <1>2, <1>3, Unmentioned
<1> DEFINE Word(k) == IF k \in 1..n /\ s[k] \in Literals THEN s[k] ELSE w
           Words(x) == [k \in 1..x |-> Word(k)]
<1>5. ASSUME NEW h \in Portless, NEW m \in Methods, NEW x \in 0..MaxParts,
             InScope(a.hosts, Lower[h]), InScope(a.methods, Upper[m]),
             (a.wildcard /\ x >= n) \/ (~a.wildcard /\ x = n)
      PROVE  /\ InScope(b.hosts, Lower[h]) /\ InScope(b.methods, Upper[m])
             /\ (b.wildcard /\ x >= l) \/ (~b.wildcard /\ x = l)
             /\ \A k \in 1..l : t[k] \in Params \/ t[k] = Word(k)
  <2>1. PICK parts : parts = Words(x)
    OBVIOUS
  <2>2. parts \in [1..x -> Literals] /\ \A k \in 1..x : parts[k] = Word(k)
    BY <2>1
  <2>3. PICK r \in Requests : Tells(r, h, m, parts)
    BY <2>2, Arrives
  <2>4. \A k \in 1..n : s[k] \in Params \/ s[k] = parts[k]
    <3> SUFFICES ASSUME NEW k \in 1..n, s[k] \notin Params
                 PROVE  s[k] = parts[k]
      OBVIOUS
    <3>1. s[k] \in Literals
      BY <1>3 DEF Segment
    <3>2. k \in 1..x
      BY <1>5
    <3> QED
      BY <2>2, <3>1, <3>2
  <2>5. x \in Nat /\ a.wildcard \in BOOLEAN /\ b.wildcard \in BOOLEAN
    BY <1>1, CompiledIs
  <2> HIDE DEF Word, Words
  <2>6. Matches(doc[i], r)
    <3>1. PICK rule : rule = doc[i]
      OBVIOUS
    <3>2. a = Compiled(rule) /\ Len(parts) = x
      BY <1>1, <2>2, <2>5, <3>1
    <3>3. /\ InScope(a.hosts, Lower[h]) /\ InScope(a.methods, Upper[m])
          /\ (a.wildcard /\ x >= Len(s)) \/ (~a.wildcard /\ x = Len(s))
          /\ \A k \in DOMAIN s : s[k] \in Params \/ s[k] = parts[k]
      BY <1>3, <1>5, <2>4
    <3>4. Fits(a, parts)
      <4>1. CASE a.wildcard
        BY <1>2, <3>2, <3>3, <4>1 DEF Fits
      <4>2. CASE ~a.wildcard
        BY <1>2, <3>2, <3>3, <4>2 DEF Fits
      <4> QED
        BY <4>1, <4>2
    <3>5. Matches(rule, r)
      BY <2>3, <3>2, <3>3, <3>4, ToldMatches
    <3> QED
      BY <3>1, <3>5
  <2>7. Matches(doc[j], r)
    BY <2>3, <2>6 DEF MatchedBy
  <2>8. /\ InScope(b.hosts, Lower[h]) /\ InScope(b.methods, Upper[m])
        /\ (b.wildcard /\ x >= l) \/ (~b.wildcard /\ x = l)
        /\ \A k \in 1..l : t[k] \in Params \/ t[k] = parts[k]
    <3>1. PICK rule : rule = doc[j]
      OBVIOUS
    <3>2. b = Compiled(rule) /\ Len(parts) = x /\ Matches(rule, r)
      BY <1>1, <2>2, <2>5, <2>7, <3>1
    <3>3. /\ InScope(b.hosts, Lower[h]) /\ InScope(b.methods, Upper[m])
          /\ Fits(b, parts)
      BY <2>3, <3>2, ToldMatches
    <3>4. /\ (b.wildcard /\ x >= Len(t)) \/ (~b.wildcard /\ x = Len(t))
          /\ \A k \in DOMAIN t : t[k] \in Params \/ t[k] = parts[k]
      <4>1. CASE b.wildcard
        BY <1>2, <3>2, <3>3, <4>1 DEF Fits
      <4>2. CASE ~b.wildcard
        BY <1>2, <3>2, <3>3, <4>2 DEF Fits
      <4> QED
        BY <4>1, <4>2
    <3> QED
      BY <1>3, <3>3, <3>4
  <2>9. \A k \in 1..l : k \in 1..x
    BY <2>8
  <2> QED
    BY <2>2, <2>8, <2>9
<1>6. PICK h \in Portless : InScope(a.hosts, Lower[h])
  <2>1. CASE a.hosts = {}
    BY <1>4, <2>1 DEF InScope
  <2>2. CASE a.hosts # {}
    <3>1. PICK y : y \in a.hosts
      BY <2>2
    <3>2. PICK g \in Portless : y = Lower[g]
      BY <1>1, <3>1, CompiledIs
    <3> QED
      BY <3>1, <3>2 DEF InScope
  <2> QED
    BY <2>1, <2>2
<1>7. PICK m \in Methods : InScope(a.methods, Upper[m])
  <2>1. CASE a.methods = {}
    BY <1>4, <2>1 DEF InScope
  <2>2. CASE a.methods # {}
    <3>1. PICK y : y \in a.methods
      BY <2>2
    <3>2. PICK g \in Methods : y = Upper[g]
      BY <1>1, <3>1, CompiledIs
    <3> QED
      BY <3>1, <3>2 DEF InScope
  <2> QED
    BY <2>1, <2>2
<1>8. ScopeWithin(a.hosts, b.hosts)
  <2> SUFFICES ASSUME b.hosts # {}
               PROVE  a.hosts # {} /\ a.hosts \subseteq b.hosts
    BY DEF ScopeWithin
  <2>1. a.hosts # {}
    BY <1>4, <1>5, <1>7 DEF InScope
  <2>2. ASSUME NEW y \in a.hosts PROVE y \in b.hosts
    <3>1. PICK g \in Portless : y = Lower[g]
      BY <1>1, CompiledIs
    <3>2. InScope(a.hosts, Lower[g])
      BY <3>1 DEF InScope
    <3> QED
      BY <1>5, <1>7, <3>1, <3>2 DEF InScope
  <2> QED
    BY <2>1, <2>2
<1>9. ScopeWithin(a.methods, b.methods)
  <2> SUFFICES ASSUME b.methods # {}
               PROVE  a.methods # {} /\ a.methods \subseteq b.methods
    BY DEF ScopeWithin
  <2>1. a.methods # {}
    BY <1>4, <1>5, <1>6 DEF InScope
  <2>2. ASSUME NEW y \in a.methods PROVE y \in b.methods
    <3>1. PICK g \in Methods : y = Upper[g]
      BY <1>1, CompiledIs
    <3>2. InScope(a.methods, Upper[g])
      BY <3>1 DEF InScope
    <3> QED
      BY <1>5, <1>6, <3>1, <3>2 DEF InScope
  <2> QED
    BY <2>1, <2>2
<1>10. /\ (b.wildcard /\ n >= l) \/ (~b.wildcard /\ n = l)
       /\ \A k \in 1..l : t[k] \in Params \/ t[k] = Word(k)
  <2> HIDE DEF Word
  <2> QED
    BY <1>5, <1>6, <1>7
<1>11. b.wildcard \/ ~a.wildcard
  <2> SUFFICES ASSUME ~b.wildcard, a.wildcard PROVE FALSE
    OBVIOUS
  <2>1. n + 1 \in 0..MaxParts
    BY <1>1, <1>2, <1>3, CompiledIs
  <2>2. n + 1 = l
    <3> HIDE DEF Word
    <3> QED
      BY <1>5, <1>6, <1>7, <2>1
  <2> QED
    BY <1>10, <2>2
<1>12. \A k \in 1..l : t[k] \in Params \/ s[k] = t[k]
  BY <1>4, <1>10
<1>13. l <= n /\ (b.wildcard \/ l = n)
  BY <1>10
<1> QED
  BY <1>1, <1>2, <1>3, <1>8, <1>9, <1>11, <1>12, <1>13 DEF Narrower

\* A rule that matches some of the requests of another, and no others, is not
\* overruled by it, in any document that is served: to be narrower is to be
\* narrower in the ways that the score counts, and none outweighs another
\* (compileRule, Match).
THEOREM NarrowerDecides == Spec => []NarrowerRuleDecides
<1>1. RoutesInv => NarrowerRuleDecides
  <2> SUFFICES ASSUME RoutesInv, Serving,
                      NEW i \in DOMAIN document, NEW j \in DOMAIN document,
                      i # j,
                      MatchedBy(document[i]) \subseteq MatchedBy(document[j]),
                      NEW r \in MatchedBy(document[i])
               PROVE  Match(document, r) # j
    BY DEF NarrowerRuleDecides
  <2>1. document \in Documents /\ Compiles(document)
    BY DEF RoutesInv, Serving
  <2>2. WellFormed(document[i]) /\ WellFormed(document[j])
    BY <2>1 DEF Compiles
  <2>3. Narrower(Compiled(document[i]), Compiled(document[j]))
    BY <2>1, <2>2, MatchesLessIsNarrower
  <2> QED
    BY <2>1, <2>3, NarrowerComesFirst
<1> QED
  BY <1>1, RoutesInvariant, PTL

-----------------------------------------------------------------------------
(* Rules that overlap.                                                     *)

\* Equal scores are of rules that both end in a wildcard, or neither: all but
\* the wildcard counts in tens.
LEMMA ScoreTellsWildcards ==
  ASSUME NEW a, NEW b, WellFormed(a), WellFormed(b), Score(a) = Score(b)
  PROVE  Wildcard(a.path) <=> Wildcard(b.path)
<1>1. ASSUME NEW rule, WellFormed(rule)
      PROVE  \E x \in Nat :
               /\ Wildcard(rule.path) => Score(rule) = 10 * x - 5
               /\ ~Wildcard(rule.path) => Score(rule) = 10 * x
  <2>1. PICK l, p : /\ l = Count(Body(rule.path), Literals)
                    /\ p = Count(Body(rule.path), Params)
    OBVIOUS
  <2>2. l \in Nat /\ p \in Nat
    BY <1>1, <2>1, CountIsNat DEF WellFormed
  <2>3. PICK h \in {0, 1000}, m \in {0, 100} :
          /\ (IF rule.hosts # {} THEN 10000 ELSE 0) = 10 * h
          /\ (IF rule.methods # {} THEN 1000 ELSE 0) = 10 * m
    OBVIOUS
  <2>4. PICK w : w = (IF Wildcard(rule.path) THEN 5 ELSE 0)
    OBVIOUS
  <2>5. Score(rule) = 10 * h + 10 * m + 100 * l + 10 * p - w
    BY <2>1, <2>3, <2>4 DEF Score
  <2>6. PICK x \in Nat : x = h + m + 10 * l + p
    BY <2>2
  <2>7. 10 * x = 10 * h + 10 * m + 100 * l + 10 * p
    BY <2>2, <2>6
  <2>8. w \in Nat /\ Score(rule) = 10 * x - w
    BY <2>2, <2>4, <2>5, <2>7
  <2>9. /\ Wildcard(rule.path) => Score(rule) = 10 * x - 5
        /\ ~Wildcard(rule.path) => Score(rule) = 10 * x
    BY <2>4, <2>8
  <2> QED
    BY <2>9
<1>2. PICK x \in Nat : /\ Wildcard(a.path) => Score(a) = 10 * x - 5
                       /\ ~Wildcard(a.path) => Score(a) = 10 * x
  BY <1>1
<1>3. PICK y \in Nat : /\ Wildcard(b.path) => Score(b) = 10 * y - 5
                       /\ ~Wildcard(b.path) => Score(b) = 10 * y
  BY <1>1
<1>4. 10 * x - 5 # 10 * y /\ 10 * y - 5 # 10 * x
  OBVIOUS
<1> QED
  BY <1>2, <1>3, <1>4

\* Scopes that overlap have something in common, or nothing said against it.
LEMMA InBothScopes ==
  ASSUME NEW S, NEW T, NEW v, ScopesOverlap(S, T)
  PROVE  \E y \in S \cup T \cup {v} : InScope(S, y) /\ InScope(T, y)
BY DEF ScopesOverlap, InScope

\* What checkAmbiguity refuses it refuses for a reason: for two rules of a
\* document that overlap and are equally specific there is a request that both
\* match.  Where both rules have a segment the request has the literal of one
\* of them, beyond that the longer rule's.  Overlaps alone would not do: "/x"
\* overlaps "/x/y/*".
LEMMA OverlapIsMatched ==
  ASSUME NEW doc \in Documents, NEW i \in DOMAIN doc, NEW j \in DOMAIN doc,
         WellFormed(doc[i]), WellFormed(doc[j]),
         Score(doc[i]) = Score(doc[j]),
         Overlaps(Compiled(doc[i]), Compiled(doc[j]))
  PROVE  \E r \in Requests : Matches(doc[i], r) /\ Matches(doc[j], r)
<1>1. PICK a, b : a = Compiled(doc[i]) /\ b = Compiled(doc[j])
  OBVIOUS
<1>2. PICK s \in Seq(Segment), t \in Seq(Segment) :
        s = a.segments /\ t = b.segments
  BY <1>1, CompiledIs
<1>3. PICK n \in 0..MaxParts, l \in 0..MaxParts :
        /\ n = Len(s) /\ DOMAIN s = 1..n
        /\ l = Len(t) /\ DOMAIN t = 1..l
  BY <1>1, <1>2, CompiledIs
<1>4. PICK hh \in Portless, mm \in Methods, w \in Literals : TRUE
  BY Unmentioned
<1>5. /\ ScopesOverlap(a.hosts, b.hosts)
      /\ ScopesOverlap(a.methods, b.methods)
      /\ n # l => a.wildcard \/ b.wildcard
      /\ \A k \in (1..n) \cap (1..l) :
           s[k] \in Params \/ t[k] \in Params \/ s[k] = t[k]
  BY <1>1, <1>2, <1>3 DEF Overlaps
<1>6. PICK h \in Portless :
        InScope(a.hosts, Lower[h]) /\ InScope(b.hosts, Lower[h])
  <2>1. PICK y \in a.hosts \cup b.hosts \cup {Lower[hh]} :
          InScope(a.hosts, y) /\ InScope(b.hosts, y)
    BY <1>5, InBothScopes
  <2>2. \E h \in Portless : y = Lower[h]
    BY <1>1, CompiledIs
  <2> QED
    BY <2>1, <2>2
<1>7. PICK m \in Methods :
        InScope(a.methods, Upper[m]) /\ InScope(b.methods, Upper[m])
  <2>1. PICK y \in a.methods \cup b.methods \cup {Upper[mm]} :
          InScope(a.methods, y) /\ InScope(b.methods, y)
    BY <1>5, InBothScopes
  <2>2. \E m \in Methods : y = Upper[m]
    BY <1>1, CompiledIs
  <2> QED
    BY <2>1, <2>2
<1>8. /\ a.wildcard \in BOOLEAN /\ b.wildcard \in BOOLEAN
      /\ a.wildcard <=> b.wildcard
  <2>1. a.wildcard = Wildcard(doc[i].path) /\ b.wildcard = Wildcard(doc[j].path)
    BY <1>1 DEF Compiled
  <2> QED
    BY <1>1, <2>1, CompiledIs, ScoreTellsWildcards
<1>9. PICK x \in 0..MaxParts : /\ x >= n /\ x >= l
                               /\ x = n \/ x = l
  BY <1>3
<1> DEFINE Word(k) == IF k \in 1..n /\ s[k] \in Literals THEN s[k]
                      ELSE IF k \in 1..l /\ t[k] \in Literals THEN t[k] ELSE w
<1>10. PICK parts \in [1..x -> Literals] : \A k \in 1..x : parts[k] = Word(k)
  <2>1. [k \in 1..x |-> Word(k)] \in [1..x -> Literals]
    BY <1>4
  <2> QED
    BY <2>1
<1>11. \A k \in 1..n : s[k] \in Params \/ s[k] = parts[k]
  <2> SUFFICES ASSUME NEW k \in 1..n, s[k] \notin Params
               PROVE  s[k] = parts[k]
    OBVIOUS
  <2>1. s[k] \in Literals
    BY <1>3 DEF Segment
  <2>2. k \in 1..x
    BY <1>9
  <2> QED
    BY <1>10, <2>1, <2>2
<1>12. \A k \in 1..l : t[k] \in Params \/ t[k] = parts[k]
  <2> SUFFICES ASSUME NEW k \in 1..l, t[k] \notin Params
               PROVE  t[k] = parts[k]
    OBVIOUS
  <2>1. t[k] \in Literals
    BY <1>3 DEF Segment
  <2>2. k \in 1..x
    BY <1>9
  <2>3. CASE k \in 1..n /\ s[k] \in Literals
    <3>1. s[k] = t[k]
      BY <1>5, <2>3, TokensAssumption
    <3> QED
      BY <1>10, <2>2, <2>3, <3>1
  <2>4. CASE ~(k \in 1..n /\ s[k] \in Literals)
    BY <1>10, <2>1, <2>2, <2>4
  <2> QED
    BY <2>3, <2>4
<1> HIDE DEF Word
<1>13. x \in Nat /\ Len(parts) = x
  BY <1>9
<1>14. /\ a.wildcard \/ x = n
       /\ b.wildcard \/ x = l
  BY <1>5, <1>8, <1>9
<1>15. Fits(a, parts) /\ Fits(b, parts)
  <2>1. CASE a.wildcard
    BY <1>2, <1>3, <1>8, <1>9, <1>11, <1>12, <1>13, <2>1 DEF Fits
  <2>2. CASE ~a.wildcard
    BY <1>2, <1>3, <1>8, <1>11, <1>12, <1>13, <1>14, <2>2 DEF Fits
  <2> QED
    BY <2>1, <2>2
<1>16. PICK r \in Requests : Tells(r, h, m, parts)
  BY <1>9, <1>10, Arrives
<1>17. ASSUME NEW rule, NEW c, c = Compiled(rule), Fits(c, parts),
              InScope(c.hosts, Lower[h]), InScope(c.methods, Upper[m])
       PROVE  Matches(rule, r)
  BY <1>16, <1>17, ToldMatches
<1>18. Matches(doc[i], r)
  BY <1>1, <1>6, <1>7, <1>15, <1>17
<1>19. Matches(doc[j], r)
  BY <1>1, <1>6, <1>7, <1>15, <1>17
<1> QED
  BY <1>18, <1>19

\* Nothing is refused that could be served: what is refused has a segment that
\* cannot be read, or two rules between which no score decides for a request
\* that both match (checkAmbiguity, overlaps).
THEOREM RefusalsAreDeserved == Spec => []RefusalsAreJustified
<1>1. RoutesInv => RefusalsAreJustified
  <2> SUFFICES ASSUME RoutesInv, status = "refused",
                      \A i \in DOMAIN document : WellFormed(document[i])
               PROVE  \E i, j \in DOMAIN document, r \in Requests :
                        /\ i # j
                        /\ Score(document[i]) = Score(document[j])
                        /\ {i, j} \subseteq Matching(document, r)
    BY DEF RefusalsAreJustified
  <2>1. document \in Documents /\ Ambiguous(document)
    BY DEF RoutesInv, Compiles
  <2>2. PICK i \in DOMAIN document, j \in DOMAIN document :
          /\ i # j
          /\ Compiled(document[i]).score = Compiled(document[j]).score
          /\ Overlaps(Compiled(document[i]), Compiled(document[j]))
    BY <2>1 DEF Ambiguous
  <2>3. Score(document[i]) = Score(document[j])
    BY <2>2 DEF Compiled
  <2>4. PICK r \in Requests : Matches(document[i], r) /\ Matches(document[j], r)
    BY <2>1, <2>2, <2>3, OverlapIsMatched
  <2>5. {i, j} \subseteq Matching(document, r)
    BY <2>4 DEF Matching
  <2> QED
    BY <2>2, <2>3, <2>5
<1> QED
  BY <1>1, RoutesInvariant, PTL
=============================================================================
