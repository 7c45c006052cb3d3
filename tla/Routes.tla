--------------------------------- MODULE Routes ---------------------------------
(***************************************************************************)
(* The route table, internal/routes: a document's rules are compiled into  *)
(* a table once, or the document is refused, and each request is matched   *)
(* against the table.  A path is the sequence of what stands between its   *)
(* slashes.  sort.SliceStable and the search from the top are one choice:  *)
(* the first rule, in the order of the sort, that matches.                 *)
(***************************************************************************)
EXTENDS Integers, Sequences, FiniteSets, SequencesExt

CONSTANTS
  Hosts, Methods,   \* as they are spelled, in documents and in requests
  Lower, Upper,     \* [Hosts -> Hosts] and [Methods -> Methods], the case
  Bare,             \* [Hosts -> Hosts], what precedes the first colon
  Literals,         \* path segments with no brace and no star in them
  Params,           \* the names in {param} segments
  Blank,            \* the empty segment of a doubled or final slash
  Star,             \* the segment "*"
  Empty,            \* the segment "{}"
  Broken,           \* any other segment with a brace or a star in it
  Query,            \* where the "?" or "#" of a request's path stands
  Documents,        \* the documents that are loaded
  Requests,         \* the requests that arrive
  MaxParts,         \* any path of so many parts is among them
  None

Segment == Literals \cup Params
Token   == Segment \cup {Blank, Star, Empty, Broken}

Rule == [hosts : SUBSET Hosts, methods : SUBSET Methods, path : Seq(Token)]

Request ==
  [host : Hosts, method : Methods, path : Seq(Literals \cup {Blank, Query})]

ASSUME SpellingAssumption ==
  /\ Lower \in [Hosts -> Hosts]
  /\ Bare \in [Hosts -> Hosts]
  /\ Upper \in [Methods -> Methods]
ASSUME TokensAssumption ==
  /\ Literals \cap Params = {}
  /\ Segment \cap {Blank, Star, Empty, Broken, Query} = {}
  /\ Cardinality({Blank, Star, Empty, Broken, Query}) = 5
ASSUME DocumentsAssumption ==
  /\ Documents \subseteq Seq(Rule)
  /\ Requests \subseteq Request
  /\ None \notin Nat

VARIABLES
  document,  \* the document that was last loaded
  status     \* "loading", "serving" or "refused"

vars == <<document, status>>

-----------------------------------------------------------------------------
(* compileRule.                                                            *)

\* strings.TrimSuffix(path, "/"): one final slash.
Trimmed(path) ==
  IF path # <<>> /\ Last(path) = Blank THEN Front(path) ELSE path

Wildcard(path) == Trimmed(path) # <<>> /\ Last(Trimmed(path)) = Star

\* What is left of a path without its blanks, in the order it stands there.
NonBlanks(path) ==
  LET at == {i \in DOMAIN path : path[i] # Blank}
      Rank(i) == Cardinality({j \in at : j <= i})
  IN [k \in 1..Cardinality(at) |-> path[CHOOSE i \in at : Rank(i) = k]]

\* The segments that count: those between slashes, the wildcard left off.
Body(path) ==
  NonBlanks(IF Wildcard(path) THEN Front(Trimmed(path)) ELSE Trimmed(path))

WellFormed(rule) == Body(rule.path) \in Seq(Segment)

Count(segments, kind) ==
  Cardinality({i \in DOMAIN segments : segments[i] \in kind})

\* Mutant: a wildcard counts as one parameter more.
WildcardScore(rule) ==
  LET segments == Body(rule.path) IN
  (IF rule.hosts # {} THEN 10000 ELSE 0)
  + (IF rule.methods # {} THEN 1000 ELSE 0)
  + 100 * Count(segments, Literals)
  + 10 * Count(segments, Params)
  + (IF Wildcard(rule.path) THEN 10 ELSE 0)

\* Host scope, method scope, literal segments, parameters, wildcard.
Score(rule) ==
  LET segments == Body(rule.path) IN
  (IF rule.hosts # {} THEN 10000 ELSE 0)
  + (IF rule.methods # {} THEN 1000 ELSE 0)
  + 100 * Count(segments, Literals)
  + 10 * Count(segments, Params)
  - (IF Wildcard(rule.path) THEN 5 ELSE 0)

Compiled(rule) ==
  [hosts    |-> {Lower[h] : h \in rule.hosts},
   methods  |-> {Upper[m] : m \in rule.methods},
   segments |-> Body(rule.path),
   wildcard |-> Wildcard(rule.path),
   score    |-> Score(rule)]

-----------------------------------------------------------------------------
(* checkAmbiguity.                                                         *)

\* hostsOverlap and methodsOverlap: no scope is every scope.
ScopesOverlap(s, t) == s = {} \/ t = {} \/ s \cap t # {}

\* Mutant: two rules of one host and path are refused whatever their methods.
OverlapsInPath(a, b) ==
  /\ ScopesOverlap(a.hosts, b.hosts)
  /\ Len(a.segments) # Len(b.segments) => a.wildcard \/ b.wildcard
  /\ \A i \in DOMAIN a.segments \cap DOMAIN b.segments :
       \/ a.segments[i] \in Params
       \/ b.segments[i] \in Params
       \/ a.segments[i] = b.segments[i]

Overlaps(a, b) ==
  /\ ScopesOverlap(a.hosts, b.hosts)
  /\ ScopesOverlap(a.methods, b.methods)
  /\ Len(a.segments) # Len(b.segments) => a.wildcard \/ b.wildcard
  /\ \A i \in DOMAIN a.segments \cap DOMAIN b.segments :
       \/ a.segments[i] \in Params
       \/ b.segments[i] \in Params
       \/ a.segments[i] = b.segments[i]

Ambiguous(doc) ==
  \E i, j \in DOMAIN doc :
    /\ i # j
    /\ Compiled(doc[i]).score = Compiled(doc[j]).score
    /\ Overlaps(Compiled(doc[i]), Compiled(doc[j]))

\* Compile succeeds.
Compiles(doc) ==
  /\ \A i \in DOMAIN doc : WellFormed(doc[i])
  /\ ~Ambiguous(doc)

-----------------------------------------------------------------------------
(* Match.                                                                  *)

\* The path up to "?" or "#".
Cut(path) ==
  LET marks == {i \in DOMAIN path : path[i] = Query} IN
  IF marks = {} THEN path
  ELSE SubSeq(path, 1, (CHOOSE i \in marks : \A j \in marks : i <= j) - 1)

\* Mutant: what stands between two slashes counts, also when it is nothing.
SplitAtSlashes(path) == Cut(path)

SplitPath(path) == NonBlanks(Cut(path))

\* matchSegments.
Fits(c, parts) ==
  /\ IF c.wildcard THEN Len(parts) >= Len(c.segments)
     ELSE Len(parts) = Len(c.segments)
  /\ \A i \in DOMAIN c.segments :
       c.segments[i] \in Params \/ c.segments[i] = parts[i]

InScope(scope, value) == scope = {} \/ value \in scope

Matches(rule, r) ==
  LET c == Compiled(rule) IN
  /\ InScope(c.hosts, Lower[Bare[r.host]])
  /\ InScope(c.methods, Upper[r.method])
  /\ Fits(c, SplitPath(r.path))

Matching(doc, r) == {i \in DOMAIN doc : Matches(doc[i], r)}

\* Mutant: the table is not sorted, the first rule of the document wins.
InFileOrder(doc, i, j) == i <= j

\* The order of the table: by score, then by place in the document.
Precedes(doc, i, j) ==
  LET a == Compiled(doc[i]).score
      b == Compiled(doc[j]).score
  IN a > b \/ (a = b /\ i <= j)

\* The index of the rule that decides, None for no match.
Match(doc, r) ==
  LET matching == Matching(doc, r) IN
  IF matching = {} THEN None
  ELSE CHOOSE i \in matching : \A j \in matching : Precedes(doc, i, j)

\* The path parameters; of two with one name the last counts.
Bindings(rule, r) ==
  LET segments == Body(rule.path)
      At(p) == {i \in DOMAIN segments : segments[i] = p}
  IN [p \in {p \in Params : At(p) # {}} |->
        SplitPath(r.path)[CHOOSE i \in At(p) : \A j \in At(p) : i >= j]]

-----------------------------------------------------------------------------
(* What arrives.                                                           *)

Parts    == UNION {[1..n -> Literals] : n \in 0..MaxParts}
Portless == {h \in Hosts : Bare[h] = h}

\* Nothing that rules can be told apart by fails to arrive.
ASSUME RequestsAssumption ==
  /\ MaxParts \in Nat
  /\ {Lower[h] : h \in Portless} \X {Upper[m] : m \in Methods} \X Parts
       \subseteq {<<Lower[Bare[r.host]], Upper[r.method], SplitPath(r.path)>> :
                     r \in Requests}

\* The hosts of a rule have no port, and there is a host, a method and a word
\* that the document does not mention.  Match cuts off a request's port but
\* compileRule not a rule's, so that no request is for a host with one.
ASSUME RulesAssumption ==
  \A doc \in Documents :
    /\ \A i \in DOMAIN doc :
         /\ doc[i].hosts \subseteq Portless
         /\ LET c == Compiled(doc[i]) IN
            WellFormed(doc[i]) =>
              /\ Len(c.segments) <= MaxParts
              /\ c.wildcard => Len(c.segments) < MaxParts
    /\ \E h \in Portless : \A i \in DOMAIN doc :
         Lower[h] \notin Compiled(doc[i]).hosts
    /\ \E m \in Methods : \A i \in DOMAIN doc :
         Upper[m] \notin Compiled(doc[i]).methods
    /\ \E w \in Literals : \A i \in DOMAIN doc :
         w \notin Range(Compiled(doc[i]).segments)

-----------------------------------------------------------------------------
Init ==
  /\ document \in Documents
  /\ status = "loading"

Compile ==
  /\ status = "loading"
  /\ status' = IF Compiles(document) THEN "serving" ELSE "refused"
  /\ UNCHANGED document

\* Another document takes the place of this one.
Load(doc) ==
  /\ status # "loading"
  /\ document' = doc
  /\ status' = "loading"

Next == Compile \/ \E doc \in Documents : Load(doc)

Spec == Init /\ [][Next]_vars

-----------------------------------------------------------------------------
(* Properties.                                                             *)

Serving == status = "serving"

\* A document is one of those there are, and what a served one finds for a
\* request is a rule with a segment, and never a blank one, for each of its
\* parameters: the id of a resource is never the empty string.
RoutesTypeOK ==
  /\ document \in Documents
  /\ status \in {"loading", "serving", "refused"}
  /\ Serving => \A r \in Requests :
       LET i == Match(document, r) IN
       i # None =>
         /\ i \in DOMAIN document
         /\ \A p \in DOMAIN Bindings(document[i], r) :
              Bindings(document[i], r)[p] \in Literals

Reorderings == {p \in [DOMAIN document -> DOMAIN document] : IsInjective(p)}

\* The order in which a document lists its rules decides nothing: however it
\* is reordered it is served, and every request finds the same rule (Compile,
\* Match; "by explicit specificity rather than file order").
FileOrderIsIrrelevant ==
  Serving => \A p \in Reorderings :
    LET reordered == [i \in DOMAIN document |-> document[p[i]]] IN
    /\ Compiles(reordered)
    /\ \A r \in Requests :
         LET i == Match(document, r)
             j == Match(reordered, r)
         IN IF i = None THEN j = None ELSE reordered[j] = document[i]

\* Nothing is refused that could be served: a refused document has a segment
\* that cannot be read, or two rules of equal specificity and a request that
\* both match (checkAmbiguity, overlaps).
RefusalsAreJustified ==
  status = "refused" =>
    \/ \E i \in DOMAIN document : ~WellFormed(document[i])
    \/ \E i, j \in DOMAIN document, r \in Requests :
         /\ i # j
         /\ Score(document[i]) = Score(document[j])
         /\ {i, j} \subseteq Matching(document, r)

MatchedBy(rule) == {r \in Requests : Matches(rule, r)}

\* A rule made for some of the requests of another decides those requests: no
\* request for a lock falls through to the rule for devices in general,
\* whichever way of being narrower it is, by host, method, literal, length or
\* the lack of a wildcard (compileRule's score, Match).
NarrowerRuleDecides ==
  Serving => \A i, j \in DOMAIN document :
    i # j /\ MatchedBy(document[i]) \subseteq MatchedBy(document[j]) =>
      \A r \in MatchedBy(document[i]) : Match(document, r) # j
=============================================================================
