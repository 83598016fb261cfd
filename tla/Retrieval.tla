------------------------------ MODULE Retrieval ------------------------------
(***************************************************************************)
(* What a recall makes of what its searches found: who may see a row       *)
(* (memory/vectorstore.py, memory/retrieval.py), the fusion of vector and  *)
(* keyword hits (memory/hybrid.py), the two rankings (SecureRetrieval and  *)
(* the facade) and the packs built on them (memory/context_assembler.py,   *)
(* memory/think.py).                                                       *)
(*                                                                         *)
(* Every search is a statement of its own and may fail alone; what is made *)
(* of the lists they returned is a function of them.  A hit is a record:   *)
(* id, pillar, the row's scope, ref, visibility and whether memory_shares  *)
(* lists it, importance (0 or 1), age in days, tagged for the repository   *)
(* asked for, cost in tokens, and score: an integer, in units of 1 / Whole *)
(* (the code's floats are finer than any list needs).  A list is filtered  *)
(* and sorted by the ranks of its positions, which can be reasoned about   *)
(* where SelectSeq and SortSeq cannot.                                     *)
(***************************************************************************)
EXTENDS Naturals, FiniteSets, Sequences

CONSTANTS
  NoOne,      \* the None of a scope, a reference, an id or a score
  Readers,    \* principals: type, id, teams and the projects of these
  Others,     \* hits of the other durable pillars
  Turns,      \* the last turns of the caller's open session, as hits
  Edges,      \* memory_graph_edges: <<subject, object>>
  OpenFiles,  \* the entities plan_queries takes from the names of open files
  Whole,      \* a score of 1
  Scopes,     \* bound: the sets of pillars asked for, {} being the default
  Failures,   \* bound: the sets of searches that fail together
  Limits,     \* bound: how many records are asked for
  Budgets     \* bound: how many tokens a pack may have

Pillars == {"semantic", "episodic", "procedural", "skill", "strategic", "work"}
RRF_K == 60

Fields == {"id", "pillar", "scope", "ref", "visibility", "listed", "importance", "age",
           "tagged", "cost", "score"}

(* share sets the flag and inserts the row of memory_shares at once.       *)
IsHit(r) ==
  /\ r = [f \in Fields |-> r[f]]
  /\ {r.importance, r.age, r.cost} \subseteq Nat /\ r.score \in Nat \cup {NoOne}
  /\ r.listed \in BOOLEAN /\ (r.listed => r.visibility = "shared")

(* Only memory_items has scopes.  The tools take a k of 1 to 50: of more   *)
(* than RRF_K + 1 ranks two could share less than one.  A unit tells the   *)
(* shares of k ranks apart, as the code's floats do.                       *)
ASSUME HitsAreTyped ==
  /\ IsFiniteSet(Others) /\ IsFiniteSet(Edges) /\ Turns \in Seq({Turns[n] : n \in DOMAIN Turns})
  /\ \A r \in Others \cup {Turns[n] : n \in DOMAIN Turns} : IsHit(r) /\ r.scope = NoOne
ASSUME UnitIsFine ==
  /\ Whole \in Nat /\ Budgets \subseteq Nat /\ Limits \subseteq 1..(RRF_K + 1)
  /\ \A k \in Limits : Whole >= (RRF_K + k) * (RRF_K + k + 1)

----------------------------------------------------------------------------
(* A sort and a filter, by positions: the higher key first, ties as they   *)
(* were; how many positions of where come before n or are it.              *)
NotAfter(key, m, n) == key[m] > key[n] \/ (key[m] = key[n] /\ m <= n)
Rank(where, key, n) == Cardinality({m \in where : NotAfter(key, m, n)})

Order(where, key) ==
  [k \in 1..Cardinality(where) |-> CHOOSE n \in where : Rank(where, key, n) = k]

Arranged(records, where, key) ==
  [k \in 1..Cardinality(where) |-> records[Order(where, key)[k]]]

Ranked(records, key) == Arranged(records, DOMAIN records, key)
Chosen(records, where) == Arranged(records, where, [n \in where |-> 0])

Take(records, k) == SubSeq(records, 1, IF Len(records) < k THEN Len(records) ELSE k)
Ids(records) == {records[n].id : n \in DOMAIN records}
Place(records, id) == CHOOSE n \in DOMAIN records : records[n].id = id

----------------------------------------------------------------------------
(* Who may see a row: an agent has no teams.                               *)
ScopeFilter(p) ==
  [user |-> IF p.type = "user" THEN p.id ELSE NoOne,
   agent |-> IF p.type = "agent" THEN p.id ELSE NoOne,
   teams |-> IF p.type = "user" THEN p.teams ELSE {},
   projects |-> IF p.type = "user" THEN p.projects ELSE {}]

Reaches(f, r) ==
  \/ r.scope = "org" \/ r.visibility = "shared"
  \/ r.scope = "user" /\ f.user # NoOne /\ r.ref = f.user
  \/ r.scope = "agent" /\ f.agent # NoOne /\ r.ref = f.agent
  \/ r.scope = "team" /\ r.ref \in f.teams
  \/ r.scope = "project" /\ r.ref \in f.projects

(* share: the flag and the row of memory_shares in one transaction.        *)
Shared(r) == [r EXCEPT !.visibility = "shared", !.listed = TRUE]

Where(f, r) == Reaches(f, r) \/ r.listed

(* Mutant: the check after the ranking forgets what was shared.            *)
BugOwnScopes(records, f) ==
  Chosen(records, {n \in DOMAIN records :
                     \/ records[n].scope = NoOne
                     \/ Reaches(f, [records[n] EXCEPT !.visibility = "private"])})

(* The recheck passes what has no scope, and drops a row out of reach.     *)
Recheck(records, f) ==
  Chosen(records, {n \in DOMAIN records : records[n].scope = NoOne \/ Reaches(f, records[n])})

----------------------------------------------------------------------------
Share(rank) == Whole \div (RRF_K + rank)
ShareIn(records, id) == IF id \in Ids(records) THEN Share(Place(records, id)) ELSE 0

(* reciprocal_rank_fusion of the vector and the keyword hits, each in the  *)
(* order they were first seen until they are sorted.                       *)
FusedScore(vec, kw, id) == ShareIn(vec, id) + ShareIn(kw, id)
FirstSeen(vec, kw) == vec \o Chosen(kw, {n \in DOMAIN kw : kw[n].id \notin Ids(vec)})

Fused(vec, kw) ==
  LET seen == FirstSeen(vec, kw)
      merged == Ranked(seen, [n \in DOMAIN seen |-> FusedScore(vec, kw, seen[n].id)])
  IN [n \in DOMAIN merged |->
        [merged[n] EXCEPT !.score = FusedScore(vec, kw, merged[n].id)]]

(* The other pillars come with ts_rank scores, which are replaced.         *)
Normalized(records) == [n \in DOMAIN records |-> [records[n] EXCEPT !.score = Share(n)]]

----------------------------------------------------------------------------
(* Weights in hundredths; the boost of a tagged record is 1.3; a record    *)
(* without a score counts a half.  _rerank sorts by the score and cuts.    *)
Weight(pillar) ==
  CASE pillar = "semantic" -> 100 [] pillar = "strategic" -> 95 [] pillar = "work" -> 92
    [] pillar = "episodic" -> 90 [] pillar = "skill" -> 88 [] pillar = "procedural" -> 85
    [] pillar = "working" -> 70
    [] OTHER -> 50

Bonus(r) ==
  (IF r.pillar = "episodic" THEN (Whole * 200) \div (1 + r.age) ELSE 0) + Whole * 100 * r.importance

Base(r) == IF r.score = NoOne THEN Whole \div 2 ELSE r.score
Score(r) == Base(r) * Weight(r.pillar) * 10 + Bonus(r)
Boosted(r) == IF r.tagged THEN Base(r) * Weight(r.pillar) * 13 + Bonus(r) ELSE Score(r)

Rerank(records, k) == Take(Ranked(records, [n \in DOMAIN records |-> Score(records[n])]), k)
RerankBoosted(records, k) ==
  Take(Ranked(records, [n \in DOMAIN records |-> Boosted(records[n])]), k)

(* A question is a record: the reader's filter, what each search would     *)
(* return, best first, before its own cut (vec and kw of memory_items,     *)
(* others of the other pillars), and which of them fail.                   *)
(*                                                                         *)
(* SecureRetrieval.search: the pillars one after the other; one that fails *)
(* is reported and leaves nothing, semantic and episodic counting as one.  *)
FromMemories(q, scopes, k) ==
  LET Seen(hits) == {n \in DOMAIN hits : Where(q.reader, hits[n]) /\ hits[n].pillar \in scopes}
  IN IF "memories" \in q.failed THEN <<>>
     ELSE Fused(Take(Chosen(q.vec, Seen(q.vec)), k), Take(Chosen(q.kw, Seen(q.kw)), k))

OfPillar(records, p) == Chosen(records, {n \in DOMAIN records : records[n].pillar = p})

FromPillar(q, p, scopes, k) ==
  IF p \in q.failed \/ p \notin scopes THEN <<>> ELSE Normalized(Take(OfPillar(q.others, p), k))

Gathered(q, scopes, k) ==
  FromMemories(q, scopes, k) \o FromPillar(q, "procedural", scopes, k)
    \o FromPillar(q, "skill", scopes, k) \o FromPillar(q, "strategic", scopes, k)
    \o FromPillar(q, "work", scopes, k)

SecureSearch(q, scopes, k) == Recheck(Rerank(Gathered(q, scopes, k), k), q.reader)

(* MemoryFacade.recall: the turns join if they are asked for, and the      *)
(* ranking boosts what is tagged for the repository, if one is given.      *)
RecentTurns(q, scopes, k) ==
  IF "working" \in q.failed \/ "working" \notin scopes THEN <<>>
  ELSE SubSeq(Turns, IF Len(Turns) > k THEN Len(Turns) - k + 1 ELSE 1, Len(Turns))

Recall(q, scopes, k, boost) ==
  LET records == SecureSearch(q, scopes, k) \o RecentTurns(q, scopes, k)
  IN IF boost THEN RerankBoosted(records, k) ELSE Rerank(records, k)

MemoryRecall(q, scope, k, boost) == Recall(q, IF scope = {} THEN Pillars ELSE scope, k, boost)

(* pack_records: up to the first record that does not fit, and always one. *)
CostOf(records, n) ==
  LET sum[m \in 0..n] == IF m = 0 THEN 0 ELSE sum[m - 1] + records[m].cost
  IN sum[n]

Fits(records, n, budget) == CostOf(records, n) <= budget

Packed(records, budget) ==
  LET Goes(n) == \A m \in 2..n : Fits(records, m, budget)
  IN Take(records, CHOOSE n \in 0..Len(records) :
       Goes(n) /\ \A m \in 0..Len(records) : Goes(m) => m <= n)

(* The entities one edge away, in either direction.  They come each once,  *)
(* in any order and up to a limit; a name whose statement fails has none.  *)
Related(name) ==
  {e[2] : e \in {d \in Edges : d[1] = name}} \cup {e[1] : e \in {d \in Edges : d[2] = name}}

GraphHit(name) ==
  [id |-> name, pillar |-> "semantic", scope |-> NoOne, ref |-> NoOne, visibility |-> "private",
   listed |-> FALSE, importance |-> 0, age |-> 0, tagged |-> FALSE, cost |-> 1, score |-> Whole]

GraphHits == {GraphHit(n) : n \in UNION {Related(name) : name \in OpenFiles}}

(* assemble: the graph's relations come after the recall's records.  think *)
(* answers from what it has packed, also when the model fails.             *)
Candidate(q, graph, k, boost) == Recall(q, Pillars \cup {"working"}, k, boost) \o graph
AssembleContext(q, graph, k, boost, budget) == Packed(Candidate(q, graph, k, boost), budget)

Sources(records, budget) == Packed(records, budget)
Think(q, k, boost, budget) == Sources(Recall(q, Pillars, k, boost), budget)

----------------------------------------------------------------------------
(* What follows is asked of all lists the searches may make of the rows    *)
(* found, of the other pillars and of the graph.                           *)
Lists(found) ==
  UNION {{s \in [1..n -> found] : \A i, j \in 1..n : s[i] = s[j] => i = j} :
           n \in 0..Cardinality(found)}

(* Fusing never turns two hits round that no list orders that way, puts    *)
(* what both searches found before what one of them did, and neither loses *)
(* nor repeats a hit (reciprocal_rank_fusion).                             *)
Ahead(list, a, b) == b \in Ids(list) => a \in Ids(list) /\ Place(list, a) < Place(list, b)

MergesWell(vec, kw) ==
  LET merged == Fused(vec, kw) IN
    /\ Ids(merged) = Ids(vec) \cup Ids(kw) /\ Len(merged) = Cardinality(Ids(merged))
    /\ \A a, b \in Ids(merged) :
         \/ a # b /\ Ahead(vec, a, b) /\ Ahead(kw, a, b)
         \/ a \in Ids(vec) \cap Ids(kw) /\ b \notin Ids(vec) \cap Ids(kw)
         => Place(merged, a) < Place(merged, b)

KeepsOrder(found) ==
  \A vec, kw \in Lists(found), k \in Limits : MergesWell(Take(vec, k), Take(kw, k))

(* The answer is the best of everything the searches that did not fail     *)
(* found and the reader may see, as if ranked once: nothing is lost to the *)
(* cut of the search or to its second permission check, and a boost only   *)
(* reorders what fits ("nothing is hidden", memory_recall).  A pack is its *)
(* beginning, over budget only by a single record (pack_records).          *)
IsPack(pack, records, budget) ==
  LET n == Len(pack) IN
  /\ pack = Take(records, n)
  /\ records # <<>> => n > 0
  /\ n <= 1 \/ Fits(records, n, budget)
  /\ n = Len(records) \/ ~ Fits(records, n + 1, budget)

Questions(found) ==
  [reader : {ScopeFilter(p) : p \in Readers}, vec : Lists(found), kw : Lists(found),
   others : Lists(Others), failed : Failures]

AnswersBest(q, k, scope) ==
  LET all == Gathered(q, IF scope = {} THEN Pillars ELSE scope, k)
               \o RecentTurns(q, IF scope = {} THEN Pillars ELSE scope, k)
      plain == MemoryRecall(q, scope, k, FALSE)
  IN /\ plain = Rerank(all, k)
     /\ Len(all) <= k => Ids(MemoryRecall(q, scope, k, TRUE)) = Ids(plain)

PacksWell(q, k, b) ==
  /\ IsPack(Think(q, k, FALSE, b), MemoryRecall(q, {}, k, FALSE), b)
  /\ \A graph \in Lists(GraphHits) :
       IsPack(AssembleContext(q, graph, k, TRUE, b), Candidate(q, graph, k, TRUE), b)

AnswersTheBest(found) ==
  \A q \in Questions(found), k \in Limits :
    (\A scope \in Scopes : AnswersBest(q, k, scope)) /\ (\A b \in Budgets : PacksWell(q, k, b))
=============================================================================
