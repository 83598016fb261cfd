------------------------------ MODULE Recalls ------------------------------
(***************************************************************************)
(* What a recall answers: the rows that a search of MemoryItems has found, *)
(* among those of other stores, ranked and packed by Retrieval             *)
(* (memory/facade.py).                                                     *)
(***************************************************************************)
EXTENDS MemoryItems, Retrieval

CONSTANT HitOf   \* the rows as hits, by item

ASSUME RowsAreHits ==
  /\ IsFiniteSet(Items) /\ DOMAIN HitOf = Items
  /\ \A i \in Items : IsHit(HitOf[i])
  /\ \A i, j \in Items : HitOf[i].id = HitOf[j].id => i = j

(* Whether the operators treat the hits of each set of rows well.          *)
Best ==
  {<<rows, KeepsOrder({HitOf[i] : i \in rows}) /\ AnswersTheBest({HitOf[i] : i \in rows})>> :
     rows \in SUBSET Items}

(* Whatever rows a search has found, fusing its two lists turns no two     *)
(* hits round that no list orders that way, puts what both found before    *)
(* what one did, and neither loses nor repeats one                         *)
(* (reciprocal_rank_fusion); and whichever other searches failed, the      *)
(* answer is the best of everything found that the reader may see, as if   *)
(* ranked once, and a pack is its beginning (_rerank, _recheck_scope,      *)
(* pack_records).                                                          *)
AnswerIsBest == \A c \in Calls : At(c, "done") => <<call[c].found, TRUE>> \in Best
=============================================================================
