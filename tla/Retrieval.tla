------------------------------ MODULE Retrieval ------------------------------
(***************************************************************************)
(* How a question's parents are chosen, from _query_inner of engine.py:    *)
(* each query, the expanded question and its sub-queries, searches twice,  *)
(* the ranks are fused (_rrf_fusion), the texts of the first of them are   *)
(* fetched, and the reranker orders these again, fails, or takes too long. *)
(***************************************************************************)
EXTENDS Naturals, Sequences, FiniteSets, SequencesExt

CONSTANTS Docs,      \* parents of the knowledge base
          Queries,   \* queries a question becomes
          TopK,      \* results of one search
          K,         \* RRF_K
          Input,     \* candidates whose texts are fetched, and
          Output     \* results the reranker returns

VARIABLES left,      \* queries to run
          searched,  \* "dense" or "bm25", the search to run next
          dense, bm25,   \* merged ranks, from 0, of the parents found
          ranked,    \* the candidates
          texts,     \* the parents whose texts were fetched, as they came
          score,     \* what the reranker gave each text, if it did
          answer,    \* the parents whose texts the answer is made from
          at

vars == <<left, searched, dense, bm25, ranked, texts, score, answer, at>>

Init ==
    /\ left = Queries /\ searched = "dense"
    /\ dense = <<>> /\ bm25 = <<>>
    /\ ranked = <<>> /\ texts = <<>> /\ score = <<>> /\ answer = <<>>
    /\ at = "searching"

Found == DOMAIN dense \cup DOMAIN bm25

\* A parent keeps the rank of the first query that found it, and within one
\* its first.
Merged(ranks, list) ==
    [d \in DOMAIN ranks \cup ToSet(list) |->
        IF d \in DOMAIN ranks THEN ranks[d]
        ELSE (CHOOSE i \in DOMAIN list :
                 list[i] = d /\ \A j \in 1 .. i - 1 : list[j] # d) - 1]

\* The parents of the nearest children: a parent is there once for each child.
SearchDense ==
    /\ at = "searching" /\ left > 0 /\ searched = "dense"
    /\ \E n \in 0 .. TopK : \E list \in [1 .. n -> Docs] : dense' = Merged(dense, list)
    /\ searched' = "bm25"
    /\ UNCHANGED <<left, bm25, ranked, texts, score, answer, at>>

\* The parents of the best matches, each once.
SearchBm25 ==
    /\ at = "searching" /\ left > 0 /\ searched = "bm25"
    /\ \E n \in 0 .. TopK : \E list \in [1 .. n -> Docs] :
          IsInjective(list) /\ bm25' = Merged(bm25, list)
    /\ left' = left - 1 /\ searched' = "dense"
    /\ UNCHANGED <<dense, ranked, texts, score, answer, at>>

\* A hypothetical answer makes one more dense search.
HydeRetrieve ==
    /\ at = "searching" /\ left = 0 /\ searched = "dense"
    /\ \E n \in 0 .. TopK : \E list \in [1 .. n -> Docs] : dense' = Merged(dense, list)
    /\ searched' = "bm25"
    /\ UNCHANGED <<left, bm25, ranked, texts, score, answer, at>>

\* 1 / (K + rank), and the sum of two such shares, as fractions.
Share(ranks, d) ==
    IF d \in DOMAIN ranks THEN [over |-> 1, under |-> K + ranks[d]]
    ELSE [over |-> 0, under |-> 1]
Plus(x, y) ==
    [over |-> x.over * y.under + y.over * x.under, under |-> x.under * y.under]
AtLeast(x, y) == x.over * y.under >= y.over * x.under

Fused(d) == Plus(Share(dense, d), Share(bm25, d))

\* Mutant: lowest sum first.
LowestFirst(a, b) == AtLeast(Fused(b), Fused(a))

\* Highest sum first; without any match of BM25, lowest dense rank first.
\* What is equal stays in the order it was found, which is left open.
BestFirst(a, b) == AtLeast(Fused(a), Fused(b))

Fuse ==
    /\ at = "searching" /\ left = 0
    /\ ranked' \in {s \in SetToSeqs(Found) :
                       \A i, j \in DOMAIN s : i < j => BestFirst(s[i], s[j])}
    /\ at' = "fused"
    /\ UNCHANGED <<left, searched, dense, bm25, texts, score, answer>>

First(s, n) == SubSeq(s, 1, IF n < Len(s) THEN n ELSE Len(s))

Candidates == First(ranked, Input)

\* What Chroma's get returns for ids: the parents that are stored, in an order
\* of its own.
Returned(ids) == UNION {SetToSeqs(stored) : stored \in SUBSET ToSet(ids)}

\* The texts are paired with the candidates' ids as they come, so that an id may
\* stand for another parent's text from here on, and the last ids for none.
Fetch ==
    /\ at = "fused" /\ Len(Candidates) > 1
    /\ texts' \in Returned(Candidates) \ {<<>>}
    /\ at' = "fetched"
    /\ UNCHANGED <<left, searched, dense, bm25, ranked, score, answer>>

\* The cross-encoder scores the texts and keeps those it scores highest.
Rerank ==
    /\ at = "fetched"
    /\ score' \in [ToSet(texts) -> 1 .. 2]
    /\ \E s \in SetToSeqs(ToSet(texts)) :
          /\ \A i, j \in DOMAIN s : i < j => score'[s[i]] >= score'[s[j]]
          /\ answer' = First(s, Output)
    /\ at' = "answered"
    /\ UNCHANGED <<left, searched, dense, bm25, ranked, texts>>

\* It has no model, raises, or is not done in five seconds: the first, in the
\* order the texts came.
RerankFails ==
    /\ at = "fetched"
    /\ answer' = First(texts, Output)
    /\ at' = "fallback"
    /\ UNCHANGED <<left, searched, dense, bm25, ranked, texts, score>>

\* Without a reranker, with one candidate or with no text for any: what there
\* is.  (An answer of no parent is made from the children the first query found.)
NotReranked ==
    /\ at = "fused"
    /\ texts' \in Returned(Candidates)
    /\ answer' = texts'
    /\ at' = "answered"
    /\ UNCHANGED <<left, searched, dense, bm25, ranked, score>>

Next ==
    \/ SearchDense \/ SearchBm25 \/ HydeRetrieve \/ Fuse
    \/ Fetch \/ Rerank \/ RerankFails \/ NotReranked

Spec == Init /\ [][Next]_vars

------------------------------------------------------------------------------
RetrievalTypeOK ==
    /\ DOMAIN dense \cup DOMAIN bm25 \subseteq Docs
    /\ ToSet(answer) \subseteq ToSet(texts) /\ ToSet(texts) \subseteq ToSet(ranked)
    /\ at \in {"searching", "fused", "fetched", "answered", "fallback"}

\* b was ranked no lower than a by either search, and higher by one.
Dominates(b, a) ==
    LET NoLower(ranks) == a \in DOMAIN ranks => b \in DOMAIN ranks /\ ranks[b] <= ranks[a]
        Higher(ranks) == b \in DOMAIN ranks /\ (a \in DOMAIN ranks => ranks[b] < ranks[a])
    IN NoLower(dense) /\ NoLower(bm25) /\ (Higher(dense) \/ Higher(bm25))

\* A parent's text is left out for one that both searches ranked lower only
\* after both were candidates: because it is not stored, because the reranker
\* saw the two and preferred the other, or because the reranker failed, when the
\* order of storage decides between candidates.
LeftOutForBetter ==
    at \in {"answered", "fallback"} =>
        \A a \in ToSet(answer), b \in Found \ ToSet(answer) :
            Dominates(b, a) =>
                /\ {a, b} \subseteq ToSet(Candidates)
                /\ \/ b \notin ToSet(texts)
                   \/ {a, b} \subseteq DOMAIN score /\ score[a] >= score[b]
                   \/ at = "fallback"
=============================================================================
