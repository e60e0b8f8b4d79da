---------------------------- MODULE AnswerProofs ----------------------------
(***************************************************************************)
(* Theorems about what an address is answered with, for every gazetteer    *)
(* and every text.  Contextual recovery never lowers the best score, and   *)
(* takes the nearest name of the neighborhood for a misspelt one.  And an  *)
(* address that is read as the names of a subdistrict and its uppers is    *)
(* that subdistrict, or AMBIGUOUS: what is extracted is followed through   *)
(* the stages, none of which changes it, and the place that is meant then  *)
(* has a score that no other place beats by enough to be VALID.            *)
(***************************************************************************)
EXTENDS PipelineProofs

\* The score of a location does not fall when misspelt names are added to the
\* evidence and words stop counting as unused.
LEMMA ScoreGrows ==
  ASSUME NEW res, NEW new, IsSequence(res), IsSequence(new),
         \A k \in DOMAIN new : new[k].type = "place_name" /\ new[k].fuzzy = TRUE,
         NEW c, NEW used
  PROVE  ScoreOf(c, res \o new, used) >= ScoreOf(c, res, {})
<1> DEFINE r == res \o new
<1>1. /\ IsSequence(r)
      /\ DOMAIN res \subseteq DOMAIN r
      /\ \A i \in DOMAIN res : r[i] = res[i]
      /\ \A i \in DOMAIN r \ DOMAIN res : r[i].type = "place_name" /\ r[i].fuzzy = TRUE
  <2>1. IsSequence(r)
    BY JoinIsSequence
  <2> QED
    BY <2>1, JoinedParts
<1> HIDE DEF r
<1>2. Matched(c, res) \subseteq Matched(c, r)
  BY <1>1 DEF Matched
<1>3. \A m \in Matched(c, r) : m[1] \in DOMAIN r
  BY DEF Matched
<1>4. MatchedEntities(c, res) \subseteq MatchedEntities(c, r)
  BY <1>2 DEF MatchedEntities
<1>5. Unused(c, r, used) \in Nat /\ Unused(c, res, {}) \in Nat /\ Unused(c, r, used) <= Unused(c, res, {})
  <2> DEFINE U == {i \in DOMAIN r : ~r[i].fuzzy /\ r[i].value[1] \notin used
                                      /\ r[i].value \notin UsedValues(c, r)}
             V == {i \in DOMAIN res : ~res[i].fuzzy /\ res[i].value[1] \notin {}
                                      /\ res[i].value \notin UsedValues(c, res)}
  <2>1. UsedValues(c, res) \subseteq UsedValues(c, r)
    <3>1. \A m \in Matched(c, res) : m[1] \in DOMAIN res
      BY DEF Matched
    <3> QED
      BY <1>1, <1>2, <3>1 DEF UsedValues
  <2>2. U \subseteq V
    BY <1>1, <2>1
  <2>3. IsFiniteSet(V)
    BY DomainIsFinite, FS_Subset
  <2>4. Cardinality(U) <= Cardinality(V) /\ IsFiniteSet(U)
    BY <2>2, <2>3, FS_Subset
  <2>5. Cardinality(U) \in Nat /\ Cardinality(V) \in Nat
    BY <2>3, <2>4, FS_CardinalityType
  <2> QED
    BY <2>4, <2>5 DEF Unused
<1>6. PrefixBonus(c, r) = PrefixBonus(c, res) /\ PrefixBonus(c, r) \in Int
  <2> DEFINE Coded(q) == {n \in Matched(c, q) : q[n[1]].type = "postal_code"}
             Codes(q) == {q[m[1]].value[1] : m \in Coded(q)}
  <2>1. Coded(r) = Coded(res)
    <3>1. ASSUME NEW n \in Coded(r) PROVE n \in Coded(res)
      <4>1. n \in Matched(c, r) /\ r[n[1]].type = "postal_code" /\ n[1] \in DOMAIN r
        BY <1>3
      <4>2. n[1] \in DOMAIN res
        BY <1>1, <4>1
      <4> QED
        BY <1>1, <4>1, <4>2 DEF Matched
    <3>2. ASSUME NEW n \in Coded(res) PROVE n \in Coded(r)
      <4>1. n[1] \in DOMAIN res
        BY DEF Matched
      <4> QED
        BY <1>1, <1>2, <4>1
    <3> QED
      BY <3>1, <3>2
  <2>2. \A n \in Coded(res) : r[n[1]] = res[n[1]]
    BY <1>1 DEF Matched
  <2>3. Codes(r) = Codes(res)
    <3> HIDE DEF Coded
    <3> QED
      BY <2>1, <2>2
  <2>4. PrefixBonus(c, r) = PrefixBonus(c, res)
    BY <2>3 DEF PrefixBonus
  <2>5. PrefixBonus(c, r) \in Int
    BY DEF PrefixBonus
  <2> QED
    BY <2>4, <2>5
<1>7. /\ OverLevels(LevelWeight, {LevelOf(e) : e \in MatchedEntities(c, res)}) \in Nat
      /\ OverLevels(LevelWeight, {LevelOf(e) : e \in MatchedEntities(c, r)}) \in Nat
      /\ OverLevels(LevelWeight, {LevelOf(e) : e \in MatchedEntities(c, res)})
           <= OverLevels(LevelWeight, {LevelOf(e) : e \in MatchedEntities(c, r)})
  <2>1. {LevelOf(e) : e \in MatchedEntities(c, res)} \subseteq {LevelOf(e) : e \in MatchedEntities(c, r)}
    BY <1>4
  <2> QED
    BY <2>1, MoreLevelsWeighMore
<1>8. MultiBonus(c, res) \in Nat /\ MultiBonus(c, r) \in Nat /\ MultiBonus(c, res) <= MultiBonus(c, r)
  <2> DEFINE Twice(q) == {e \in MatchedEntities(c, q) :
                            \E i, j \in DOMAIN q : i # j /\ e \in q[i].found /\ e \in q[j].found}
             L(q) == {LevelOf(e) : e \in Twice(q)}
  <2>1. Twice(res) \subseteq Twice(r)
    BY <1>1, <1>4
  <2>2. L(res) \subseteq L(r)
    BY <2>1
  <2>3. /\ MultiBonus(c, res) = Capped(OverLevels(MultiWeight, L(res)), 40)
        /\ MultiBonus(c, r) = Capped(OverLevels(MultiWeight, L(r)), 40)
    BY DEF MultiBonus
  <2> HIDE DEF L
  <2>4. /\ OverLevels(MultiWeight, L(res)) \in Nat /\ OverLevels(MultiWeight, L(r)) \in Nat
        /\ OverLevels(MultiWeight, L(res)) <= OverLevels(MultiWeight, L(r))
    BY <2>2, MoreLevelsWeighMore
  <2> QED
    BY <2>3, <2>4 DEF Capped
<1>9. Matched(c, res) # {} => Matched(c, r) # {}
  BY <1>2
<1>10. ASSUME NEW u \in Nat, NEW v \in Nat, u <= v
       PROVE  Score(c, r, u) >= Score(c, res, v)
  BY <1>6, <1>7, <1>8, <1>9, <1>10 DEF Score, Capped
<1>11. ScoreOf(c, r, used) >= ScoreOf(c, res, {})
  BY <1>5, <1>10 DEF ScoreOf
<1> QED
  BY <1>11 DEF r

-----------------------------------------------------------------------------
\* What recovery starts from: the candidates are those of the evidence.
Unrecovered == stage = "recover" => cands = Candidates(resolved)

\* Build leaves it so.
LEMMA UnrecoveredHolds == Spec => []Unrecovered
<1>1. Init => Unrecovered
  BY DEF Init, Unrecovered
<1>2. Unrecovered /\ [Next]_vars => Unrecovered'
  <2> SUFFICES ASSUME Unrecovered, [Next]_vars PROVE Unrecovered'
    OBVIOUS
  <2>1. CASE Refuse \/ Fail \/ Clean \/ Resolve \/ Prioritize \/ CompactFallback \/ Recover \/ Rank \/ PostalFallback
    BY <2>1 DEF Refuse, Fail, Clean, Resolve, Prioritize, CompactFallback, Recover, Rank, PostalFallback, Unrecovered
  <2>2. CASE Build
    BY <2>2 DEF Build, Unrecovered
  <2>3. CASE Done \/ UNCHANGED vars
    <3>1. UNCHANGED <<stage, resolved, cands>>
      BY <2>3 DEF Done, vars
    <3> QED
      BY <3>1 DEF Unrecovered
  <2> QED
    BY <2>1, <2>2, <2>3 DEF Next
<1> QED
  BY <1>1, <1>2, PTL DEF Spec

\* For every gazetteer: contextual recovery keeps every candidate and never
\* lowers the best score (validate_v1.go:52-61, evaluate.go).
THEOREM RecoveryHelps == Spec => RecoveryNeverHurts
<1>1. ASSUME PipelineInv, TypeInv, Unrecovered, Next, stage = "recover", cands # {}
      PROVE  cands' # {} /\ Best' >= Best
  <2>1. Recover
    BY <1>1 DEF Next, Refuse, Fail, Clean, Resolve, Prioritize, CompactFallback, Build, Rank, PostalFallback, Done
  <2> DEFINE new == Recovered(cands, resolved).new
             words == Recovered(cands, resolved).words
  <2>2. /\ resolved' = resolved \o new /\ explained' = words
        /\ cands' = IF new = <<>> THEN cands ELSE Candidates(resolved')
    BY <2>1 DEF Recover, Extend
  <2>3. /\ IsSequence(resolved) /\ IsSequence(new)
        /\ \A k \in DOMAIN new : new[k].type = "place_name" /\ new[k].fuzzy = TRUE
    <3>1. IsSequence(text.words) /\ IsSequence(resolved)
      BY <1>1 DEF PipelineInv
    <3>2. IsSequence(new)
      BY <3>1, RecoveredType
    <3>3. ASSUME NEW k \in DOMAIN new PROVE new[k].type = "place_name" /\ new[k].fuzzy = TRUE
      <4>1. /\ DOMAIN new[k] = {"type", "value", "found", "fuzzy"}
            /\ new[k].type = "place_name" /\ new[k].fuzzy = TRUE
            /\ \E s \in ShortSpans(text.words) :
                 new[k].value = Words(text.words, s) /\ new[k].found \subseteq Foundable(s, cands, resolved)
        BY <3>1, WhatRecoveryFinds
      <4> QED
        BY <4>1
    <3> HIDE DEF new
    <3> QED
      BY <3>1, <3>2, <3>3
  <2> HIDE DEF new, words
  <2>4. cands \subseteq cands'
    <3>1. CASE new = <<>>
      BY <2>2, <3>1
    <3>2. CASE new # <<>>
      <4>1. DOMAIN resolved \subseteq DOMAIN resolved' /\ \A i \in DOMAIN resolved : resolved'[i] = resolved[i]
        BY <2>2, <2>3, JoinedParts
      <4>2. Discovered(resolved) \subseteq Discovered(resolved')
        BY <4>1 DEF Discovered
      <4>3. cands = Candidates(resolved) /\ cands' = Candidates(resolved')
        BY <1>1, <2>2, <3>2 DEF Unrecovered
      <4> QED
        BY <4>2, <4>3 DEF Candidates
    <3> QED
      BY <3>1, <3>2
  <2> DEFINE S == {ScoreOf(c, resolved, explained) : c \in cands}
             T == {ScoreOf(c, resolved', explained') : c \in cands'}
  <2>5. Best = Max(S) /\ Best' = Max(T)
    BY DEF Best
  <2>6. explained = {} /\ IsSequence(resolved')
    BY <1>1, <2>2, <2>3, JoinIsSequence DEF TypeInv
  <2>7. Max(S) \in S /\ \A x \in S : x <= Max(S)
    <3>1. S \subseteq Int /\ \A x \in S : x <= 100
      BY <2>3, ScoreType
    <3>2. S # {}
      BY <1>1
    <3>3. S \in SUBSET Int /\ 100 \in Int
      BY <3>1
    <3> HIDE DEF S
    <3> QED
      BY <3>1, <3>2, <3>3, BoundedHasMax
  <2>8. Max(T) \in T /\ Max(T) \in Int /\ \A x \in T : x <= Max(T)
    <3>1. T \subseteq Int /\ \A x \in T : x <= 100
      BY <2>6, ScoreType
    <3>2. T # {}
      BY <1>1, <2>4
    <3>3. T \in SUBSET Int /\ 100 \in Int
      BY <3>1
    <3> HIDE DEF T
    <3> QED
      BY <3>1, <3>2, <3>3, BoundedHasMax
  <2>9. PICK c \in cands : Max(S) = ScoreOf(c, resolved, explained)
    BY <2>7
  <2>10. ScoreOf(c, resolved', explained') >= ScoreOf(c, resolved, explained)
    BY <2>2, <2>3, <2>6, ScoreGrows
  <2>11. ScoreOf(c, resolved', explained') \in T
    BY <2>4
  <2>12. ScoreOf(c, resolved', explained') \in Int /\ ScoreOf(c, resolved, explained) \in Int
    BY <2>3, <2>6, ScoreType
  <2> HIDE DEF S, T
  <2>13. Best' >= Best
    BY <2>5, <2>8, <2>9, <2>10, <2>11, <2>12
  <2> QED
    BY <1>1, <2>4, <2>13
<1>2. PipelineInv /\ TypeInv /\ Unrecovered /\ [Next]_vars =>
        [stage = "recover" /\ cands # {} => cands' # {} /\ Best' >= Best]_vars
  BY <1>1
<1> QED
  BY <1>2, PipelineInvHolds, TypeInvHolds, UnrecoveredHolds, PTL DEF Spec, RecoveryNeverHurts

-----------------------------------------------------------------------------
\* What a similarity in millionths says of the edits between two words.
Million == 1000000

\* It is the share of letters that need no edit, rounded down.
LEMMA SimilarityMeans ==
  ASSUME NEW a, NEW b, Len(a) \in Nat \ {0}, Len(a) <= 1000, Len(b) \in Nat \ {0}, Len(b) <= 1000
  PROVE  LET of == Max({Len(a), Len(b)})
             by == damerauSimilarity(a, b)
         IN  /\ of \in Nat \ {0} /\ of <= 1000 /\ Edits(a, b) \in Nat /\ by \in Int
             /\ by * of <= Million * (of - Edits(a, b))
             /\ Million * (of - Edits(a, b)) < (by + 1) * of
<1> DEFINE of == Max({Len(a), Len(b)})
           by == damerauSimilarity(a, b)
           edits == Edits(a, b)
           share == Million * (of - edits)
<1>1. of \in Nat \ {0} /\ of <= 1000
  <2>1. of \in {Len(a), Len(b)}
    BY MaxOfTwo
  <2> HIDE DEF of
  <2> QED
    BY <2>1
<1>2. edits \in Nat /\ damerauLevenshtein(a, b) = edits
  <2>1. Len(a) \in Nat /\ Len(b) \in Nat
    OBVIOUS
  <2>2. damerauLevenshtein(a, b) = edits /\ edits \in 0..Len(a) + Len(b)
    BY <2>1, DistanceIsTheLeastNumberOfEdits
  <2> QED
    BY <2>1, <2>2
<1>3. by = share \div of
  <2>1. of # 0
    BY <1>1
  <2> HIDE DEF of, edits
  <2> QED
    BY <1>2, <2>1, SMT DEF damerauSimilarity, of, Million
<1> HIDE DEF of, by, edits
<1>4. share \in Int
  <2>1. Million \in Int
    BY SMT DEF Million
  <2> QED
    BY <1>1, <1>2, <2>1
<1> HIDE DEF share
<1>5. by \in Int /\ by * of <= share /\ share < (by + 1) * of
  BY <1>1, <1>3, <1>4
<1> QED
  BY <1>1, <1>2, <1>5 DEF of, by, edits, share

\* When rounding keeps similarities apart, the greater one is that of the nearer
\* word.
LEMMA MoreSimilarIsNearer ==
  ASSUME NEW scale \in Nat, NEW m \in Nat \ {0}, NEW n \in Nat, NEW c \in Nat, NEW d \in Nat, NEW p \in Int, NEW q \in Int,
         m * n <= scale, p * m <= scale * (m - c), scale * (n - d) < (q + 1) * n, q <= p
  PROVE  c * n <= d * m
<1> DEFINE mn == m * n
           u == c * n
           v == d * m
           pmn == p * mn
           su == scale * u
           sv == scale * v
           smn == scale * mn
<1>1. mn \in Nat /\ u \in Nat /\ v \in Nat /\ pmn \in Int /\ su \in Nat /\ sv \in Nat /\ smn \in Nat
  OBVIOUS
<1>2. pmn <= smn - su
  <2>1. (p * m) * n <= (scale * (m - c)) * n
    OBVIOUS
  <2>2. (p * m) * n = pmn /\ (scale * (m - c)) * n = smn - su
    OBVIOUS
  <2> QED
    BY <2>1, <2>2
<1>3. smn - sv < pmn + mn
  <2> DEFINE x == scale * (n - d)
             y == (q + 1) * n
  <2>1. x * m < y * m
    <3>1. x \in Int /\ y \in Int /\ x < y
      OBVIOUS
    <3> HIDE DEF x, y
    <3> QED
      BY <3>1
  <2>2. x * m = smn - sv
    OBVIOUS
  <2>3. y * m = (q + 1) * mn /\ (p + 1) * mn = pmn + mn
    OBVIOUS
  <2>4. (q + 1) * mn <= (p + 1) * mn
    <3>1. q + 1 <= p + 1 /\ q + 1 \in Int /\ p + 1 \in Int /\ mn \in Nat
      BY <1>1
    <3> HIDE DEF mn
    <3> QED
      BY <3>1
  <2>5. x * m \in Int /\ y * m \in Int /\ (q + 1) * mn \in Int
    OBVIOUS
  <2> HIDE DEF x, y, mn, smn, sv, pmn
  <2> QED
    BY <1>1, <2>1, <2>2, <2>3, <2>4, <2>5
<1> HIDE DEF mn, u, v, pmn
<1>4. u <= v
  <2>1. mn <= scale
    BY DEF mn
  <2> SUFFICES ASSUME u >= v + 1 PROVE FALSE
    BY <1>1
  <2>2. su >= sv + scale
    <3>1. scale * u >= scale * (v + 1) /\ scale * (v + 1) = scale * v + scale
      BY <1>1
    <3> QED
      BY <1>1, <3>1
  <2> HIDE DEF su, sv, smn
  <2> QED
    BY <1>1, <1>2, <1>3, <2>1, <2>2
<1> QED
  BY <1>4 DEF u, v

\* A misspelt name that recovery takes is within a fifth of its letters of a name
\* of every entity it stands for, and no name of the neighborhood is nearer.
LEMMA WhatMatchesIsNearest ==
  ASSUME NEW span, NEW around \in SUBSET Ids, NEW e \in BestSpanMatch(span, around)
  PROVE  \E x \in Nearest(Away(Compact(span), UNION {KeysOf[d] : d \in around})) :
           x.key \in KeysOf[e] /\ 5 * x.edits <= x.of
<1> DEFINE word == Compact(span)
           keys == UNION {KeysOf[d] : d \in around}
           near == {m \in SimilarKeys : m.span = word /\ m.key \in keys}
           best == {m.key : m \in {x \in near : \A y \in near : y.by <= x.by}}
           OfWord(k) == [key |-> k, edits |-> Edits(word, k), of |-> Max({Len(word), Len(k)})]
           By(k) == damerauSimilarity(word, k)
<1>1. BestSpanMatch(span, around) = {d \in around : KeysOf[d] \intersect best # {}}
  BY DEF BestSpanMatch
<1>2. Away(word, keys) = {OfWord(k) : k \in keys}
  BY DEF Away
<1> HIDE DEF word, keys, near, best, OfWord
<1>3. PICK m \in near : m.key \in KeysOf[e] /\ \A y \in near : y.by <= m.by
  BY <1>1 DEF best
<1>4. \A n : n \in near <=> n \in SimilarKeys /\ n.span = word /\ n.key \in keys
  BY DEF near
<1>5. \A n \in SimilarKeys : /\ n.span \in AllSpans /\ n.key \in AllKeys
                            /\ n.by = damerauSimilarity(n.span, n.key) /\ n.by >= Threshold
  BY DEF SimilarKeys
<1>6. \A s \in AllSpans, k \in AllKeys :
        damerauSimilarity(s, k) >= Threshold =>
          [span |-> s, key |-> k, by |-> damerauSimilarity(s, k)] \in SimilarKeys
  BY DEF SimilarKeys
<1>7. word \in AllSpans /\ \A k \in keys : k \in AllKeys
  <2>1. word \in AllSpans
    BY <1>3, <1>4, <1>5
  <2>2. \A k \in keys : k \in AllKeys
    BY DEF keys, AllKeys
  <2> QED
    BY <2>1, <2>2
<1>8. ASSUME NEW k \in keys
      PROVE  /\ OfWord(k).of \in Nat \ {0} /\ OfWord(k).of <= 1000 /\ OfWord(k).edits \in Nat /\ OfWord(k).key = k
             /\ By(k) \in Int
             /\ By(k) * OfWord(k).of <= Million * (OfWord(k).of - OfWord(k).edits)
             /\ Million * (OfWord(k).of - OfWord(k).edits) < (By(k) + 1) * OfWord(k).of
  <2>1. /\ Len(word) \in Nat \ {0} /\ Len(word) <= 1000
        /\ Len(k) \in Nat \ {0} /\ Len(k) <= 1000
    BY <1>7, LengthAssumption
  <2>2. /\ OfWord(k).key = k /\ OfWord(k).edits = Edits(word, k)
        /\ OfWord(k).of = Max({Len(word), Len(k)})
    BY DEF OfWord
  <2> QED
    BY <2>1, <2>2, SimilarityMeans
<1>9. m.key \in keys /\ By(m.key) = m.by /\ m.by >= Threshold
  BY <1>3, <1>4, <1>5
<1>10. ASSUME NEW k \in keys PROVE By(k) <= By(m.key)
  <2>1. CASE By(k) >= Threshold
    <3> DEFINE n == [span |-> word, key |-> k, by |-> By(k)]
    <3>1. n \in SimilarKeys
      BY <1>6, <1>7, <2>1
    <3>2. n \in near /\ n.by = By(k)
      BY <1>4, <3>1
    <3> QED
      BY <1>3, <1>9, <3>2
  <2>2. CASE ~(By(k) >= Threshold)
    <3>1. By(k) \in Int /\ By(m.key) \in Int /\ Threshold \in Int
      BY <1>8, <1>9, SMT DEF Threshold
    <3> HIDE DEF By
    <3> QED
      BY <1>9, <2>2, <3>1
  <2> QED
    BY <2>1, <2>2
<1> HIDE DEF By
<1> DEFINE x == OfWord(m.key)
<1>11. x \in Away(word, keys) /\ x.key \in KeysOf[e]
  BY <1>2, <1>3, <1>8, <1>9
<1>12. ASSUME NEW k \in keys PROVE x.edits * OfWord(k).of <= OfWord(k).edits * x.of
  <2> DEFINE u == x.of
             v == OfWord(k).of
             c == x.edits
             d == OfWord(k).edits
             p == By(m.key)
             q == By(k)
  <2>1. /\ u \in Nat \ {0} /\ v \in Nat /\ c \in Nat /\ d \in Nat /\ p \in Int /\ q \in Int
        /\ p * u <= Million * (u - c) /\ Million * (v - d) < (q + 1) * v /\ q <= p
        /\ u <= 1000 /\ v <= 1000
    BY <1>8, <1>9, <1>10
  <2> HIDE DEF u, v, c, d, p, q
  <2>2. u * v <= Million /\ Million \in Nat
    <3>1. u * v <= 1000 * v /\ 1000 * v <= 1000 * 1000 /\ u * v \in Nat
      BY <2>1
    <3> DEFINE uv == u * v
    <3> HIDE DEF uv
    <3> QED
      BY <2>1, <3>1, SMT DEF Million
  <2>3. c * v <= d * u
    BY <2>1, <2>2, MoreSimilarIsNearer
  <2> QED
    BY <2>3 DEF u, v, c, d
<1>13. x \in Nearest(Away(word, keys))
  <2> HIDE DEF x
  <2> QED
    BY <1>2, <1>11, <1>12 DEF Nearest
<1>14. 5 * x.edits <= x.of
  <2> DEFINE u == x.of
             c == x.edits
             p == By(m.key)
  <2>1. u \in Nat /\ c \in Nat /\ p \in Int /\ p * u <= Million * (u - c) /\ p >= Threshold
    BY <1>8, <1>9
  <2> HIDE DEF u, c, p
  <2>2. Threshold * u <= p * u
    <3>1. Threshold \in Nat
      BY SMT DEF Threshold
    <3> QED
      BY <2>1, <3>1
  <2>3. 5 * c <= u
    <3>1. Threshold * u <= Million * (u - c)
      <4> DEFINE pu == p * u
                 tu == Threshold * u
                 mc == Million * (u - c)
      <4>1. pu \in Int /\ tu \in Int /\ mc \in Int
        BY <2>1, SMT DEF Threshold, Million
      <4> HIDE DEF pu, tu, mc
      <4>2. tu <= mc
        <5>1. tu <= pu /\ pu <= mc
          BY <2>1, <2>2 DEF pu, tu, mc
        <5> QED
          BY <4>1, <5>1
      <4> QED
        BY <4>2 DEF tu, mc
    <3> QED
      BY <2>1, <3>1, SMT DEF Threshold, Million
  <2> QED
    BY <2>3 DEF u, c
<1> QED
  BY <1>11, <1>13, <1>14 DEF word, keys

\* For every gazetteer and every text: a name that recovery takes for a misspelt
\* one is within a fifth of its letters, and no name of the neighborhood takes
\* fewer edits (bestSpanMatch, damerauSimilarity, fuzzy_context.go:332-434).
THEOREM RecoveryIsNearest == Spec => RecoveryTakesTheNearest
<1>1. ASSUME PipelineInv, Next, stage = "recover", NEW i \in Len(resolved) + 1..Len(resolved')
      PROVE  LET around  == Context(Frontier(cands, resolved))
                 nearest == Nearest(Away(Compact(resolved'[i].value), UNION {KeysOf[e] : e \in around}))
             IN  \A e \in resolved'[i].found :
                   \E x \in nearest : x.key \in KeysOf[e] /\ 5 * x.edits <= x.of
  <2>1. Recover
    BY <1>1 DEF Next, Refuse, Fail, Clean, Resolve, Prioritize, CompactFallback, Build, Rank, PostalFallback, Done
  <2> DEFINE new == Recovered(cands, resolved).new
             around == Context(Frontier(cands, resolved))
  <2>2. resolved' = resolved \o new
    BY <2>1 DEF Recover, Extend
  <2>3. IsSequence(text.words) /\ IsSequence(resolved)
    BY <1>1 DEF PipelineInv
  <2>4. IsSequence(new)
    BY <2>3, RecoveredType
  <2>5. PICK k \in DOMAIN new : resolved'[i] = new[k]
    <3> HIDE DEF new
    <3>1. /\ Len(resolved) \in Nat /\ Len(new) \in Nat /\ DOMAIN new = 1..Len(new)
          /\ \E S, T : resolved \in Seq(S) /\ new \in Seq(T)
      BY <2>3, <2>4 DEF IsSequence
    <3> QED
      BY <2>2, <3>1
  <2>6. PICK s \in ShortSpans(text.words) :
          new[k].value = Words(text.words, s) /\ new[k].found \subseteq Foundable(s, cands, resolved)
    BY <2>3, WhatRecoveryFinds
  <2>7. around \subseteq Ids
    BY <1>1, ContextType DEF PipelineInv
  <2> HIDE DEF new
  <2>8. ASSUME NEW e \in resolved'[i].found
        PROVE  e \in BestSpanMatch(resolved'[i].value, around)
    BY <2>5, <2>6, <2>8 DEF Foundable
  <2> HIDE DEF around
  <2>9. \A e \in resolved'[i].found :
          \E x \in Nearest(Away(Compact(resolved'[i].value), UNION {KeysOf[d] : d \in around})) :
            x.key \in KeysOf[e] /\ 5 * x.edits <= x.of
    BY <2>7, <2>8, WhatMatchesIsNearest
  <2> QED
    BY <2>9 DEF around
<1>2. PipelineInv /\ [Next]_vars =>
        [stage = "recover" => \A i \in Len(resolved) + 1..Len(resolved') :
           LET around  == Context(Frontier(cands, resolved))
               nearest == Nearest(Away(Compact(resolved'[i].value), UNION {KeysOf[e] : e \in around}))
           IN  \A e \in resolved'[i].found :
                 \E x \in nearest : x.key \in KeysOf[e] /\ 5 * x.edits <= x.of]_vars
  BY <1>1
<1> QED
  BY <1>2, PipelineInvHolds, PTL DEF Spec, RecoveryTakesTheNearest

-----------------------------------------------------------------------------
\* Of the levels of a subdistrict with all its uppers there is one entity each.
OneOfEachLevel(loc) ==
  /\ loc \subseteq Ids /\ Cardinality(loc) = 4
  /\ \A level \in Levels : \E x \in loc : LevelOf(x) = level
  /\ \A x, y \in loc : LevelOf(x) = LevelOf(y) => x = y

\* What a kode begins with is the kode of one entity only.
LEMMA OneUpperOfALevel ==
  ASSUME NEW s \in Ids
  PROVE  /\ s \in Uppers(s) /\ Uppers(s) \subseteq Ids
         /\ \A x \in Uppers(s) : LevelOf(x) <= LevelOf(s) /\ (LevelOf(x) = LevelOf(s) => x = s)
         /\ \A x, y \in Uppers(s) : LevelOf(x) = LevelOf(y) => x = y
<1>1. \A x \in Ids : Rows[x].kode \in Seq(Nat) /\ LevelOf(x) = Len(Rows[x].kode)
  BY RowsAssumption DEF Ids, LevelOf
<1>2. \A x \in Uppers(s) : x \in Ids /\ IsPrefix(Rows[x].kode, Rows[s].kode)
  BY DEF Uppers
<1>3. \A x \in Uppers(s) : Rows[x].kode = SubSeq(Rows[s].kode, 1, LevelOf(x))
  BY <1>1, <1>2 DEF IsPrefix
<1>4. ASSUME NEW x \in Uppers(s), NEW y \in Uppers(s), LevelOf(x) = LevelOf(y) PROVE x = y
  <2>1. Rows[x].kode = Rows[y].kode /\ x \in DOMAIN Rows /\ y \in DOMAIN Rows
    BY <1>2, <1>3, <1>4 DEF Ids
  <2> QED
    BY <2>1, RowsAssumption
<1>5. s \in Uppers(s)
  <2>1. IsPrefix(Rows[s].kode, Rows[s].kode)
    BY <1>1 DEF IsPrefix
  <2> QED
    BY <2>1 DEF Uppers
<1>6. \A x \in Uppers(s) : LevelOf(x) <= LevelOf(s)
  BY <1>1, <1>2 DEF IsPrefix
<1> QED
  BY <1>2, <1>4, <1>5, <1>6

\* The hierarchy knows the subdistricts with all their uppers, and no others.
LEMMA PlacedIsInHierarchy ==
  ASSUME NEW s \in Ids, LevelOf(s) = SUBDISTRICT
  PROVE  s \in DOMAIN HierarchyMap <=> Placed(s)
<1>1. s \in DOMAIN HierarchyMap <=> \E x \in Ids : Placed(x) /\ IsPrefix(Rows[s].kode, Rows[x].kode)
  BY DEF HierarchyMap, SUBDISTRICT, PROVINCE
<1>2. ASSUME Placed(s) PROVE s \in DOMAIN HierarchyMap
  <2>1. s \in Uppers(s)
    BY OneUpperOfALevel
  <2> QED
    BY <1>1, <1>2, <2>1 DEF Uppers
<1>3. ASSUME NEW x \in Ids, Placed(x), IsPrefix(Rows[s].kode, Rows[x].kode) PROVE x = s
  <2>1. s \in Uppers(x) /\ LevelOf(x) = SUBDISTRICT
    BY <1>3 DEF Uppers, Placed
  <2> QED
    BY <2>1, OneUpperOfALevel
<1> QED
  BY <1>1, <1>2, <1>3

\* EnrichCandidates fills in the uppers that the kode of a subdistrict says, all
\* of them and no others (enrich.go); a subdistrict without them stays alone.
LEMMA EnrichIsUppers ==
  ASSUME NEW s \in Ids, LevelOf(s) = SUBDISTRICT
  PROVE  /\ Placed(s) => Enrich({s}) = Uppers(s) /\ OneOfEachLevel(Uppers(s))
         /\ ~Placed(s) => Enrich({s}) = {s}
<1> DEFINE U(x) == HierarchyMap[x]
           In(x) == x \in DOMAIN HierarchyMap
           F4 == FillUpper({s}, 4)
           F3 == FillUpper(F4, 3)
           F2 == FillUpper(F3, 2)
<1>1. Enrich({s}) = F2 /\ LevelOf(s) = 4
  BY DEF Enrich, SUBDISTRICT, DISTRICT, CITY
<1>2. F4 = IF In(s) THEN {s, U(s)} ELSE {s}
  <2>1. {s} \in SUBSET Ids /\ s \in {s} /\ (\A y \in {s} : LevelOf(y) = LevelOf(s) => y = s) /\ \A y \in {s} : LevelOf(y) >= LevelOf(s)
    BY <1>1
  <2>2. FillUpper({s}, LevelOf(s)) = IF In(s) THEN {s} \union {U(s)} ELSE {s}
    BY <2>1, FillAddsTheUpper
  <2> QED
    BY <1>1, <2>2
<1>3. CASE ~Placed(s)
  <2>1. F4 = {s}
    BY <1>2, <1>3, PlacedIsInHierarchy
  <2>2. F3 = {s} /\ F2 = {s}
    BY <1>1, <2>1, FillSkipsAnEmptyLevel
  <2> QED
    BY <1>1, <1>3, <2>2
<1>4. CASE Placed(s)
  <2>1. In(s)
    BY <1>4, PlacedIsInHierarchy
  <2>2. In(U(s)) /\ LevelOf(U(s)) = 3 /\ U(s) \in Ids
    BY <1>1, <2>1, UpperIsOneHigher
  <2>3. In(U(U(s))) /\ LevelOf(U(U(s))) = 2 /\ U(U(s)) \in Ids
    BY <2>2, UpperIsOneHigher
  <2>4. LevelOf(U(U(U(s)))) = 1 /\ U(U(U(s))) \in Ids
    BY <2>3, UpperIsOneHigher
  <2>5. F3 = {s, U(s), U(U(s))}
    <3> DEFINE loc == {s, U(s)}
    <3>1. FillUpper(loc, LevelOf(U(s))) = loc \union {U(U(s))}
      BY <1>1, <2>2, FillAddsTheUpper
    <3> QED
      BY <1>2, <2>1, <2>2, <3>1
  <2>6. F2 = {s, U(s), U(U(s)), U(U(U(s)))}
    <3> DEFINE loc == {s, U(s), U(U(s))}
    <3>1. FillUpper(loc, LevelOf(U(U(s)))) = loc \union {U(U(U(s)))}
      BY <1>1, <2>2, <2>3, FillAddsTheUpper
    <3> QED
      BY <2>5, <2>3, <3>1
  <2> DEFINE a == U(s)
             b == U(U(s))
             c == U(U(U(s)))
  <2>7. Enrich({s}) = {s, a, b, c} /\ LevelOf(a) = 3 /\ LevelOf(b) = 2 /\ LevelOf(c) = 1
    BY <1>1, <2>2, <2>3, <2>4, <2>6
  <2> HIDE DEF a, b, c, F2, F3, F4
  <2>8. Enrich({s}) \subseteq Uppers(s)
    BY EnrichGoesUp DEF Uppers
  <2>9. Uppers(s) \subseteq Enrich({s})
    <3>1. ASSUME NEW x \in Uppers(s) PROVE x \in {s, a, b, c}
      <4>1. LevelOf(x) \in 1..4 /\ x \in Ids
        BY OneUpperOfALevel, LevelType
      <4>2. s \in Uppers(s) /\ a \in Uppers(s) /\ b \in Uppers(s) /\ c \in Uppers(s)
        BY <2>7, <2>8
      <4>3. \A y \in Uppers(s) : LevelOf(x) = LevelOf(y) => x = y
        BY OneUpperOfALevel
      <4> QED
        BY <1>1, <2>7, <4>1, <4>2, <4>3
    <3> QED
      BY <2>7, <3>1
  <2>10. Cardinality({s, a, b, c}) = 4
    <3>1. s # a /\ s # b /\ s # c /\ a # b /\ a # c /\ b # c
      BY <1>1, <2>7
    <3>2. IsFiniteSet({c}) /\ Cardinality({c}) = 1
      BY FS_Singleton
    <3>3. IsFiniteSet({c} \union {b}) /\ Cardinality({c} \union {b}) = 2
      BY <3>1, <3>2, FS_AddElement
    <3>4. IsFiniteSet(({c} \union {b}) \union {a}) /\ Cardinality(({c} \union {b}) \union {a}) = 3
      BY <3>1, <3>3, FS_AddElement
    <3>5. Cardinality((({c} \union {b}) \union {a}) \union {s}) = 4
      BY <3>1, <3>4, FS_AddElement
    <3>6. (({c} \union {b}) \union {a}) \union {s} = {s, a, b, c}
      OBVIOUS
    <3> QED
      BY <3>5, <3>6
  <2>11. Enrich({s}) = Uppers(s)
    BY <2>8, <2>9
  <2>12. OneOfEachLevel(Uppers(s))
    <3>1. \A level \in 1..4 : \E x \in {s, a, b, c} : LevelOf(x) = level
      BY <1>1, <2>7
    <3>2. Uppers(s) = {s, a, b, c}
      BY <2>7, <2>11
    <3>3. Levels = 1..4
      BY DEF Levels, PROVINCE, SUBDISTRICT
    <3>4. Uppers(s) \subseteq Ids /\ \A x, y \in Uppers(s) : LevelOf(x) = LevelOf(y) => x = y
      BY OneUpperOfALevel
    <3> QED
      BY <2>10, <3>1, <3>2, <3>3, <3>4 DEF OneOfEachLevel
  <2> QED
    BY <1>4, <2>11, <2>12
<1> QED
  BY <1>3, <1>4

-----------------------------------------------------------------------------
\* Whatever is counted off has its place in the order.
LEMMA OrderReachesAll ==
  ASSUME NEW s, IsSequence(s), NEW S \in SUBSET DOMAIN s, NEW p \in S
  PROVE  \E k \in DOMAIN InOrder(S) : InOrder(S)[k] = p
<1> DEFINE UpToPlace(x) == {q \in S : q <= x}
<1>1. PICK n \in Nat : DOMAIN s = 1..n
  BY DomainIsFinite
<1>2. IsFiniteSet(S) /\ \A x \in S : x \in Nat
  <2>1. IsFiniteSet(DOMAIN s)
    BY DomainIsFinite
  <2>2. IsFiniteSet(S)
    BY <2>1, FS_Subset
  <2> QED
    BY <1>1, <2>2
<1>3. \A x \in S : /\ IsFiniteSet(UpToPlace(x)) /\ Cardinality(UpToPlace(x)) \in Nat
                   /\ Cardinality(UpToPlace(x)) <= Cardinality(S)
  <2> SUFFICES ASSUME NEW x \in S
               PROVE  /\ IsFiniteSet(UpToPlace(x)) /\ Cardinality(UpToPlace(x)) \in Nat
                      /\ Cardinality(UpToPlace(x)) <= Cardinality(S)
    OBVIOUS
  <2>1. UpToPlace(x) \in SUBSET S
    OBVIOUS
  <2> HIDE DEF UpToPlace
  <2> QED
    BY <1>2, <2>1, FS_Subset, FS_CardinalityType
<1>4. ASSUME NEW x \in S, NEW y \in S, x < y PROVE Cardinality(UpToPlace(x)) # Cardinality(UpToPlace(y))
  <2>1. UpToPlace(x) \in SUBSET UpToPlace(y) /\ UpToPlace(x) # UpToPlace(y)
    <3>1. \A q \in S : q <= x => q <= y
      BY <1>2, <1>4
    <3>2. y \in UpToPlace(y) /\ y \notin UpToPlace(x)
      BY <1>2, <1>4
    <3> QED
      BY <3>1, <3>2
  <2> HIDE DEF UpToPlace
  <2> QED
    BY <1>3, <2>1, FS_Subset
<1> DEFINE k == Cardinality(UpToPlace(p))
<1>5. k \in 1..Cardinality(S)
  <2>1. k # 0
    <3>1. p \in UpToPlace(p)
      BY <1>2
    <3> HIDE DEF UpToPlace
    <3> QED
      BY <1>3, <3>1, FS_EmptySet
  <2>2. Cardinality(S) \in Nat
    BY <1>2, FS_CardinalityType
  <2> HIDE DEF UpToPlace
  <2> QED
    BY <1>3, <2>1, <2>2
<1>6. DOMAIN InOrder(S) = 1..Cardinality(S) /\ InOrder(S)[k] = CHOOSE x \in S : Cardinality(UpToPlace(x)) = k
  <2> HIDE DEF k
  <2> QED
    BY <1>5 DEF InOrder
<1> DEFINE x0 == CHOOSE x \in S : Cardinality(UpToPlace(x)) = k
<1>7. x0 \in S /\ Cardinality(UpToPlace(x0)) = k
  <2>1. \E x \in S : Cardinality(UpToPlace(x)) = k
    OBVIOUS
  <2> HIDE DEF UpToPlace, k
  <2> QED
    BY <2>1
<1>8. InOrder(S)[k] = x0
  BY <1>6
<1> HIDE DEF x0
<1>9. x0 = p
  <2>1. x0 < p \/ p < x0 \/ x0 = p
    BY <1>2, <1>7
  <2>2. Cardinality(UpToPlace(x0)) = Cardinality(UpToPlace(p))
    BY <1>7
  <2> HIDE DEF UpToPlace
  <2> QED
    BY <1>4, <1>7, <2>1, <2>2
<1> HIDE DEF k
<1> QED
  BY <1>5, <1>6, <1>8, <1>9

\* Evidence as it is extracted (ExtractEvidence, ResolveEvidence): each word of
\* the text once, with what the phrases around it name, and the first postal
\* code with its subdistricts.
WordPiece(res, i) ==
  /\ res[i].type = "place_name"
  /\ \E w : res[i].value = <<w>> /\ res[i].found = PhraseEntities(text.words, w)
CodePiece(res, i) ==
  /\ PostalPositions # {}
  /\ res[i].type = "postal_code" /\ res[i].value = <<PostalCode>>
  /\ res[i].found = {e \in Ids : LevelOf(e) = SUBDISTRICT /\ Rows[e].postal = PostalCode}
Extracted(res) ==
  /\ \A i \in DOMAIN res : ~res[i].fuzzy /\ (WordPiece(res, i) \/ CodePiece(res, i))
  /\ \A p \in DOMAIN text.words : text.words[p] \notin RoadPrefixes \union PostalCodes =>
       \E i \in DOMAIN res : WordPiece(res, i) /\ res[i].value = <<text.words[p]>>
  /\ PostalPositions # {} => \E i \in DOMAIN res : CodePiece(res, i)

\* The evidence is extracted when it is resolved.
LEMMA ResolveExtracts ==
  ASSUME IsSequence(text.words), Resolve
  PROVE  Extracted(resolved')
<1> DEFINE P == PlacePositions(text.words)
           order == InOrder(P)
           Coded(code) == {e \in Ids : LevelOf(e) = SUBDISTRICT /\ Rows[e].postal = code}
           first == Evidence("postal_code", <<PostalCode>>, Coded(PostalCode), FALSE)
           postal == IF PostalPositions = {} THEN <<>> ELSE <<first>>
           Place(w) == Evidence("place_name", <<w>>, PhraseEntities(text.words, w), FALSE)
           places == [k \in DOMAIN order |-> Place(text.words[order[k]])]
           r == postal \o places
<1>1. resolved' = r
  BY DEF Resolve
<1>2. P \in SUBSET DOMAIN text.words
  BY DEF PlacePositions
<1>3. PICK n \in Nat : DOMAIN order = 1..n
  <2> HIDE DEF P
  <2> QED
    BY <1>2, OrderIsSequence
<1>4. \A p \in P : \E k \in DOMAIN order : order[k] = p
  <2> HIDE DEF P
  <2> QED
    BY <1>2, OrderReachesAll
<1>5. ASSUME NEW p \in DOMAIN text.words, text.words[p] \notin RoadPrefixes \union PostalCodes
      PROVE  \E q \in P : text.words[q] = text.words[p]
  <2> DEFINE S == {q \in DOMAIN text.words : text.words[q] = text.words[p]}
  <2>1. S \in SUBSET Nat /\ S # {} /\ p \in Nat
    BY DomainIsFinite
  <2>2. PICK q \in S : \A m \in S : q <= m
    <3> HIDE DEF S
    <3> QED
      BY <2>1, NaturalsHaveALeast
  <2>3. \A m \in DOMAIN text.words : m < q => text.words[m] # text.words[q]
    <3>1. \A m \in DOMAIN text.words : m \in Nat
      BY DomainIsFinite
    <3> QED
      BY <2>1, <2>2, <3>1
  <2> QED
    BY <1>5, <2>2, <2>3 DEF PlacePositions
<1> HIDE DEF order, P
<1>6. IsSequence(postal) /\ IsSequence(places)
  <2>1. \A x : IsSequence(<<x>>) /\ IsSequence(<<>>)
    BY DEF IsSequence, Range
  <2>2. IsSequence(places)
    <3> HIDE DEF Place
    <3> QED
      BY <1>3, FunctionIsSequence
  <2> HIDE DEF first, places
  <2> QED
    BY <2>1, <2>2
<1>7. \A i \in DOMAIN postal : /\ PostalPositions # {} /\ postal[i].type = "postal_code"
                               /\ postal[i].value = <<PostalCode>> /\ postal[i].found = Coded(PostalCode) /\ ~postal[i].fuzzy
  <2>1. /\ first.type = "postal_code" /\ first.value = <<PostalCode>>
        /\ first.found = Coded(PostalCode) /\ ~first.fuzzy
    BY DEF Evidence
  <2>2. \A i \in DOMAIN postal : PostalPositions # {} /\ postal[i] = first
    <3> HIDE DEF first
    <3> QED
      OBVIOUS
  <2> HIDE DEF first, postal, Coded
  <2> QED
    BY <2>1, <2>2
<1>8. \A k \in DOMAIN places : /\ places[k].type = "place_name" /\ places[k].value = <<text.words[order[k]]>>
                               /\ places[k].found = PhraseEntities(text.words, text.words[order[k]]) /\ ~places[k].fuzzy
  BY DEF Evidence
<1>9. DOMAIN places = DOMAIN order /\ (PostalPositions # {} => 1 \in DOMAIN postal)
  <2> HIDE DEF first
  <2> QED
    OBVIOUS
<1> HIDE DEF places, postal
<1>10. /\ DOMAIN postal \subseteq DOMAIN r
       /\ \A i \in DOMAIN postal : r[i] = postal[i]
       /\ \A i \in DOMAIN r \ DOMAIN postal : i - Len(postal) \in DOMAIN places /\ r[i] = places[i - Len(postal)]
  BY <1>6, JoinedParts
<1>11. \A k \in DOMAIN places : k + Len(postal) \in DOMAIN r /\ r[k + Len(postal)] = places[k]
  <2> DEFINE X == Range(postal) \union Range(places)
  <2>1. postal \in Seq(X) /\ places \in Seq(X)
    BY <1>6 DEF IsSequence
  <2> HIDE DEF X
  <2>2. /\ Len(postal) \in Nat /\ Len(places) \in Nat /\ DOMAIN places = 1..Len(places)
        /\ Len(r) = Len(postal) + Len(places) /\ DOMAIN r = 1..Len(postal) + Len(places)
        /\ \A i \in 1..Len(r) : r[i] = IF i <= Len(postal) THEN postal[i] ELSE places[i - Len(postal)]
    BY <2>1, ConcatProperties, LenProperties
  <2> HIDE DEF r
  <2> QED
    BY <2>2
<1> HIDE DEF r
<1>12. \A i \in DOMAIN postal : CodePiece(r, i) /\ ~r[i].fuzzy
  BY <1>7, <1>10 DEF CodePiece
<1>13. \A k \in DOMAIN places, i \in DOMAIN r : r[i] = places[k] =>
         WordPiece(r, i) /\ ~r[i].fuzzy /\ r[i].value = <<text.words[order[k]]>>
  BY <1>8 DEF WordPiece
<1>14. \A i \in DOMAIN r : ~r[i].fuzzy /\ (WordPiece(r, i) \/ CodePiece(r, i))
  BY <1>10, <1>12, <1>13
<1>15. ASSUME NEW p \in DOMAIN text.words, text.words[p] \notin RoadPrefixes \union PostalCodes
       PROVE  \E i \in DOMAIN r : WordPiece(r, i) /\ r[i].value = <<text.words[p]>>
  <2>1. PICK q \in P : text.words[q] = text.words[p]
    BY <1>5, <1>15
  <2>2. PICK k \in DOMAIN order : order[k] = q
    BY <1>4
  <2> QED
    BY <1>9, <1>11, <1>13, <2>1, <2>2
<1>16. PostalPositions # {} => \E i \in DOMAIN r : CodePiece(r, i)
  BY <1>9, <1>10, <1>12
<1>17. Extracted(r)
  BY <1>14, <1>15, <1>16 DEF Extracted
<1> QED
  BY <1>1, <1>17

-----------------------------------------------------------------------------
\* The phrases of the text.
Phrases == {Words(text.words, t) : t \in PhraseSpans(text.words)}

\* The words of a span are those at its positions, and there is one.
LEMMA WordsOfSpan ==
  ASSUME NEW words, IsSequence(words), NEW t \in Spans(words)
  PROVE  /\ Len(Words(words, t)) \in Nat \ {0} /\ DOMAIN Words(words, t) = 1..Len(Words(words, t))
         /\ \A w : w \in Range(Words(words, t)) <=> InSpan(words, t, w)
         /\ Range(Words(words, t)) \subseteq Range(words)
<1>1. PICK n \in Nat : DOMAIN words = 1..n /\ n = Len(words)
  BY DEF IsSequence
<1>2. words \in Seq(Range(words)) /\ t[1] \in 1..n /\ t[2] \in 1..n /\ t[1] <= t[2]
  BY <1>1 DEF IsSequence, Spans
<1> DEFINE a == t[1]
           b == t[2]
           part == SubSeq(words, a, b)
<1>3. Words(words, t) = part
  BY DEF Words
<1> HIDE DEF a, b
<1>4. a \in 1..n /\ b \in 1..n /\ a <= b
  BY <1>2 DEF a, b
<1>5. /\ Len(part) = b - a + 1 /\ DOMAIN part = 1..b - a + 1
      /\ \A k \in 1..b - a + 1 : part[k] = words[a + k - 1]
  BY <1>1, <1>2, <1>4
<1> HIDE DEF part
<1>6. \A w : w \in Range(part) <=> \E k \in a..b : words[k] = w
  <2> TAKE w
  <2>1. ASSUME NEW k \in 1..b - a + 1, part[k] = w PROVE a + k - 1 \in a..b /\ words[a + k - 1] = w
    BY <1>4, <1>5, <2>1
  <2>2. ASSUME NEW k \in a..b, words[k] = w PROVE k - a + 1 \in 1..b - a + 1 /\ part[k - a + 1] = w
    <3>1. k - a + 1 \in 1..b - a + 1 /\ a + (k - a + 1) - 1 = k
      BY <1>4
    <3> QED
      BY <1>5, <2>2, <3>1
  <2> QED
    BY <1>5, <2>1, <2>2 DEF Range
<1>7. \A w : w \in Range(part) <=> InSpan(words, t, w)
  BY <1>6 DEF InSpan, a, b
<1>8. Range(part) \subseteq Range(words)
  <2>1. \A k \in a..b : k \in DOMAIN words
    BY <1>1, <1>4
  <2> QED
    BY <1>6, <2>1 DEF Range
<1>9. b - a + 1 \in Nat \ {0}
  BY <1>4
<1> QED
  BY <1>3, <1>5, <1>7, <1>8, <1>9

\* The scan takes spans of the text (longest match of matchPhrases).
LEMMA PhraseSpansAreSpans ==
  ASSUME NEW words, IsSequence(words)
  PROVE  PhraseSpans(words) \subseteq Spans(words)
<1> DEFINE fitting == {s \in Spans(words) : Named(Words(words, s)) # {}}
<1>1. PICK N \in Nat : DOMAIN words = 1..N /\ N = Len(words)
  BY DEF IsSequence
<1>2. fitting \in SUBSET ((1..N) \X (1..N)) /\ \A s \in fitting : s[1] <= s[2]
  BY <1>1 DEF Spans
<1>3. PhraseSpans(words) = LongestSpans(1, N, fitting)
  BY <1>1 DEF PhraseSpans
<1>4. fitting \subseteq Spans(words)
  OBVIOUS
<1> HIDE DEF fitting
<1>5. LongestSpans(1, N, fitting) \subseteq fitting
  BY <1>2, TakenFit
<1> QED
  BY <1>3, <1>4, <1>5

\* A name as which a phrase is read has the words of the phrase.
LEMMA ReadingsHaveTheWords ==
  ASSUME NEW p, Len(p) \in Nat \ {0}, DOMAIN p = 1..Len(p), NEW n \in Readings(p)
  PROVE  /\ Range(n) = Range(p)
         /\ Several(n) => n = p /\ \A m \in Readings(p) : m = p
<1>1. CASE n = p /\ ~Repeated(p)
  BY <1>1 DEF Readings
<1>2. CASE Repeated(p)
  <2>1. \A k \in DOMAIN p : p[k] = p[1]
    BY <1>2 DEF Repeated
  <2>2. Range(p) = {p[1]}
    <3>1. 1 \in DOMAIN p
      OBVIOUS
    <3> QED
      BY <2>1, <3>1 DEF Range
  <2>3. Range(<<p[1]>>) = {p[1]}
    BY DEF Range
  <2>4. n = p \/ n = <<p[1]>>
    BY DEF Readings
  <2>5. Range(n) = {p[1]}
    BY <2>2, <2>3, <2>4
  <2> QED
    BY <2>2, <2>5 DEF Several
<1>3. n = p \/ Repeated(p)
  BY DEF Readings
<1> QED
  BY <1>1, <1>2, <1>3

\* What a word of the text stands for: the entities with a name as which a phrase
\* around it is read (matchPhrases, validate_helper.go).
LEMMA WhatAWordMeans ==
  ASSUME IsSequence(text.words), NEW w, NEW e
  PROVE  e \in PhraseEntities(text.words, w) <=>
           e \in Ids /\ \E p \in Phrases : w \in Range(p) /\ NameOf[e] \in Readings(p)
<1> DEFINE words == text.words
           spans == PhraseSpans(words)
<1>1. ASSUME NEW t \in spans
      PROVE  /\ Len(Words(words, t)) \in Nat \ {0} /\ DOMAIN Words(words, t) = 1..Len(Words(words, t))
             /\ w \in Range(Words(words, t)) <=> InSpan(words, t, w)
  BY PhraseSpansAreSpans, WordsOfSpan
<1> DEFINE Of(t) == Named(Words(words, t)) \union (IF Repeated(Words(words, t)) THEN Named(<<w>>) ELSE {})
<1>2. PhraseEntities(words, w) = UNION {Of(t) : t \in {x \in spans : InSpan(words, x, w)}}
  BY DEF PhraseEntities
<1>3. ASSUME NEW t \in spans, InSpan(words, t, w)
      PROVE  e \in Of(t) <=> e \in Ids /\ NameOf[e] \in Readings(Words(words, t))
  <2> DEFINE p == Words(words, t)
  <2>1. w \in Range(p) /\ DOMAIN p = 1..Len(p) /\ Len(p) \in Nat \ {0}
    BY <1>1, <1>3
  <2> HIDE DEF p, words, spans
  <2>2. Repeated(p) => w = p[1]
    BY <2>1 DEF Repeated, Range
  <2>3. e \in Named(p) <=> e \in Ids /\ NameOf[e] = p
    BY DEF Named
  <2>4. e \in Named(<<w>>) <=> e \in Ids /\ NameOf[e] = <<w>>
    BY DEF Named
  <2>5. NameOf[e] \in Readings(p) <=> NameOf[e] = p \/ (Repeated(p) /\ NameOf[e] = <<p[1]>>)
    BY DEF Readings
  <2>6. e \in Of(t) <=> e \in Named(p) \/ (Repeated(p) /\ e \in Named(<<w>>))
    BY DEF p
  <2> QED
    BY <2>2, <2>3, <2>4, <2>5, <2>6 DEF p
<1> HIDE DEF Of
<1>4. e \in PhraseEntities(words, w) <=> \E t \in spans : InSpan(words, t, w) /\ e \in Of(t)
  BY <1>2
<1>5. (\E t \in spans : InSpan(words, t, w) /\ e \in Of(t)) <=>
        e \in Ids /\ \E t \in spans : w \in Range(Words(words, t)) /\ NameOf[e] \in Readings(Words(words, t))
  BY <1>1, <1>3
<1>6. (\E t \in spans : w \in Range(Words(words, t)) /\ NameOf[e] \in Readings(Words(words, t))) <=>
        \E p \in Phrases : w \in Range(p) /\ NameOf[e] \in Readings(p)
  BY DEF Phrases
<1> QED
  BY <1>4, <1>5, <1>6

\* The words of a phrase are words of the text, and what it is read as has them.
LEMMA PhraseWords ==
  ASSUME IsSequence(text.words), NEW p \in Phrases
  PROVE  /\ Len(p) \in Nat \ {0} /\ DOMAIN p = 1..Len(p)
         /\ Range(p) \subseteq Range(text.words)
         /\ \A n \in Readings(p) : Range(n) = Range(p)
         /\ \A m, n \in Readings(p) : Several(m) => m = n
<1>1. PICK t \in PhraseSpans(text.words) : p = Words(text.words, t)
  BY DEF Phrases
<1>2. Len(p) \in Nat \ {0} /\ DOMAIN p = 1..Len(p) /\ Range(p) \subseteq Range(text.words)
  BY <1>1, PhraseSpansAreSpans, WordsOfSpan
<1> QED
  BY <1>2, ReadingsHaveTheWords

-----------------------------------------------------------------------------
\* What reading a text as a place says of its phrases.
LEMMA ReadPhrases ==
  ASSUME NEW s, ReadAs(s)
  PROVE  /\ \A u \in Uppers(s) : \E p \in Phrases : NameOf[u] \in Readings(p)
         /\ \A p \in Phrases : \E u \in Uppers(s) : NameOf[u] \in Readings(p)
         /\ \A w \in WordsOf(s) : w \notin text.roads /\ w \notin RoadPrefixes \union PostalCodes
         /\ \E v, w \in WordsOf(s) : v # w
         /\ PostalPositions # {} => PostalCode = Rows[s].postal
<1>1. /\ NamesOf(s) \subseteq UNION {Readings(p) : p \in Phrases}
      /\ \A p \in Phrases : Readings(p) \intersect NamesOf(s) # {}
      /\ WordsOf(s) \intersect (text.roads \union RoadPrefixes \union PostalCodes) = {}
      /\ \E v, w \in WordsOf(s) : v # w
      /\ PostalPositions # {} => PostalCode = Rows[s].postal
  BY DEF ReadAs, Phrases
<1>2. \A n : n \in NamesOf(s) <=> \E u \in Uppers(s) : n = NameOf[u]
  BY DEF NamesOf
<1> QED
  BY <1>1, <1>2

\* A word of the name of an entity that is meant stands for the entity.
LEMMA WordsMeanTheEntity ==
  ASSUME IsSequence(text.words), NEW s \in Ids, ReadAs(s), NEW u \in Uppers(s)
  PROVE  /\ \A w \in Range(NameOf[u]) : u \in PhraseEntities(text.words, w) /\ w \in Range(text.words)
         /\ Range(NameOf[u]) # {} /\ Range(NameOf[u]) \subseteq WordsOf(s)
<1>1. PICK p \in Phrases : NameOf[u] \in Readings(p)
  BY ReadPhrases
<1>2. /\ Range(NameOf[u]) = Range(p) /\ Range(p) \subseteq Range(text.words)
      /\ Len(p) \in Nat \ {0} /\ DOMAIN p = 1..Len(p)
  BY <1>1, PhraseWords
<1>3. Range(p) # {}
  <2>1. 1 \in DOMAIN p
    BY <1>2
  <2> QED
    BY <2>1 DEF Range
<1>4. u \in Ids
  BY DEF Uppers
<1>5. \A w \in Range(NameOf[u]) : u \in PhraseEntities(text.words, w)
  BY <1>1, <1>2, <1>4, WhatAWordMeans
<1>6. Range(NameOf[u]) \subseteq WordsOf(s)
  BY DEF WordsOf, NamesOf
<1> QED
  BY <1>2, <1>3, <1>5, <1>6

\* What a word stands for has the word in its name.
LEMMA MeaningHasTheWord ==
  ASSUME IsSequence(text.words), NEW w, NEW e \in PhraseEntities(text.words, w)
  PROVE  w \in Range(NameOf[e])
<1>1. PICK p \in Phrases : w \in Range(p) /\ NameOf[e] \in Readings(p)
  BY WhatAWordMeans
<1>2. Range(NameOf[e]) = Range(p)
  BY <1>1, PhraseWords
<1> QED
  BY <1>1, <1>2

\* A word that stands for anything stands for an entity that is meant.
LEMMA MeaningsMeet ==
  ASSUME IsSequence(text.words), NEW s \in Ids, ReadAs(s), NEW w, PhraseEntities(text.words, w) # {}
  PROVE  \E u \in Uppers(s) : u \in PhraseEntities(text.words, w)
<1>1. PICK e : e \in PhraseEntities(text.words, w)
  OBVIOUS
<1>2. PICK p \in Phrases : w \in Range(p)
  BY <1>1, WhatAWordMeans
<1>3. PICK u \in Uppers(s) : NameOf[u] \in Readings(p)
  BY ReadPhrases
<1>4. u \in Ids
  BY DEF Uppers
<1> QED
  BY <1>2, <1>3, <1>4, WhatAWordMeans

\* An entity for which two words stand has a name that is meant, of several words.
LEMMA TwoWordsMeanOneName ==
  ASSUME IsSequence(text.words), NEW s \in Ids, ReadAs(s), NEW v, NEW w, v # w,
         NEW e \in PhraseEntities(text.words, v), e \in PhraseEntities(text.words, w)
  PROVE  Several(NameOf[e]) /\ NameOf[e] \in NamesOf(s)
<1>1. v \in Range(NameOf[e]) /\ w \in Range(NameOf[e])
  BY MeaningHasTheWord
<1>2. Several(NameOf[e])
  BY <1>1 DEF Several
<1>3. PICK p \in Phrases : NameOf[e] \in Readings(p)
  BY WhatAWordMeans
<1>4. PICK u \in Uppers(s) : NameOf[u] \in Readings(p)
  BY ReadPhrases
<1>5. NameOf[e] = NameOf[u]
  BY <1>2, <1>3, <1>4, PhraseWords
<1> QED
  BY <1>2, <1>5 DEF NamesOf

-----------------------------------------------------------------------------
\* A word piece has found what its word stands for.
LEMMA WordPieceFinds ==
  ASSUME NEW res, NEW i, WordPiece(res, i)
  PROVE  /\ res[i].type = "place_name" /\ res[i].value = <<res[i].value[1]>>
         /\ res[i].found = PhraseEntities(text.words, res[i].value[1])
<1>1. PICK w : res[i].value = <<w>> /\ res[i].found = PhraseEntities(text.words, w)
  BY DEF WordPiece
<1>2. res[i].value[1] = w
  BY <1>1
<1> QED
  BY <1>1, <1>2 DEF WordPiece

\* Two pieces of evidence have found the entity.
FoundTwice(e, res) == \E i, j \in DOMAIN res : i # j /\ e \in res[i].found /\ e \in res[j].found
\* The postal code of the text is that of the entity.
BearsTheCode(e) == PostalPositions # {} /\ LevelOf(e) = SUBDISTRICT /\ Rows[e].postal = PostalCode

\* The evidence of a text that is read as a place: every word of its names is a
\* piece; whatever a piece has found, it has found an entity that is meant; and
\* what two pieces have found has a name of several words, or the code.
LEMMA EvidenceOfAPlace ==
  ASSUME IsSequence(text.words), NEW s \in Ids, Placed(s), ReadAs(s), NEW res, Pieces(res), Extracted(res)
  PROVE  /\ \A w \in WordsOf(s) : \E i \in DOMAIN res :
              WordPiece(res, i) /\ res[i].value = <<w>> /\ \E u \in Uppers(s) : u \in res[i].found
         /\ \A u \in Uppers(s) : \E i \in DOMAIN res : WordPiece(res, i) /\ u \in res[i].found
         /\ \A i \in DOMAIN res : res[i].found # {} => \E u \in Uppers(s) : u \in res[i].found
         /\ \A u \in Uppers(s) : Several(NameOf[u]) => FoundTwice(u, res)
         /\ PostalPositions # {} => FoundTwice(s, res)
         /\ \A e \in Ids : FoundTwice(e, res) =>
              (Several(NameOf[e]) /\ NameOf[e] \in NamesOf(s)) \/ BearsTheCode(e)
<1>1. ASSUME NEW u \in Uppers(s), NEW w \in Range(NameOf[u])
      PROVE  \E i \in DOMAIN res : WordPiece(res, i) /\ res[i].value = <<w>> /\ u \in res[i].found
  <2>1. w \in Range(text.words) /\ w \in WordsOf(s) /\ u \in PhraseEntities(text.words, w)
    BY <1>1, WordsMeanTheEntity
  <2>2. w \notin RoadPrefixes \union PostalCodes
    BY <2>1, ReadPhrases
  <2>3. PICK q \in DOMAIN text.words : text.words[q] = w
    BY <2>1 DEF Range
  <2>4. PICK i \in DOMAIN res : WordPiece(res, i) /\ res[i].value = <<w>>
    BY <2>2, <2>3 DEF Extracted
  <2>5. res[i].value[1] = w
    BY <2>4
  <2>6. u \in res[i].found
    BY <2>1, <2>4, <2>5, WordPieceFinds
  <2> QED
    BY <2>4, <2>6
<1>2. \A w \in WordsOf(s) : \E u \in Uppers(s) : w \in Range(NameOf[u])
  BY DEF WordsOf, NamesOf
<1>3. ASSUME NEW u \in Uppers(s) PROVE \E i \in DOMAIN res : WordPiece(res, i) /\ u \in res[i].found
  <2>1. PICK w : w \in Range(NameOf[u])
    BY WordsMeanTheEntity
  <2> QED
    BY <1>1, <2>1
<1>4. s \in Uppers(s) /\ LevelOf(s) = SUBDISTRICT
  BY OneUpperOfALevel DEF Placed
<1>5. ASSUME NEW i \in DOMAIN res, CodePiece(res, i)
      PROVE  s \in res[i].found /\ \A e \in res[i].found : BearsTheCode(e)
  <2>1. PostalPositions # {} /\ PostalCode = Rows[s].postal
    BY <1>5, ReadPhrases DEF CodePiece
  <2> QED
    BY <1>4, <1>5, <2>1 DEF CodePiece, BearsTheCode
<1>6. ASSUME NEW i \in DOMAIN res, res[i].found # {} PROVE \E u \in Uppers(s) : u \in res[i].found
  <2>1. CASE WordPiece(res, i)
    <3>1. PhraseEntities(text.words, res[i].value[1]) # {}
      BY <1>6, <2>1, WordPieceFinds
    <3>2. \E u \in Uppers(s) : u \in PhraseEntities(text.words, res[i].value[1])
      BY <3>1, MeaningsMeet
    <3> QED
      BY <2>1, <3>2, WordPieceFinds
  <2>2. CASE CodePiece(res, i)
    BY <1>4, <1>5, <2>2
  <2> QED
    BY <2>1, <2>2 DEF Extracted
<1>7. ASSUME NEW u \in Uppers(s), Several(NameOf[u]) PROVE FoundTwice(u, res)
  <2>1. PICK v, w \in Range(NameOf[u]) : v # w
    BY <1>7 DEF Several
  <2>2. PICK i \in DOMAIN res : res[i].value = <<v>> /\ u \in res[i].found
    BY <1>1
  <2>3. PICK j \in DOMAIN res : res[j].value = <<w>> /\ u \in res[j].found
    BY <1>1
  <2>4. res[i].value[1] # res[j].value[1]
    BY <2>1, <2>2, <2>3
  <2>5. i # j
    BY <2>4
  <2> QED
    BY <2>2, <2>3, <2>5 DEF FoundTwice
<1>8. ASSUME PostalPositions # {} PROVE FoundTwice(s, res)
  <2>1. PICK i \in DOMAIN res : CodePiece(res, i)
    BY <1>8 DEF Extracted
  <2>2. PICK j \in DOMAIN res : WordPiece(res, j) /\ s \in res[j].found
    BY <1>3, <1>4
  <2>3. i # j
    BY <2>1, <2>2 DEF CodePiece, WordPiece
  <2> QED
    BY <1>5, <2>1, <2>2, <2>3 DEF FoundTwice
<1>9. ASSUME NEW e \in Ids, FoundTwice(e, res)
      PROVE  (Several(NameOf[e]) /\ NameOf[e] \in NamesOf(s)) \/ BearsTheCode(e)
  <2>1. PICK i, j \in DOMAIN res : i # j /\ e \in res[i].found /\ e \in res[j].found
    BY <1>9 DEF FoundTwice
  <2>2. CASE CodePiece(res, i) \/ CodePiece(res, j)
    BY <1>5, <2>1, <2>2
  <2>3. CASE WordPiece(res, i) /\ WordPiece(res, j)
    <3> DEFINE v == res[i].value[1]
               w == res[j].value[1]
    <3>1. e \in PhraseEntities(text.words, v) /\ e \in PhraseEntities(text.words, w)
      BY <2>1, <2>3, WordPieceFinds
    <3>2. res[i].value = <<v>> /\ res[j].value = <<w>>
      BY <2>3, WordPieceFinds
    <3>3. res[i].value # res[j].value
      BY <2>1 DEF Extracted, Pieces
    <3>4. v # w
      BY <3>2, <3>3
    <3> HIDE DEF v, w
    <3> QED
      BY <3>1, <3>4, TwoWordsMeanOneName
  <2> QED
    BY <2>2, <2>3 DEF Extracted
<1>10. ASSUME NEW w \in WordsOf(s)
       PROVE  \E i \in DOMAIN res : WordPiece(res, i) /\ res[i].value = <<w>> /\ \E u \in Uppers(s) : u \in res[i].found
  BY <1>1, <1>2
<1> QED
  BY <1>3, <1>6, <1>7, <1>8, <1>9, <1>10

-----------------------------------------------------------------------------
\* Evidence that keeps its fields stays the evidence that was extracted.
LEMMA ExtractedIsKept ==
  ASSUME NEW res, NEW r, Extracted(res), DOMAIN r = DOMAIN res,
         \A i \in DOMAIN res : /\ r[i].type = res[i].type /\ r[i].value = res[i].value
                               /\ r[i].found = res[i].found /\ r[i].fuzzy = res[i].fuzzy
  PROVE  Extracted(r)
<1>1. \A i \in DOMAIN res : /\ WordPiece(res, i) => WordPiece(r, i)
                            /\ CodePiece(res, i) => CodePiece(r, i)
  BY DEF WordPiece, CodePiece
<1> QED
  BY <1>1 DEF Extracted

\* The city priority suppresses nothing where a place is named: another word has
\* found something (applyCityPriority, resolve.go:104-147).
LEMMA NothingIsSuppressed ==
  ASSUME IsSequence(text.words), IsSequence(resolved), Pieces(resolved), Extracted(resolved),
         NEW s \in Ids, Placed(s), ReadAs(s), Prioritize
  PROVE  Extracted(resolved')
<1>1. PICK g : TakesTurns(g)
  BY SuppressionGoesByTurns DEF Pieces
<1>2. PICK N \in Nat : DOMAIN resolved = 1..N /\ N = Len(resolved)
  BY DEF IsSequence
<1>3. /\ g[0] = Found /\ g[N] = FoldLeft(Suppress, Found, [j \in DOMAIN resolved |-> j])
      /\ \A n \in 1..N : g[n] = Suppress(g[n - 1], n)
  BY <1>1, <1>2 DEF TakesTurns
<1>4. ASSUME NEW i \in DOMAIN resolved, resolved[i].type = "place_name" PROVE OtherLocationEvidence(Found, i)
  <2>1. PICK v, w \in WordsOf(s) : v # w
    BY ReadPhrases
  <2>2. PICK x \in WordsOf(s) : resolved[i].value # <<x>>
    <3>1. <<v>> # <<w>>
      BY <2>1
    <3> QED
      BY <3>1
  <2>3. PICK j \in DOMAIN resolved : resolved[j].value = <<x>> /\ \E u \in Uppers(s) : u \in resolved[j].found
    BY EvidenceOfAPlace
  <2>4. x \notin text.roads
    BY ReadPhrases
  <2>5. resolved[j].value[1] = x /\ Found[j] # {}
    BY <2>3 DEF Found
  <2> QED
    BY <2>2, <2>3, <2>4, <2>5 DEF OtherLocationEvidence
<1>5. \A i \in DOMAIN resolved : Suppress(Found, i) = Found
  BY <1>4 DEF Suppress
<1> DEFINE T == {n \in 0..N : g[n] = Found}
<1>6. 0 \in T /\ \A n \in 0..N - 1 : n \in T => n + 1 \in T
  <2>1. 0 \in T
    BY <1>3
  <2>2. ASSUME NEW n \in 0..N - 1, n \in T PROVE n + 1 \in T
    <3>1. n + 1 \in 1..N /\ n + 1 - 1 = n
      OBVIOUS
    <3>2. g[n + 1] = Suppress(g[n], n + 1)
      BY <1>3, <3>1
    <3> QED
      BY <1>2, <1>5, <2>2, <3>1, <3>2
  <2> QED
    BY <2>1, <2>2
<1>7. N \in T
  <2> HIDE DEF T
  <2> QED
    BY <1>6, UpTo
<1>8. FoldLeft(Suppress, Found, [j \in DOMAIN resolved |-> j]) = Found
  BY <1>3, <1>7
<1>9. resolved' = [i \in DOMAIN resolved |-> [resolved[i] EXCEPT !.found = Found[i]]]
  BY <1>8 DEF Prioritize, Found
<1>10. DOMAIN resolved' = DOMAIN resolved /\
       \A i \in DOMAIN resolved : /\ resolved'[i].type = resolved[i].type /\ resolved'[i].value = resolved[i].value
                                  /\ resolved'[i].found = resolved[i].found /\ resolved'[i].fuzzy = resolved[i].fuzzy
  <2>1. DOMAIN resolved' = DOMAIN resolved
    BY <1>9
  <2>2. ASSUME NEW i \in DOMAIN resolved
        PROVE  /\ resolved'[i].type = resolved[i].type /\ resolved'[i].value = resolved[i].value
               /\ resolved'[i].found = resolved[i].found /\ resolved'[i].fuzzy = resolved[i].fuzzy
    <3>1. DOMAIN resolved[i] = {"type", "value", "found", "fuzzy"}
      BY DEF Pieces
    <3>2. resolved'[i] = [resolved[i] EXCEPT !.found = resolved[i].found]
      BY <1>9 DEF Found
    <3> QED
      BY <3>1, <3>2
  <2> QED
    BY <2>1, <2>2
<1> QED
  BY <1>10, ExtractedIsKept

\* Every entity that is meant is found by a name.
LEMMA UppersAreDiscovered ==
  ASSUME IsSequence(text.words), NEW s \in Ids, Placed(s), ReadAs(s), NEW res, Pieces(res), Extracted(res)
  PROVE  Uppers(s) \subseteq Discovered(res)
<1>1. \A u \in Uppers(s) : u \in Ids /\ \E i \in DOMAIN res : WordPiece(res, i) /\ u \in res[i].found
  BY EvidenceOfAPlace DEF Uppers
<1> QED
  BY <1>1 DEF Discovered, WordPiece

\* Nothing is looked up without spaces where a subdistrict and all its uppers are
\* found (hasHierarchyCompatibleExactSubdistrict, resolve.go).
LEMMA NothingIsSpaced ==
  ASSUME IsSequence(text.words), Pieces(resolved), Extracted(resolved),
         NEW s \in Ids, Placed(s), ReadAs(s), CompactFallback
  PROVE  resolved' = resolved
<1>1. Uppers(s) \subseteq Discovered(resolved)
  BY UppersAreDiscovered
<1>2. s \in Uppers(s) /\ LevelOf(s) = SUBDISTRICT
  BY OneUpperOfALevel DEF Placed
<1>3. Enrich({s}) = Uppers(s) /\ s \in DOMAIN HierarchyMap
  BY <1>2, EnrichIsUppers, PlacedIsInHierarchy
<1>4. s \in At(Discovered(resolved), SUBDISTRICT)
  BY <1>1, <1>2 DEF At
<1>5. \A level : At(Enrich({s}), level) \subseteq Discovered(resolved)
  BY <1>1, <1>3 DEF At
<1>6. CompatibleSubdistrict(resolved)
  BY <1>3, <1>4, <1>5 DEF CompatibleSubdistrict
<1> QED
  BY <1>6 DEF CompactFallback

\* Where recovery takes no word for a misspelt name, it changes nothing.
LEMMA NothingIsRecovered ==
  ASSUME IsSequence(text.words), IsSequence(resolved), Recover, \A i \in DOMAIN resolved' : ~resolved'[i].fuzzy
  PROVE  resolved' = resolved /\ explained' = {} /\ cands' = cands
<1> DEFINE new == Recovered(cands, resolved).new
           words == Recovered(cands, resolved).words
<1>1. resolved' = resolved \o new /\ explained' = words /\ cands' = IF new = <<>> THEN cands ELSE Candidates(resolved')
  BY DEF Recover, Extend
<1>2. IsSequence(new)
  BY RecoveredType
<1>3. new = <<>> => words = {}
  BY DEF Recovered, RecoveryIn, RecoveryFrom, RecoveryBy, Recovery
<1>4. \A k \in DOMAIN new : new[k].fuzzy = TRUE
  <2> TAKE k \in DOMAIN new
  <2>1. /\ DOMAIN new[k] = {"type", "value", "found", "fuzzy"}
        /\ new[k].type = "place_name" /\ new[k].fuzzy = TRUE
        /\ \E s \in ShortSpans(text.words) :
             new[k].value = Words(text.words, s) /\ new[k].found \subseteq Foundable(s, cands, resolved)
    BY WhatRecoveryFinds
  <2> HIDE DEF new
  <2> QED
    BY <2>1
<1> HIDE DEF new, words
<1>5. new = <<>>
  <2> SUFFICES ASSUME new # <<>> PROVE FALSE
    OBVIOUS
  <2>1. PICK n \in Nat : n = Len(new) /\ DOMAIN new = 1..n /\ new \in Seq(Range(new))
    BY <1>2 DEF IsSequence
  <2>2. n # 0
    BY <2>1, EmptySeq
  <2>3. PICK m \in Nat : m = Len(resolved) /\ DOMAIN resolved = 1..m
    BY DEF IsSequence
  <2> DEFINE X == Range(resolved) \union Range(new)
  <2>4. resolved \in Seq(X) /\ new \in Seq(X)
    BY <1>2 DEF IsSequence
  <2> HIDE DEF X
  <2>5. /\ DOMAIN resolved' = 1..m + n
        /\ \A i \in 1..m + n : resolved'[i] = IF i <= m THEN resolved[i] ELSE new[i - m]
    BY <1>1, <2>1, <2>3, <2>4, ConcatProperties, LenProperties
  <2>6. m + 1 \in DOMAIN resolved' /\ resolved'[m + 1] = new[1] /\ 1 \in DOMAIN new
    BY <2>1, <2>2, <2>3, <2>5
  <2> QED
    BY <1>4, <2>6
<1>6. resolved' = resolved
  <2>1. resolved \in Seq(Range(resolved))
    BY DEF IsSequence
  <2> QED
    BY <1>1, <1>5, <2>1, ConcatEmptySeq
<1> QED
  BY <1>1, <1>3, <1>5, <1>6

-----------------------------------------------------------------------------
\* The levels of which two pieces of evidence name the entity of the location.
TwiceLevels(loc, res) == {LevelOf(e) : e \in {x \in loc : FoundTwice(x, res)}}

\* The bonus of evaluate.go for two pieces of evidence is one over these levels.
LEMMA BonusOverLevels ==
  ASSUME NEW loc, NEW res
  PROVE  MultiBonus(loc, res) = Capped(OverLevels(MultiWeight, TwiceLevels(loc, res)), 40)
<1>1. \A e : e \in MatchedEntities(loc, res) <=> e \in loc /\ \E i \in DOMAIN res : e \in res[i].found
  <2> TAKE e
  <2>1. ASSUME NEW i \in DOMAIN res, e \in loc, e \in res[i].found PROVE e \in MatchedEntities(loc, res)
    <3>1. <<i, e>> \in Matched(loc, res) /\ <<i, e>>[2] = e
      BY <2>1 DEF Matched
    <3> QED
      BY <3>1 DEF MatchedEntities
  <2>2. e \in MatchedEntities(loc, res) => e \in loc /\ \E i \in DOMAIN res : e \in res[i].found
    BY DEF MatchedEntities, Matched
  <2> QED
    BY <2>1, <2>2
<1>2. \A e : FoundTwice(e, res) => \E i \in DOMAIN res : e \in res[i].found
  BY DEF FoundTwice
<1>3. {e \in MatchedEntities(loc, res) : FoundTwice(e, res)} = {x \in loc : FoundTwice(x, res)}
  BY <1>1, <1>2
<1>4. MultiBonus(loc, res) = Capped(OverLevels(MultiWeight, {LevelOf(e) : e \in {x \in MatchedEntities(loc, res) : FoundTwice(x, res)}}), 40)
  BY DEF MultiBonus, FoundTwice
<1> QED
  BY <1>3, <1>4 DEF TwiceLevels

\* The bonus where no entity but a subdistrict has evidence that the other has not.
LEMMA OneLevelMore ==
  ASSUME NEW S, NEW T
  PROVE  /\ S \subseteq T \union {SUBDISTRICT} =>
              Capped(OverLevels(MultiWeight, S), 40) <= Capped(OverLevels(MultiWeight, T), 40) + 5
         /\ S \subseteq T => Capped(OverLevels(MultiWeight, S), 40) <= Capped(OverLevels(MultiWeight, T), 40)
         /\ Capped(OverLevels(MultiWeight, T), 40) \in 0..40
<1>1. /\ OverLevels(MultiWeight, S) \in Nat /\ OverLevels(MultiWeight, T) \in Nat
      /\ S \subseteq T => OverLevels(MultiWeight, S) <= OverLevels(MultiWeight, T)
      /\ S \subseteq T \union {SUBDISTRICT} => OverLevels(MultiWeight, S) <= OverLevels(MultiWeight, T) + 5
  BY DEF OverLevels, MultiWeight, PROVINCE, CITY, DISTRICT, SUBDISTRICT
<1> DEFINE a == OverLevels(MultiWeight, S)
           b == OverLevels(MultiWeight, T)
<1> HIDE DEF a, b
<1>2. a \in Nat /\ b \in Nat
  BY <1>1 DEF a, b
<1>3. (a <= b => Capped(a, 40) <= Capped(b, 40)) /\ (a <= b + 5 => Capped(a, 40) <= Capped(b, 40) + 5) /\ Capped(b, 40) \in 0..40
  BY <1>2 DEF Capped
<1> QED
  BY <1>1, <1>3 DEF a, b

\* What the levels weigh that have evidence: all four 40, the upper three 35.
LEMMA WeightOfLevels ==
  ASSUME NEW S
  PROVE  /\ OverLevels(LevelWeight, S) \in 0..40
         /\ 4 \notin S => OverLevels(LevelWeight, S) <= 35
         /\ S \subseteq {4} => OverLevels(LevelWeight, S) <= 5
         /\ {1, 2, 3, 4} \subseteq S => OverLevels(LevelWeight, S) = 40
  BY DEF OverLevels, LevelWeight, PROVINCE, CITY, DISTRICT, SUBDISTRICT

\* The bonus for the postal code is at most 20, none without a code in the text,
\* and 20 for a place that bears it.
LEMMA CodeBonus ==
  ASSUME NEW res, Extracted(res), NEW loc
  PROVE  /\ PrefixBonus(loc, res) \in 0..20
         /\ PostalPositions = {} => PrefixBonus(loc, res) = 0
         /\ \A e \in loc : /\ BearsTheCode(e) /\ e \in Ids
                           /\ Code(loc) = PostalCode /\ PostalCode # NoCode
                           => PrefixBonus(loc, res) = 20
<1> DEFINE coded == {n \in Matched(loc, res) : res[n[1]].type = "postal_code"}
           codes == {res[m[1]].value[1] : m \in coded}
           digits == {SharedDigits(c, Code(loc)) : c \in codes}
<1>1. PrefixBonus(loc, res) =
        CASE Code(loc) = NoCode \/ digits = {} -> 0
          [] Max(digits \union {0}) >= 5 -> 20
          [] Max(digits \union {0}) = 4  -> 10
          [] Max(digits \union {0}) = 3  -> 7
          [] OTHER             -> 0
  BY DEF PrefixBonus
<1>2. PrefixBonus(loc, res) \in 0..20
  BY DEF PrefixBonus
<1>3. \A n \in coded : CodePiece(res, n[1])
  BY DEF Matched, Extracted, WordPiece
<1>4. ASSUME PostalPositions = {} PROVE PrefixBonus(loc, res) = 0
  <2>1. coded = {}
    <3> HIDE DEF coded
    <3> QED
      BY <1>3, <1>4 DEF CodePiece
  <2>2. digits = {}
    BY <2>1
  <2>3. Max({} \union {0}) = 0
    <3>1. {} \union {0} \in SUBSET Int /\ {} \union {0} # {} /\ \A x \in {} \union {0} : x <= 0
      OBVIOUS
    <3>2. Max({} \union {0}) \in {} \union {0}
      BY <3>1, BoundedHasMax
    <3> QED
      BY <3>2
  <2> HIDE DEF digits
  <2>4. Max(digits \union {0}) = 0
    BY <2>2, <2>3
  <2> QED
    BY <1>1, <2>2, <2>4
<1>5. ASSUME NEW e \in loc, BearsTheCode(e), e \in Ids, Code(loc) = PostalCode, PostalCode # NoCode
      PROVE  PrefixBonus(loc, res) = 20
  <2>1. PICK i \in DOMAIN res : CodePiece(res, i)
    BY <1>5 DEF Extracted, BearsTheCode
  <2>2. <<i, e>> \in coded
    <3>1. e \in res[i].found
      BY <1>5, <2>1 DEF CodePiece, BearsTheCode
    <3> QED
      BY <1>5, <2>1, <3>1 DEF Matched, CodePiece
  <2>3. codes = {PostalCode}
    <3>1. \A n \in coded : res[n[1]].value[1] = PostalCode
      <4>1. \A n \in coded : res[n[1]].value = <<PostalCode>>
        BY <1>3 DEF CodePiece
      <4> HIDE DEF coded
      <4> QED
        BY <4>1
    <3> HIDE DEF coded
    <3> QED
      BY <2>2, <3>1
  <2>4. SharedDigits(PostalCode, PostalCode) = 5
    <3> DEFINE S == {n \in 0..5 : SubSeq(PostalCode, 1, n) = SubSeq(PostalCode, 1, n)}
    <3>1. S \in SUBSET Int /\ S # {} /\ 5 \in S /\ \A x \in S : x <= 5
      OBVIOUS
    <3>2. SharedDigits(PostalCode, PostalCode) = Max(S)
      BY DEF SharedDigits
    <3> HIDE DEF S
    <3>3. Max(S) \in S /\ \A x \in S : x <= Max(S)
      BY <3>1, BoundedHasMax
    <3>4. Max(S) \in Int /\ Max(S) <= 5 /\ 5 <= Max(S)
      BY <3>1, <3>3
    <3> QED
      BY <3>2, <3>4
  <2>5. digits = {5}
    <3> HIDE DEF codes
    <3> QED
      BY <1>5, <2>3, <2>4
  <2>6. Max(digits \union {0}) = 5
    <3>1. {5} \union {0} \in SUBSET Int /\ {5} \union {0} # {} /\ \A x \in {5} \union {0} : x <= 5
      OBVIOUS
    <3>2. Max({5} \union {0}) \in {5} \union {0} /\ \A x \in {5} \union {0} : x <= Max({5} \union {0})
      BY <3>1, BoundedHasMax
    <3> HIDE DEF digits
    <3> QED
      BY <2>5, <3>2
  <2>7. ~(Code(loc) = NoCode \/ digits = {}) /\ Max(digits \union {0}) >= 5
    <3> HIDE DEF digits
    <3> QED
      BY <1>5, <2>5, <2>6
  <2> HIDE DEF digits
  <2> QED
    BY <1>1, <2>7
<1> QED
  BY <1>2, <1>4, <1>5

-----------------------------------------------------------------------------
\* The best score that a location can have with so many pieces left unused, from
\* the weights of its levels and of the rest.
AtMost(base, loc, res, unused) == Capped(base + PrefixBonus(loc, res) + MultiBonus(loc, res), 100) - 3 * unused

\* The place that is meant has evidence at every level, no conflict and its code:
\* 10 for evidence, 15 for its city, 5 for its code and 40 for its levels.
LEMMA ScoreOfThePlace ==
  ASSUME IsSequence(text.words), NEW s \in Ids, Placed(s), ReadAs(s), Rows[s].postal # NoCode,
         NEW res, Pieces(res), Extracted(res), NEW n \in Nat
  PROVE  /\ Score(Uppers(s), res, n) = AtMost(70, Uppers(s), res, n)
         /\ PostalPositions # {} => PrefixBonus(Uppers(s), res) = 20
<1> DEFINE U == Uppers(s)
<1>1. Enrich({s}) = U /\ OneOfEachLevel(U) /\ s \in U /\ LevelOf(s) = 4
  BY EnrichIsUppers, OneUpperOfALevel DEF Placed, SUBDISTRICT
<1>2. \A u \in U : u \in MatchedEntities(U, res) /\ Matched(U, res) # {}
  <2> TAKE u \in U
  <2>1. PICK i \in DOMAIN res : u \in res[i].found
    BY EvidenceOfAPlace
  <2>2. <<i, u>> \in Matched(U, res) /\ <<i, u>>[2] = u
    BY <2>1 DEF Matched
  <2> QED
    BY <2>2 DEF MatchedEntities
<1>3. ~HierarchyConflict(U)
  BY <1>1, EnrichIsConsistent DEF Consistent, HierarchyConflict, At, CITY, SUBDISTRICT
<1>4. At(U, CITY) # {} /\ {1, 2, 3, 4} \subseteq {LevelOf(e) : e \in MatchedEntities(U, res)}
  <2>1. \A level \in 1..4 : \E x \in U : LevelOf(x) = level
    BY <1>1 DEF OneOfEachLevel, Levels, PROVINCE, SUBDISTRICT
  <2>2. \A level \in 1..4 : \E x \in MatchedEntities(U, res) : LevelOf(x) = level
    BY <1>2, <2>1
  <2> QED
    BY <2>1, <2>2 DEF At, CITY
<1>5. Code(U) = Rows[s].postal
  <2>1. At(U, SUBDISTRICT) = {s}
    BY <1>1 DEF At, OneOfEachLevel, SUBDISTRICT
  <2>2. {Rows[x].postal : x \in At(U, SUBDISTRICT)} \ {NoCode} = {Rows[s].postal}
    BY <2>1
  <2> QED
    BY <2>2 DEF Code
<1>6. ASSUME PostalPositions # {} PROVE PrefixBonus(U, res) = 20
  <2>1. PostalCode = Rows[s].postal
    BY <1>6, ReadPhrases
  <2>2. BearsTheCode(s)
    BY <1>1, <1>6, <2>1 DEF BearsTheCode, SUBDISTRICT
  <2> QED
    BY <1>1, <1>5, <2>1, <2>2, CodeBonus
<1>7. OverLevels(LevelWeight, {LevelOf(e) : e \in MatchedEntities(U, res)}) = 40
  BY <1>4, WeightOfLevels
<1>8. PrefixBonus(U, res) \in 0..20 /\ MultiBonus(U, res) \in 0..40
  BY CodeBonus, BonusOverLevels, OneLevelMore
<1>9. Matched(U, res) # {} /\ Code(U) # NoCode
  BY <1>1, <1>2, <1>5
<1> HIDE DEF U
<1>10. Score(U, res, n) = Capped(10 + 15 + (5 + PrefixBonus(U, res)) + 40 + MultiBonus(U, res), 100) - 3 * n
  BY <1>3, <1>4, <1>7, <1>9 DEF Score
<1>11. 10 + 15 + (5 + PrefixBonus(U, res)) + 40 + MultiBonus(U, res) = 70 + PrefixBonus(U, res) + MultiBonus(U, res)
  BY <1>8
<1> QED
  BY <1>6, <1>10, <1>11 DEF AtMost, U

\* No location scores higher; without a subdistrict it lacks 10, and a subdistrict
\* alone lacks 50.
LEMMA ScoreOfAny ==
  ASSUME NEW c \in SUBSET Ids, NEW res, Extracted(res), NEW n \in Nat
  PROVE  /\ Score(c, res, n) <= AtMost(70, c, res, n)
         /\ At(c, SUBDISTRICT) = {} => Score(c, res, n) <= Capped(60 + MultiBonus(c, res), 100) - 3 * n
         /\ (\A e \in c : LevelOf(e) = SUBDISTRICT) => Score(c, res, n) <= AtMost(20, c, res, n)
         /\ Score(c, res, n) \in Int
<1> DEFINE L == {LevelOf(e) : e \in MatchedEntities(c, res)}
           any == IF Matched(c, res) # {} THEN 10 ELSE 0
           city == IF ~HierarchyConflict(c) /\ At(c, CITY) # {} THEN 15 ELSE 0
           code == IF Code(c) # NoCode THEN 5 + PrefixBonus(c, res) ELSE 0
           weight == OverLevels(LevelWeight, L)
           p == PrefixBonus(c, res)
           m == MultiBonus(c, res)
<1>1. Score(c, res, n) = Capped(any + city + code + weight + m, 100) - 3 * n
  BY DEF Score
<1>2. p \in 0..20 /\ m \in 0..40 /\ weight \in 0..40
  BY CodeBonus, BonusOverLevels, OneLevelMore, WeightOfLevels
<1>3. any \in 0..10 /\ city \in 0..15 /\ code \in 0..5 + p
  BY <1>2
<1>4. MatchedEntities(c, res) \subseteq c
  BY DEF MatchedEntities, Matched
<1>5. ASSUME At(c, SUBDISTRICT) = {} PROVE code = 0 /\ weight <= 35
  <2>1. 4 \notin L
    BY <1>4, <1>5 DEF At, SUBDISTRICT
  <2>2. {Rows[x].postal : x \in At(c, SUBDISTRICT)} \ {NoCode} = {}
    BY <1>5
  <2>3. Code(c) = NoCode
    BY <2>2 DEF Code
  <2> HIDE DEF L
  <2> QED
    BY <2>1, <2>3, WeightOfLevels
<1>6. ASSUME \A e \in c : LevelOf(e) = SUBDISTRICT PROVE city = 0 /\ weight <= 5
  <2>1. L \subseteq {4}
    BY <1>4, <1>6 DEF SUBDISTRICT
  <2>2. At(c, CITY) = {}
    BY <1>6 DEF At, CITY, SUBDISTRICT
  <2> HIDE DEF L
  <2> QED
    BY <2>1, <2>2, WeightOfLevels
<1> HIDE DEF any, city, code, weight, L, p, m
<1>7. \A x, y \in Int : x <= y => Capped(x, 100) <= Capped(y, 100) /\ Capped(x, 100) \in Int
  BY DEF Capped
<1>8. any + city + code + weight + m \in Int /\ 70 + p + m \in Int /\ any + city + code + weight + m <= 70 + p + m
  BY <1>2, <1>3
<1>9. At(c, SUBDISTRICT) = {} => any + city + code + weight + m <= 60 + m /\ 60 + m \in Int
  BY <1>2, <1>3, <1>5
<1>10. (\A e \in c : LevelOf(e) = SUBDISTRICT) => any + city + code + weight + m <= 20 + p + m /\ 20 + p + m \in Int
  BY <1>2, <1>3, <1>6
<1> DEFINE x == any + city + code + weight + m
<1>11. x \in Int /\ Score(c, res, n) = Capped(x, 100) - 3 * n
  BY <1>1, <1>8
<1>12. Capped(x, 100) \in Int /\ Capped(x, 100) <= Capped(70 + p + m, 100) /\ Capped(70 + p + m, 100) \in Int
  <2> HIDE DEF x
  <2> QED
    BY <1>2, <1>7, <1>8, <1>11 DEF x
<1>13. At(c, SUBDISTRICT) = {} => Capped(x, 100) <= Capped(60 + m, 100) /\ Capped(60 + m, 100) \in Int
  <2> HIDE DEF x
  <2> QED
    BY <1>2, <1>7, <1>9, <1>11 DEF x
<1>14. (\A e \in c : LevelOf(e) = SUBDISTRICT) => Capped(x, 100) <= Capped(20 + p + m, 100) /\ Capped(20 + p + m, 100) \in Int
  <2> HIDE DEF x
  <2> QED
    BY <1>2, <1>7, <1>10, <1>11 DEF x
<1> HIDE DEF x
<1>15. /\ Score(c, res, n) <= Capped(70 + p + m, 100) - 3 * n
       /\ At(c, SUBDISTRICT) = {} => Score(c, res, n) <= Capped(60 + m, 100) - 3 * n
       /\ (\A e \in c : LevelOf(e) = SUBDISTRICT) => Score(c, res, n) <= Capped(20 + p + m, 100) - 3 * n
       /\ Score(c, res, n) \in Int
  <2> HIDE DEF Capped
  <2> QED
    BY <1>11, <1>12, <1>13, <1>14
<1> QED
  BY <1>15 DEF AtMost, p, m

\* No location has more bonuses than the place that is meant, but for that of its
\* subdistrict, and that one only where the subdistrict is a rival.
LEMMA BonusesOfOthers ==
  ASSUME IsSequence(text.words), NEW s \in Ids, Placed(s), ReadAs(s), Rows[s].postal # NoCode,
         Unrivalled(s, PROVINCE..DISTRICT), NEW res, Pieces(res), Extracted(res), NEW c \in SUBSET Ids
  PROVE  /\ PrefixBonus(c, res) <= PrefixBonus(Uppers(s), res)
         /\ MultiBonus(c, res) <= MultiBonus(Uppers(s), res) + 5
         /\ Unrivalled(s, {SUBDISTRICT}) \/ At(c, SUBDISTRICT) = {} =>
              MultiBonus(c, res) <= MultiBonus(Uppers(s), res)
<1> DEFINE U == Uppers(s)
           T(loc) == TwiceLevels(loc, res)
<1>1. s \in U /\ LevelOf(s) = SUBDISTRICT /\ U \subseteq Ids
  BY OneUpperOfALevel DEF Placed
<1>2. PrefixBonus(c, res) <= PrefixBonus(U, res)
  <2>1. PrefixBonus(c, res) \in 0..20 /\ (PostalPositions = {} => PrefixBonus(c, res) = 0 /\ PrefixBonus(U, res) = 0)
    BY CodeBonus
  <2>2. PostalPositions # {} => PrefixBonus(U, res) = 20
    <3>1. 0 \in Nat
      OBVIOUS
    <3> QED
      BY <3>1, ScoreOfThePlace
  <2> QED
    BY <2>1, <2>2
<1>3. ASSUME NEW e \in c, FoundTwice(e, res), LevelOf(e) \in PROVINCE..DISTRICT \/ Unrivalled(s, {SUBDISTRICT})
      PROVE  LevelOf(e) \in T(U)
  <2>1. CASE Several(NameOf[e]) /\ NameOf[e] \in NamesOf(s)
    <3>1. e \in Ids /\ (LevelOf(e) \in PROVINCE..DISTRICT \/ LevelOf(e) \in {SUBDISTRICT})
      BY LevelType DEF PROVINCE, DISTRICT, SUBDISTRICT
    <3>2. PICK u \in At(U, LevelOf(e)) : Several(NameOf[u])
      BY <1>3, <2>1, <3>1 DEF Unrivalled
    <3>3. u \in U /\ LevelOf(u) = LevelOf(e)
      BY DEF At
    <3>4. FoundTwice(u, res)
      BY <3>2, <3>3, EvidenceOfAPlace
    <3> QED
      BY <3>3, <3>4 DEF TwiceLevels
  <2>2. CASE BearsTheCode(e)
    <3>1. LevelOf(e) = LevelOf(s) /\ PostalPositions # {}
      BY <1>1, <2>2 DEF BearsTheCode
    <3>2. FoundTwice(s, res)
      BY <3>1, EvidenceOfAPlace
    <3> QED
      BY <1>1, <3>1, <3>2 DEF TwiceLevels
  <2> QED
    BY <1>3, <2>1, <2>2, EvidenceOfAPlace
<1>4. \A e \in c : LevelOf(e) \in PROVINCE..DISTRICT \/ LevelOf(e) = SUBDISTRICT
  BY LevelType DEF PROVINCE, DISTRICT, SUBDISTRICT
<1>5. T(c) \subseteq T(U) \union {SUBDISTRICT}
  BY <1>3, <1>4 DEF TwiceLevels
<1>6. Unrivalled(s, {SUBDISTRICT}) \/ At(c, SUBDISTRICT) = {} => T(c) \subseteq T(U)
  BY <1>3, <1>4 DEF TwiceLevels, At
<1> HIDE DEF U
<1> QED
  BY <1>2, <1>5, <1>6, BonusOverLevels, OneLevelMore DEF U

-----------------------------------------------------------------------------
\* A location uses a piece of evidence that has found one of its entities.
LEMMA WhatALocationUses ==
  ASSUME NEW res, Pieces(res), Extracted(res), NEW loc, NEW i \in DOMAIN res
  PROVE  res[i].value \in UsedValues(loc, res) <=> \E e \in loc : e \in res[i].found
<1>1. ASSUME NEW e \in loc, e \in res[i].found PROVE res[i].value \in UsedValues(loc, res)
  <2>1. <<i, e>> \in Matched(loc, res) /\ <<i, e>>[1] = i
    BY <1>1 DEF Matched
  <2> QED
    BY <2>1 DEF UsedValues
<1>2. ASSUME res[i].value \in UsedValues(loc, res) PROVE \E e \in loc : e \in res[i].found
  <2>1. PICK m \in Matched(loc, res) : res[m[1]].value = res[i].value
    BY <1>2 DEF UsedValues
  <2>2. m[1] \in DOMAIN res /\ m[2] \in loc /\ m[2] \in res[m[1]].found
    BY DEF Matched
  <2>3. ~res[i].fuzzy /\ ~res[m[1]].fuzzy
    BY <2>2 DEF Extracted
  <2>4. m[1] = i
    BY <2>1, <2>2, <2>3 DEF Pieces
  <2> QED
    BY <2>2, <2>4
<1> QED
  BY <1>1, <1>2

\* Whatever another location uses of the evidence, the place that is meant uses
\* too, and its names besides.
LEMMA ThePlaceUsesMost ==
  ASSUME IsSequence(text.words), NEW s \in Ids, Placed(s), ReadAs(s),
         NEW res, IsSequence(res), Pieces(res), Extracted(res), NEW c
  PROVE  /\ Unused(Uppers(s), res, {}) \in Nat /\ Unused(c, res, {}) \in Nat
         /\ Unused(Uppers(s), res, {}) <= Unused(c, res, {})
         /\ \A w \in WordsOf(s) : (\A e \in c : w \notin Range(NameOf[e])) =>
              Unused(Uppers(s), res, {}) < Unused(c, res, {})
<1> DEFINE Of(loc) == {i \in DOMAIN res : ~res[i].fuzzy /\ res[i].value[1] \notin {}
                                          /\ res[i].value \notin UsedValues(loc, res)}
           U == Uppers(s)
<1>1. \A loc, i : i \in Of(loc) <=> i \in DOMAIN res /\ ~\E e \in loc : e \in res[i].found
  BY WhatALocationUses DEF Extracted
<1>2. Unused(U, res, {}) = Cardinality(Of(U)) /\ Unused(c, res, {}) = Cardinality(Of(c))
  BY DEF Unused
<1>3. \A loc : Of(loc) \subseteq DOMAIN res
  OBVIOUS
<1> HIDE DEF Of, U
<1>4. Of(U) \in SUBSET Of(c)
  <2>1. \A i \in DOMAIN res : res[i].found # {} => \E e \in U : e \in res[i].found
    BY EvidenceOfAPlace DEF U
  <2> QED
    BY <1>1, <2>1
<1>5. IsFiniteSet(Of(c)) /\ IsFiniteSet(Of(U))
  BY <1>3, DomainIsFinite, FS_Subset
<1>6. Cardinality(Of(U)) \in Nat /\ Cardinality(Of(c)) \in Nat /\ Cardinality(Of(U)) <= Cardinality(Of(c))
      /\ (Cardinality(Of(U)) = Cardinality(Of(c)) => Of(U) = Of(c))
  BY <1>4, <1>5, FS_Subset, FS_CardinalityType
<1>7. ASSUME NEW w \in WordsOf(s), \A e \in c : w \notin Range(NameOf[e]) PROVE Of(U) # Of(c)
  <2>1. PICK i \in DOMAIN res : WordPiece(res, i) /\ res[i].value = <<w>> /\ \E u \in U : u \in res[i].found
    BY EvidenceOfAPlace DEF U
  <2>2. res[i].value[1] = w
    BY <2>1
  <2>3. res[i].found = PhraseEntities(text.words, w)
    BY <2>1, <2>2, WordPieceFinds
  <2>4. \A e \in c : e \notin res[i].found
    BY <1>7, <2>3, MeaningHasTheWord
  <2>5. i \in Of(c)
    BY <1>1, <2>4
  <2>6. i \notin Of(U)
    BY <1>1, <2>1
  <2> QED
    BY <2>5, <2>6
<1> QED
  BY <1>2, <1>6, <1>7 DEF U

\* A location without an entity of the lowest level has fewer than four.
LEMMA FewerWithoutSubdistrict ==
  ASSUME NEW e \in Ids, At(Enrich({e}), SUBDISTRICT) = {}
  PROVE  Cardinality(Enrich({e})) \in 0..3
<1> DEFINE c == Enrich({e})
           level == [x \in c |-> LevelOf(x)]
<1>1. \A x \in c : x \in Ids /\ LevelOf(x) \in 1..3
  <2>1. c \subseteq Ids
    BY EnrichGoesUp
  <2> QED
    BY <2>1, LevelType DEF At, SUBDISTRICT
<1>2. \A x, y \in c : LevelOf(x) = LevelOf(y) => x = y
  BY EnrichIsConsistent DEF Consistent
<1>3. level \in Injection(c, 1..3)
  <2> HIDE DEF c
  <2> QED
    BY <1>1, <1>2 DEF Injection, IsInjective
<1>4. IsFiniteSet(1..3) /\ Cardinality(1..3) = 3
  <2>1. \A n \in Nat : IsFiniteSet(1..n) /\ Cardinality(1..n) = n
    BY FS_Interval
  <2> QED
    BY <2>1
<1> HIDE DEF level, c
<1>5. IsFiniteSet(c) /\ Cardinality(c) <= 3
  BY <1>3, <1>4, FS_Injection
<1>6. Cardinality(c) \in Nat
  BY <1>5, FS_CardinalityType
<1> QED
  BY <1>5, <1>6 DEF c

\* What every other candidate is: another place with all its uppers, at most 5
\* ahead, and behind where the place that is meant is alone with its words; or a
\* smaller location, not ahead.
LEMMA OthersScoreLess ==
  ASSUME IsSequence(text.words), NEW s \in Ids, Placed(s), ReadAs(s), Rows[s].postal # NoCode,
         Unrivalled(s, PROVINCE..DISTRICT), NEW res, IsSequence(res), Pieces(res), Extracted(res),
         NEW e \in Ids, Enrich({e}) # Uppers(s)
  PROVE  /\ ScoreOf(Enrich({e}), res, {}) <= ScoreOf(Uppers(s), res, {}) + 5
         /\ \/ /\ OneOfEachLevel(Enrich({e}))
               /\ Alone(s) /\ Unrivalled(s, {SUBDISTRICT}) =>
                    ScoreOf(Enrich({e}), res, {}) < ScoreOf(Uppers(s), res, {})
            \/ /\ ScoreOf(Enrich({e}), res, {}) <= ScoreOf(Uppers(s), res, {})
               /\ Cardinality(Enrich({e})) \in 0..3
<1> DEFINE c == Enrich({e})
           U == Uppers(s)
           m == Unused(U, res, {})
           n == Unused(c, res, {})
           p == PrefixBonus(c, res)
           q == PrefixBonus(U, res)
           a == MultiBonus(c, res)
           b == MultiBonus(U, res)
<1>1. ScoreOf(c, res, {}) = Score(c, res, n) /\ ScoreOf(U, res, {}) = Score(U, res, m)
  BY DEF ScoreOf
<1>2. m \in Nat /\ n \in Nat /\ m <= n
  BY ThePlaceUsesMost
<1>3. c \in SUBSET Ids /\ \A x \in c : LevelOf(x) = LevelOf(e) => x = e
  BY EnrichGoesUp
<1>4. p \in 0..20 /\ q \in 0..20 /\ a \in 0..40 /\ b \in 0..40
  BY CodeBonus, BonusOverLevels, OneLevelMore
<1>5. Score(U, res, m) = Capped(70 + q + b, 100) - 3 * m
  BY <1>2, ScoreOfThePlace DEF AtMost
<1>6. /\ Score(c, res, n) <= Capped(70 + p + a, 100) - 3 * n
      /\ At(c, SUBDISTRICT) = {} => Score(c, res, n) <= Capped(60 + a, 100) - 3 * n
      /\ (\A x \in c : LevelOf(x) = SUBDISTRICT) => Score(c, res, n) <= Capped(20 + p + a, 100) - 3 * n
      /\ Score(c, res, n) \in Int
  BY <1>2, <1>3, ScoreOfAny DEF AtMost
<1>7. p <= q /\ a <= b + 5 /\ (Unrivalled(s, {SUBDISTRICT}) \/ At(c, SUBDISTRICT) = {} => a <= b)
  BY <1>3, BonusesOfOthers
<1> HIDE DEF m, n, p, q, a, b
<1>8. \A x, y \in Int : /\ x <= y => Capped(x, 100) <= Capped(y, 100)
                        /\ x <= y + 5 => Capped(x, 100) <= Capped(y, 100) + 5
                        /\ Capped(x, 100) \in Int
  BY DEF Capped
<1>9. Score(c, res, n) <= Score(U, res, m) + 5
  <2>1. 70 + p + a \in Int /\ 70 + q + b \in Int /\ 70 + p + a <= (70 + q + b) + 5
    BY <1>4, <1>7
  <2>2. Capped(70 + p + a, 100) <= Capped(70 + q + b, 100) + 5 /\ Capped(70 + p + a, 100) \in Int /\ Capped(70 + q + b, 100) \in Int
    BY <1>8, <2>1
  <2> QED
    BY <1>2, <1>5, <1>6, <2>2
<1>10. CASE At(c, SUBDISTRICT) = {}
  <2>1. 60 + a \in Int /\ 70 + q + b \in Int /\ 60 + a <= 70 + q + b
    BY <1>4, <1>7, <1>10
  <2>2. Capped(60 + a, 100) <= Capped(70 + q + b, 100) /\ Capped(60 + a, 100) \in Int /\ Capped(70 + q + b, 100) \in Int
    BY <1>8, <2>1
  <2>3. Score(c, res, n) <= Score(U, res, m)
    <3>1. Score(c, res, n) <= Capped(60 + a, 100) - 3 * n
      BY <1>6, <1>10
    <3> QED
      BY <1>2, <1>5, <1>6, <2>2, <3>1
  <2>4. Cardinality(c) \in 0..3
    BY <1>10, FewerWithoutSubdistrict
  <2> QED
    BY <1>1, <1>9, <2>3, <2>4
<1>11. CASE At(c, SUBDISTRICT) # {}
  <2>1. LevelOf(e) = SUBDISTRICT
    <3>1. PICK x \in c : LevelOf(x) = SUBDISTRICT
      BY <1>11 DEF At
    <3>2. LevelOf(x) <= LevelOf(e) /\ LevelOf(e) \in 1..4
      BY EnrichGoesUp, LevelType
    <3> QED
      BY <3>1, <3>2 DEF SUBDISTRICT
  <2>2. CASE ~Placed(e)
    <3>1. c = {e}
      BY <2>1, <2>2, EnrichIsUppers
    <3>2. 20 + p + a \in Int /\ 70 + q + b \in Int /\ 20 + p + a <= 70 + q + b
      BY <1>4, <1>7
    <3>3. Capped(20 + p + a, 100) <= Capped(70 + q + b, 100) /\ Capped(20 + p + a, 100) \in Int /\ Capped(70 + q + b, 100) \in Int
      BY <1>8, <3>2
    <3>4. Score(c, res, n) <= Score(U, res, m)
      <4>1. \A x \in c : LevelOf(x) = SUBDISTRICT
        BY <2>1, <3>1
      <4>2. Score(c, res, n) <= Capped(20 + p + a, 100) - 3 * n
        BY <1>6, <4>1
      <4> QED
        BY <1>2, <1>5, <1>6, <3>3, <4>2
    <3>5. Cardinality(c) = 1
      BY <3>1, FS_Singleton
    <3> QED
      BY <1>1, <1>9, <3>4, <3>5
  <2>3. CASE Placed(e)
    <3>1. c = Uppers(e) /\ OneOfEachLevel(c) /\ e # s
      BY <2>1, <2>3, EnrichIsUppers
    <3>2. ASSUME Alone(s), Unrivalled(s, {SUBDISTRICT}) PROVE Score(c, res, n) < Score(U, res, m)
      <4>1. PICK w \in WordsOf(s) : w \notin WordsOf(e)
        BY <2>3, <3>1, <3>2 DEF Alone
      <4>2. \A x \in c : w \notin Range(NameOf[x])
        BY <3>1, <4>1 DEF WordsOf, NamesOf
      <4>3. m < n
        BY <4>2, ThePlaceUsesMost DEF m, n
      <4>4. 70 + p + a \in Int /\ 70 + q + b \in Int /\ 70 + p + a <= 70 + q + b
        BY <1>4, <1>7, <3>2
      <4>5. Capped(70 + p + a, 100) <= Capped(70 + q + b, 100) /\ Capped(70 + p + a, 100) \in Int /\ Capped(70 + q + b, 100) \in Int
        BY <1>8, <4>4
      <4> QED
        BY <1>2, <1>5, <1>6, <4>3, <4>5
    <3> QED
      BY <1>1, <1>9, <3>1, <3>2
  <2> QED
    BY <2>2, <2>3
<1> QED
  BY <1>10, <1>11

-----------------------------------------------------------------------------
\* Whatever wins among the candidates of the evidence: it is the place that is
\* meant, or another place too close to it for the answer to be VALID.
LEMMA TheWinnerIsThePlace ==
  ASSUME IsSequence(text.words), IsSequence(resolved), Pieces(resolved), Extracted(resolved), explained = {},
         cands = Candidates(resolved), NEW s \in Ids, Placed(s), ReadAs(s), Rows[s].postal # NoCode,
         Unrivalled(s, PROVINCE..DISTRICT),
         NEW w \in Winners(cands, resolved, explained), NEW q \in Statuses(w, resolved, explained)
  PROVE  w = Uppers(s) \/ (q = "AMBIGUOUS" /\ ~(Alone(s) /\ Unrivalled(s, {SUBDISTRICT})))
<1> DEFINE U == Uppers(s)
<1>1. U \in cands
  <2>1. s \in Discovered(resolved)
    BY UppersAreDiscovered, OneUpperOfALevel
  <2>2. Enrich({s}) = U
    BY EnrichIsUppers DEF Placed
  <2> QED
    BY <2>1, <2>2 DEF Candidates
<1>2. w \in cands /\ \A d \in cands : ~Better(d, w, resolved, {})
  BY DEF Winners
<1>3. SUFFICES ASSUME w # U PROVE q = "AMBIGUOUS" /\ ~(Alone(s) /\ Unrivalled(s, {SUBDISTRICT}))
  OBVIOUS
<1>4. PICK e \in Ids : w = Enrich({e})
  BY <1>2, CandidatesAreEnriched
<1> DEFINE a == ScoreOf(w, resolved, {})
           b == ScoreOf(U, resolved, {})
<1>5. a \in Int /\ b \in Int
  BY ScoreType
<1>6. ~(b > a) /\ ~(b = a /\ Cardinality(U) > Cardinality(w))
  BY <1>1, <1>2 DEF Better
<1>7. /\ a <= b + 5
      /\ \/ OneOfEachLevel(w) /\ (Alone(s) /\ Unrivalled(s, {SUBDISTRICT}) => a < b)
         \/ a <= b /\ Cardinality(w) \in 0..3
  BY <1>3, <1>4, OthersScoreLess
<1>8. Cardinality(U) = 4
  BY EnrichIsUppers DEF Placed, OneOfEachLevel
<1> HIDE DEF a, b, U
<1>9. OneOfEachLevel(w) /\ ~(Alone(s) /\ Unrivalled(s, {SUBDISTRICT}))
  BY <1>5, <1>6, <1>7, <1>8
<1>10. Quality(w, resolved) = "VALID"
  <2>1. Conflicts(w, resolved) = {}
    BY <1>4, CandidateHasNoConflict
  <2>2. w # {} /\ ~\E level \in PROVINCE..DISTRICT : At(w, level) = {}
    <3>1. \A level \in 1..4 : \E x \in w : LevelOf(x) = level
      BY <1>9 DEF OneOfEachLevel, Levels, PROVINCE, SUBDISTRICT
    <3> QED
      BY <3>1 DEF At, PROVINCE, DISTRICT
  <2> QED
    BY <2>1, <2>2 DEF Quality
<1>11. q \in {"VALID", "AMBIGUOUS"} /\
       (q = "VALID" => \A c \in cands \ {w} : ~Ambiguous(ScoreOf(w, resolved, {}), ScoreOf(c, resolved, {})))
  BY <1>10 DEF Statuses
<1>12. Ambiguous(ScoreOf(w, resolved, {}), ScoreOf(U, resolved, {}))
  BY <1>5, <1>7 DEF Ambiguous, a, b
<1>13. q # "VALID"
  BY <1>1, <1>3, <1>11, <1>12
<1> QED
  BY <1>9, <1>11, <1>13

-----------------------------------------------------------------------------
\* The places as which the text is read.
Meant == {s \in Ids : Placed(s) /\ ReadAs(s)}
\* What is said of them at the end.
PlacesAreFound ==
  \A s \in Ids :
    Placed(s) /\ Rows[s].postal # NoCode /\ Unrivalled(s, PROVINCE..DISTRICT) /\ ReadAs(s) =>
      \/ answer.location = Uppers(s)
      \/ answer.status = "AMBIGUOUS" /\ ~(Alone(s) /\ Unrivalled(s, {SUBDISTRICT}))
\* The inductive invariant: where a place is meant, no stage changes what was
\* extracted, and so the ranking has it before it.
PlaceInv ==
  /\ stage = "prioritize" => Extracted(resolved)
  /\ stage \in {"compact", "build", "recover"} /\ Meant # {} => Extracted(resolved)
  /\ stage = "rank" /\ Meant # {} /\ Verbatim => Extracted(resolved) /\ explained = {}
  /\ stage \in {"postal", "done"} /\ Verbatim => PlacesAreFound

\* It holds: each stage keeps its part by the lemma about that stage.
LEMMA PlaceInvHolds == Spec => []PlaceInv
<1>1. Init => PlaceInv
  BY DEF Init, PlaceInv
<1>2. PipelineInv /\ TypeInv /\ CityInv /\ Settled /\ PlaceInv /\ [Next]_vars => PlaceInv'
  <2> SUFFICES ASSUME PipelineInv, TypeInv, CityInv, Settled, PlaceInv, [Next]_vars PROVE PlaceInv'
    OBVIOUS
  <2>0. IsSequence(text.words) /\ IsSequence(resolved) /\ Pieces(resolved)
    BY DEF PipelineInv, TypeInv
  <2>a. text' = text => /\ Extracted(resolved)' <=> Extracted(resolved')
                        /\ Meant' = Meant
    BY DEF Extracted, WordPiece, CodePiece, PostalPositions, PostalCode, Meant, ReadAs
  <2>b. \A s \in Meant : s \in Ids /\ Placed(s) /\ ReadAs(s)
    BY DEF Meant
  <2>c. text' = text /\ answer'.status = answer.status /\ answer'.location = answer.location => (PlacesAreFound <=> PlacesAreFound')
    BY DEF PlacesAreFound, ReadAs, PostalPositions, PostalCode
  <2>1. CASE Refuse \/ Fail
    BY <2>1 DEF Refuse, Fail, PlaceInv
  <2>2. CASE Clean
    BY <2>2 DEF Clean, PlaceInv
  <2>3. CASE Resolve
    <3>1. stage' = "prioritize" /\ text' = text
      BY <2>3 DEF Resolve
    <3>2. Extracted(resolved')
      BY <2>0, <2>3, ResolveExtracts
    <3> QED
      BY <2>a, <3>1, <3>2 DEF PlaceInv
  <2>4. CASE Prioritize
    <3>1. stage = "prioritize" /\ stage' = "compact" /\ text' = text
      BY <2>4 DEF Prioritize
    <3>2. Extracted(resolved)
      BY <3>1 DEF PlaceInv
    <3>3. ASSUME NEW s \in Meant PROVE Extracted(resolved')
      BY <2>0, <2>4, <2>b, <3>2, NothingIsSuppressed
    <3> QED
      BY <2>a, <3>1, <3>3 DEF PlaceInv
  <2>5. CASE CompactFallback
    <3>1. stage = "compact" /\ stage' = "build" /\ text' = text
      BY <2>5 DEF CompactFallback
    <3>2. ASSUME NEW s \in Meant PROVE Extracted(resolved')
      <4>1. Extracted(resolved)
        BY <3>1 DEF PlaceInv
      <4>2. resolved' = resolved
        BY <2>0, <2>5, <2>b, <4>1, NothingIsSpaced
      <4> QED
        BY <4>1, <4>2
    <3> QED
      BY <2>a, <3>1, <3>2 DEF PlaceInv
  <2>6. CASE Build
    <3>1. stage = "build" /\ stage' = "recover" /\ text' = text /\ resolved' = resolved
      BY <2>6 DEF Build
    <3>2. Meant # {} => Extracted(resolved')
      BY <3>1 DEF PlaceInv
    <3> QED
      BY <2>a, <3>1, <3>2 DEF PlaceInv
  <2>7. CASE Recover
    <3>1. stage = "recover" /\ stage' = "rank" /\ text' = text
      BY <2>7 DEF Recover
    <3>2. ASSUME Meant # {}, Verbatim' PROVE Extracted(resolved') /\ explained' = {}
      <4>1. Extracted(resolved)
        BY <3>1, <3>2 DEF PlaceInv
      <4>2. \A i \in DOMAIN resolved' : ~resolved'[i].fuzzy
        BY <3>2 DEF Verbatim
      <4>3. resolved' = resolved /\ explained' = {}
        BY <2>0, <2>7, <4>2, NothingIsRecovered
      <4> QED
        BY <4>1, <4>3
    <3> QED
      BY <2>a, <3>1, <3>2 DEF PlaceInv
  <2>8. CASE Rank
    <3>1. stage = "rank" /\ stage' = "postal" /\ text' = text /\ resolved' = resolved
      BY <2>8 DEF Rank
    <3>2. ASSUME Verbatim', NEW s \in Ids, Placed(s), Rows[s].postal # NoCode, Unrivalled(s, PROVINCE..DISTRICT), ReadAs(s)
          PROVE  \/ answer'.location = Uppers(s)
                 \/ answer'.status = "AMBIGUOUS" /\ ~(Alone(s) /\ Unrivalled(s, {SUBDISTRICT}))
      <4>1. s \in Meant /\ Verbatim
        BY <3>1, <3>2 DEF Meant, Verbatim
      <4>2. Extracted(resolved) /\ explained = {}
        BY <3>1, <4>1 DEF PlaceInv
      <4>3. cands = Candidates(resolved)
        BY <3>1 DEF CityInv
      <4>4. cands # {}
        <5>1. s \in Discovered(resolved)
          BY <2>0, <3>2, <4>2, UppersAreDiscovered, OneUpperOfALevel
        <5> QED
          BY <4>3, <5>1 DEF Candidates
      <4>5. PICK w \in Winners(cands, resolved, explained) : \E q \in Statuses(w, resolved, explained) :
              answer' = [status |-> q, confidence |-> ScoreOf(w, resolved, explained),
                         location |-> w, code |-> Code(w)]
        BY <2>8, <4>4 DEF Rank
      <4>6. PICK q \in Statuses(w, resolved, explained) :
              answer' = [status |-> q, confidence |-> ScoreOf(w, resolved, explained),
                         location |-> w, code |-> Code(w)]
        BY <4>5
      <4>7. w = Uppers(s) \/ (q = "AMBIGUOUS" /\ ~(Alone(s) /\ Unrivalled(s, {SUBDISTRICT})))
        BY <2>0, <3>2, <4>2, <4>3, TheWinnerIsThePlace
      <4>8. answer'.location = w /\ answer'.status = q
        BY <4>6
      <4> QED
        BY <4>7, <4>8
    <3>3. \A s \in Ids : ReadAs(s)' <=> ReadAs(s)
      BY <3>1 DEF ReadAs, PostalPositions, PostalCode
    <3>4. Verbatim' => PlacesAreFound'
      BY <3>2, <3>3 DEF PlacesAreFound
    <3> QED
      BY <3>1, <3>4 DEF PlaceInv
  <2>9. CASE PostalFallback
    <3>1. stage = "postal" /\ stage' = "done" /\ text' = text /\ resolved' = resolved
      BY <2>9 DEF PostalFallback
    <3>2. ASSUME answer.location # {} PROVE answer'.status = answer.status /\ answer'.location = answer.location
      <4>1. ~Unlocated /\ DOMAIN answer = {"status", "confidence", "location", "code"}
        BY <3>2 DEF Unlocated, PipelineInv
      <4>2. answer' = answer \/ answer' = [answer EXCEPT !.code = PostalCode]
        BY <2>9, <4>1 DEF PostalFallback
      <4> QED
        BY <4>1, <4>2
    <3>3. answer.status = "AMBIGUOUS" => answer.location # {}
      <4>1. CASE cands = {}
        BY <3>1, <4>1 DEF Settled, NoAnswer
      <4>2. CASE cands # {}
        <5>1. PICK w \in cands : answer.location = w
          <6>1. PICK w \in cands : \E q, n : winner = w /\ answer = [status |-> q, confidence |-> n,
                                                                      location |-> w, code |-> Code(w)]
            BY <3>1, <4>2 DEF Settled
          <6> QED
            BY <6>1
        <5>2. w # {}
          BY EnrichHasTheEntity DEF PipelineInv
        <5> QED
          BY <5>1, <5>2
      <4> QED
        BY <4>1, <4>2
    <3>4. \A s \in Ids : Uppers(s) # {}
      BY OneUpperOfALevel
    <3>5. Verbatim' => Verbatim /\ PlacesAreFound
      BY <3>1 DEF PlaceInv, Verbatim
    <3>6. ASSUME PlacesAreFound PROVE PlacesAreFound'
      <4>1. CASE answer.location # {}
        BY <2>c, <3>1, <3>2, <3>6, <4>1
      <4>2. CASE answer.location = {}
        <5>1. \A s \in Ids : ReadAs(s)' <=> ReadAs(s)
          BY <3>1 DEF ReadAs, PostalPositions, PostalCode
        <5>2. \A s \in Ids : ~(Placed(s) /\ Rows[s].postal # NoCode /\ Unrivalled(s, PROVINCE..DISTRICT) /\ ReadAs(s))
          BY <3>3, <3>4, <3>6, <4>2 DEF PlacesAreFound
        <5> QED
          BY <5>1, <5>2 DEF PlacesAreFound
      <4> QED
        BY <4>1, <4>2
    <3> QED
      BY <3>1, <3>5, <3>6 DEF PlaceInv
  <2>10. CASE Done \/ UNCHANGED vars
    <3>1. UNCHANGED <<stage, text, resolved, explained, answer>>
      BY <2>10 DEF Done, vars
    <3>2. Verbatim' <=> Verbatim
      BY <3>1 DEF Verbatim
    <3> QED
      BY <2>a, <2>c, <3>1, <3>2 DEF PlaceInv
  <2> QED
    BY <2>1, <2>2, <2>3, <2>4, <2>5, <2>6, <2>7, <2>8, <2>9, <2>10 DEF Next
<1> QED
  BY <1>1, <1>2, PipelineInvHolds, TypeInvHolds, CityInvHolds, SettledHolds, PTL DEF Spec

\* For every gazetteer and every text: an address that is read as the names of a
\* subdistrict and its uppers is answered with it or is AMBIGUOUS, when the uppers
\* are unrivalled; and it is answered with it when no other place has all the words
\* and it is unrivalled itself (validate_helper.go:276-362,
\* evaluate.go:37-97, 220-330, validate_v1.go:63-78).
THEOREM CompleteAddressIsFound == Spec => []CompleteAddressResolves
<1>1. PlaceInv => CompleteAddressResolves
  BY DEF PlaceInv, PlacesAreFound, CompleteAddressResolves
<1> QED
  BY <1>1, PlaceInvHolds, PTL
=============================================================================
