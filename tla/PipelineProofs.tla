-------------------------- MODULE PipelineProofs --------------------------
(***************************************************************************)
(* Theorems about Pipeline, for every gazetteer and every set of texts: the *)
(* types of a request and the range of its confidence, candidates that do   *)
(* not contradict themselves, ties that are never VALID, names before the   *)
(* postal code, the code's location by majority, and the city of an address *)
(* that names nothing else.                                                 *)
(***************************************************************************)
EXTENDS Pipeline, RecursionProofs

\* What enrichment makes of one entity: at most one entity of each level, each
\* linked to the one above it, and no city beside lower levels without its
\* province.
Consistent(loc) ==
  /\ loc \subseteq Ids
  /\ \A x, y \in loc : LevelOf(x) = LevelOf(y) => x = y
  /\ \A x, y \in loc : LevelOf(x) = LevelOf(y) - 1 => y \in DOMAIN HierarchyMap /\ HierarchyMap[y] = x
  /\ \A x \in loc : LevelOf(x) = CITY => loc = {x} \/ \E y \in loc : LevelOf(y) = PROVINCE

\* A kode of the gazetteer has one to four parts.
LEMMA LevelType == \A e \in Ids : LevelOf(e) \in 1..4
  BY RowsAssumption DEF Ids, LevelOf

\* An upper that the hierarchy gives is one level higher, and itself in the
\* hierarchy unless it is a province.
LEMMA UpperIsOneHigher ==
  ASSUME NEW e \in DOMAIN HierarchyMap
  PROVE  /\ e \in Ids /\ HierarchyMap[e] \in Ids
         /\ LevelOf(e) \in 2..4
         /\ LevelOf(HierarchyMap[e]) = LevelOf(e) - 1
         /\ Rows[HierarchyMap[e]].kode = Front(Rows[e].kode)
         /\ LevelOf(e) > 2 => HierarchyMap[e] \in DOMAIN HierarchyMap
<1> DEFINE n == LevelOf(e)
<1>1. PICK s \in Ids : Placed(s) /\ IsPrefix(Rows[e].kode, Rows[s].kode)
  BY DEF HierarchyMap
<1>2. e \in Ids /\ n \in 2..4
  BY LevelType DEF HierarchyMap, PROVINCE
<1>3. Rows[e].kode \in Seq(Nat) /\ Len(Rows[e].kode) = n /\ Rows[s].kode \in Seq(Nat) /\ Len(Rows[s].kode) = 4
  BY <1>1, <1>2, RowsAssumption DEF Ids, LevelOf, Placed, SUBDISTRICT
<1>4. Rows[e].kode = SubSeq(Rows[s].kode, 1, n)
  BY <1>1, <1>2, <1>3 DEF IsPrefix
<1>5. PICK u \in Ids : Rows[u].kode = SubSeq(Rows[s].kode, 1, n - 1)
  <2> DEFINE k == n - 1
  <2> HIDE DEF k
  <2>1. k \in PROVINCE..DISTRICT
    BY <1>2 DEF k, PROVINCE, DISTRICT
  <2>2. \E u \in Ids : Rows[u].kode = SubSeq(Rows[s].kode, 1, k)
    BY <1>1, <2>1 DEF Placed
  <2> QED
    BY <2>2 DEF k
<1>6. Rows[u].kode = Front(Rows[e].kode)
  BY <1>2, <1>3, <1>4, <1>5 DEF Front
<1>7. /\ HierarchyMap[e] \in Ids /\ Rows[HierarchyMap[e]].kode = SubSeq(Rows[s].kode, 1, n - 1)
      /\ Rows[HierarchyMap[e]].kode = Front(Rows[e].kode)
  BY <1>5, <1>6 DEF HierarchyMap
<1>8. LevelOf(HierarchyMap[e]) = n - 1
  <2>1. Len(SubSeq(Rows[s].kode, 1, n - 1)) = n - 1
    BY <1>2, <1>3
  <2> QED
    BY <1>7, <2>1 DEF LevelOf
<1>9. ASSUME n > 2 PROVE HierarchyMap[e] \in DOMAIN HierarchyMap
  <2> DEFINE u0 == HierarchyMap[e]
  <2>1. Len(Rows[u0].kode) = n - 1 /\ n - 1 \in 1..3
    BY <1>2, <1>8 DEF LevelOf
  <2>2. IsPrefix(Rows[u0].kode, Rows[s].kode)
    <3> DEFINE K == Rows[s].kode
    <3>1. K \in Seq(Nat) /\ n - 1 <= Len(K) /\ Rows[u0].kode = SubSeq(K, 1, n - 1)
      BY <1>2, <1>3, <1>7
    <3> HIDE DEF K, n, u0
    <3> QED
      BY <2>1, <3>1 DEF IsPrefix, K
  <2>3. u0 \in {x \in Ids : LevelOf(x) > PROVINCE /\ \E y \in Ids : Placed(y) /\ IsPrefix(Rows[x].kode, Rows[y].kode)}
    <3>1. LevelOf(u0) > PROVINCE
      BY <1>2, <1>8, <1>9 DEF PROVINCE
    <3> QED
      BY <1>1, <1>7, <2>2, <3>1
  <2> QED
    BY <2>3 DEF HierarchyMap
<1> QED
  BY <1>2, <1>7, <1>8, <1>9

\* One step of enrichment, where x is the only entity of its level.
LEMMA FillAddsTheUpper ==
  ASSUME NEW loc \in SUBSET Ids, NEW x \in loc,
         \A y \in loc : LevelOf(y) = LevelOf(x) => y = x,
         \A y \in loc : LevelOf(y) >= LevelOf(x)
  PROVE  FillUpper(loc, LevelOf(x)) = IF x \in DOMAIN HierarchyMap THEN loc \union {HierarchyMap[x]} ELSE loc
<1>1. At(loc, LevelOf(x)) = {x}
  BY DEF At
<1>2. At(loc, LevelOf(x) - 1) = {}
  BY LevelType DEF At
<1> QED
  BY <1>1, <1>2 DEF FillUpper

\* A level without an entity adds none.
LEMMA FillSkipsAnEmptyLevel ==
  ASSUME NEW loc, NEW level, \A x \in loc : LevelOf(x) # level
  PROVE  FillUpper(loc, level) = loc
  BY DEF FillUpper, At

\* EnrichCandidates, from one entity, leaves its upper chain and no more.
LEMMA EnrichIsConsistent ==
  ASSUME NEW e \in Ids
  PROVE  Consistent(Enrich({e}))
<1> DEFINE U(x) == HierarchyMap[x]
           In(x) == x \in DOMAIN HierarchyMap
           F4 == FillUpper({e}, 4)
           F3 == FillUpper(F4, 3)
           F2 == FillUpper(F3, 2)
<1>1. Enrich({e}) = F2
  BY DEF Enrich, SUBDISTRICT, DISTRICT, CITY
<1>2. LevelOf(e) \in 1..4
  BY LevelType
<1>3. CASE ~In(e)
  <2>1. \A level \in 2..4 : FillUpper({e}, level) = {e}
    <3> TAKE level \in 2..4
    <3>1. CASE LevelOf(e) = level
      BY <1>3, <3>1, FillAddsTheUpper, <1>2
    <3>2. CASE LevelOf(e) # level
      BY <3>2, FillSkipsAnEmptyLevel
    <3> QED
      BY <3>1, <3>2
  <2>2. F2 = {e}
    BY <2>1
  <2> QED
    BY <1>1, <1>2, <2>2 DEF Consistent
<1>4. CASE In(e) /\ LevelOf(e) = 2
  <2>1. F4 = {e} /\ F3 = {e}
    BY <1>4, FillSkipsAnEmptyLevel
  <2>2. F2 = {e, U(e)}
    BY <1>4, <2>1, FillAddsTheUpper
  <2>3. U(e) \in Ids /\ LevelOf(U(e)) = 1
    BY <1>4, UpperIsOneHigher
  <2> QED
    BY <1>1, <1>4, <2>2, <2>3 DEF Consistent, CITY, PROVINCE
<1>5. CASE In(e) /\ LevelOf(e) = 3
  <2>1. F4 = {e}
    BY <1>5, FillSkipsAnEmptyLevel
  <2>2. F3 = {e, U(e)}
    BY <1>5, <2>1, FillAddsTheUpper
  <2>3. In(U(e)) /\ LevelOf(U(e)) = 2 /\ U(e) \in Ids /\ LevelOf(U(U(e))) = 1 /\ U(U(e)) \in Ids
    BY <1>5, UpperIsOneHigher
  <2>4. F2 = {e, U(e), U(U(e))}
    <3> DEFINE loc == {e, U(e)}
    <3>1. FillUpper(loc, LevelOf(U(e))) = loc \union {U(U(e))}
      BY <1>5, <2>3, FillAddsTheUpper
    <3> QED
      BY <2>2, <2>3, <3>1
  <2> QED
    BY <1>1, <1>5, <2>3, <2>4 DEF Consistent, CITY, PROVINCE
<1>6. CASE In(e) /\ LevelOf(e) = 4
  <2>1. F4 = {e, U(e)}
    BY <1>6, FillAddsTheUpper
  <2>2. In(U(e)) /\ LevelOf(U(e)) = 3 /\ U(e) \in Ids
    BY <1>6, UpperIsOneHigher
  <2>3. In(U(U(e))) /\ LevelOf(U(U(e))) = 2 /\ U(U(e)) \in Ids
    BY <2>2, UpperIsOneHigher
  <2>4. LevelOf(U(U(U(e)))) = 1 /\ U(U(U(e))) \in Ids
    BY <2>3, UpperIsOneHigher
  <2>5. F3 = {e, U(e), U(U(e))}
    <3> DEFINE loc == {e, U(e)}
    <3>1. FillUpper(loc, LevelOf(U(e))) = loc \union {U(U(e))}
      BY <1>6, <2>2, FillAddsTheUpper
    <3> QED
      BY <2>1, <2>2, <3>1
  <2>6. F2 = {e, U(e), U(U(e)), U(U(U(e)))}
    <3> DEFINE loc == {e, U(e), U(U(e))}
    <3>1. FillUpper(loc, LevelOf(U(U(e)))) = loc \union {U(U(U(e)))}
      BY <1>6, <2>2, <2>3, FillAddsTheUpper
    <3> QED
      BY <2>5, <2>3, <3>1
  <2> QED
    BY <1>1, <1>6, <2>2, <2>3, <2>4, <2>6 DEF Consistent, CITY, PROVINCE
<1>7. In(e) => LevelOf(e) \in 2..4
  BY UpperIsOneHigher
<1> QED
  BY <1>3, <1>4, <1>5, <1>6, <1>7

\* A consistent location has no conflict, whatever the evidence.
LEMMA ConsistentHasNoConflict ==
  ASSUME NEW loc, NEW res, Consistent(loc)
  PROVE  Conflicts(loc, res) = {}
<1>1. ~HierarchyConflict(loc)
  BY DEF Consistent, HierarchyConflict, At, CITY, SUBDISTRICT
<1>2. ~OrphanCity(loc)
  <2>1. ASSUME NEW x \in loc, loc = {x} PROVE Cardinality(loc) = 1
    BY <2>1, FS_Singleton
  <2>2. ASSUME NEW x \in loc, LevelOf(x) = CITY, At(loc, PROVINCE) = {} PROVE loc = {x}
    BY <2>2 DEF Consistent, At
  <2>3. ASSUME At(loc, CITY) # {}, At(loc, PROVINCE) = {} PROVE Cardinality(loc) = 1
    <3>1. PICK x \in loc : LevelOf(x) = CITY
      BY <2>3 DEF At
    <3> QED
      BY <2>1, <2>2, <2>3, <3>1
  <2> QED
    BY <2>3 DEF OrphanCity
<1>3. ~TwoOfOneLevel(loc, res)
  BY DEF Consistent, TwoOfOneLevel, MatchedEntities, Matched, At
<1> QED
  BY <1>1, <1>2, <1>3 DEF Conflicts

-----------------------------------------------------------------------------
\* A sequence, of whatever elements.
IsSequence(s) == s \in Seq(Range(s))

\* A function on 1..n is a sequence.
LEMMA FunctionIsSequence ==
  ASSUME NEW n \in Nat, NEW f, DOMAIN f = 1..n, f = [k \in DOMAIN f |-> f[k]]
  PROVE  IsSequence(f)
<1>1. \A k \in 1..n : f[k] \in Range(f)
  BY DEF Range
<1>2. f \in [1..n -> Range(f)]
  BY <1>1
<1> QED
  BY <1>2 DEF IsSequence

\* Two sequences joined are a sequence.
LEMMA JoinIsSequence ==
  ASSUME NEW s, NEW t, IsSequence(s), IsSequence(t)
  PROVE  IsSequence(s \o t)
<1> DEFINE X == Range(s) \union Range(t)
<1>1. s \in Seq(X) /\ t \in Seq(X)
  BY DEF IsSequence
<1>2. s \o t \in Seq(X)
  BY <1>1
<1> DEFINE st == s \o t
<1>3. Len(st) \in Nat /\ DOMAIN st = 1..Len(st) /\ st = [k \in DOMAIN st |-> st[k]]
  BY <1>2, SeqDef, LenProperties
<1> QED
  BY <1>3, FunctionIsSequence

\* What stands where in two sequences joined.
LEMMA JoinedParts ==
  ASSUME NEW s, NEW t, IsSequence(s), IsSequence(t)
  PROVE  /\ DOMAIN s \subseteq DOMAIN (s \o t)
         /\ \A i \in DOMAIN s : (s \o t)[i] = s[i]
         /\ \A i \in DOMAIN (s \o t) \ DOMAIN s : i - Len(s) \in DOMAIN t /\ (s \o t)[i] = t[i - Len(s)]
         /\ \A i, j \in DOMAIN (s \o t) : i \in Int /\ j \in Int /\ (i # j => i - Len(s) # j - Len(s))
<1> DEFINE X == Range(s) \union Range(t)
<1>1. s \in Seq(X) /\ t \in Seq(X)
  BY DEF IsSequence
<1> HIDE DEF X
<1>2. /\ Len(s) \in Nat /\ DOMAIN s = 1..Len(s) /\ Len(t) \in Nat /\ DOMAIN t = 1..Len(t)
      /\ s \o t \in Seq(X) /\ Len(s \o t) = Len(s) + Len(t) /\ DOMAIN (s \o t) = 1..Len(s) + Len(t)
      /\ \A i \in 1..Len(s \o t) : (s \o t)[i] = IF i <= Len(s) THEN s[i] ELSE t[i - Len(s)]
  BY <1>1, ConcatProperties, LenProperties
<1> QED
  BY <1>2

\* A sequence has finitely many positions.
LEMMA DomainIsFinite ==
  ASSUME NEW s, IsSequence(s)
  PROVE  IsFiniteSet(DOMAIN s) /\ \E n \in Nat : DOMAIN s = 1..n
<1>1. DOMAIN s = 1..Len(s) /\ Len(s) \in Nat
  BY DEF IsSequence
<1>2. \A n \in Nat : IsFiniteSet(1..n)
  BY FS_Interval
<1> QED
  BY <1>1, <1>2

\* What is counted off along the positions of a sequence is a sequence.
LEMMA OrderIsSequence ==
  ASSUME NEW s, IsSequence(s), NEW S \in SUBSET DOMAIN s
  PROVE  \E n \in Nat : DOMAIN InOrder(S) = 1..n
<1>1. Cardinality(S) \in Nat
  BY DomainIsFinite, FS_Subset, FS_CardinalityType
<1> QED
  BY <1>1 DEF InOrder

\* What is counted off are positions of the set, each one once.
LEMMA OrderMembers ==
  ASSUME NEW s, IsSequence(s), NEW S \in SUBSET DOMAIN s
  PROVE  \A j, k \in DOMAIN InOrder(S) : InOrder(S)[k] \in S /\ (j # k => InOrder(S)[j] # InOrder(S)[k])
<1>1. PICK n \in Nat : DOMAIN s = 1..n
  BY DomainIsFinite
<1>2. \A k \in 1..Cardinality(S) : \E p \in S : Cardinality({q \in S : q <= p}) = k
  BY <1>1, RankIsOntoPositions
<1>3. \A k \in 1..Cardinality(S) : /\ InOrder(S)[k] \in S
                                   /\ Cardinality({q \in S : q <= InOrder(S)[k]}) = k
  <2> TAKE k \in 1..Cardinality(S)
  <2> DEFINE p == CHOOSE x \in S : Cardinality({q \in S : q <= x}) = k
  <2>1. p \in S /\ Cardinality({q \in S : q <= p}) = k
    BY <1>2
  <2>2. InOrder(S)[k] = p
    BY DEF InOrder
  <2> HIDE DEF p
  <2> QED
    BY <2>1, <2>2
<1>4. DOMAIN InOrder(S) = 1..Cardinality(S)
  BY DEF InOrder
<1>5. ASSUME NEW j \in 1..Cardinality(S), NEW k \in 1..Cardinality(S), InOrder(S)[j] = InOrder(S)[k]
      PROVE  j = k
  <2> DEFINE Place(p) == Cardinality({q \in S : q <= p})
  <2>1. Place(InOrder(S)[j]) = j /\ Place(InOrder(S)[k]) = k
    BY <1>3
  <2> HIDE DEF Place
  <2> QED
    BY <1>5, <2>1
<1> QED
  BY <1>3, <1>4, <1>5

-----------------------------------------------------------------------------
\* More levels weigh no less.
LEMMA MoreLevelsWeighMore ==
  ASSUME NEW S, NEW T, S \subseteq T
  PROVE  /\ OverLevels(LevelWeight, S) \in Nat /\ OverLevels(LevelWeight, T) \in Nat
         /\ OverLevels(LevelWeight, S) <= OverLevels(LevelWeight, T)
         /\ OverLevels(MultiWeight, S) \in Nat /\ OverLevels(MultiWeight, T) \in Nat
         /\ OverLevels(MultiWeight, S) <= OverLevels(MultiWeight, T)
  BY DEF OverLevels, LevelWeight, MultiWeight, PROVINCE, CITY, DISTRICT, SUBDISTRICT

\* Unused evidence is counted among the evidence.
LEMMA UnusedType ==
  ASSUME NEW c, NEW res, IsSequence(res), NEW used
  PROVE  Unused(c, res, used) \in Nat /\ Unused(c, res, used) <= Len(res)
<1> DEFINE U == {i \in DOMAIN res : ~res[i].fuzzy /\ res[i].value[1] \notin used
                                  /\ res[i].value \notin UsedValues(c, res)}
<1>1. DOMAIN res = 1..Len(res) /\ Len(res) \in Nat
  BY DEF IsSequence
<1>2. IsFiniteSet(1..Len(res)) /\ Cardinality(1..Len(res)) = Len(res)
  <2>1. \A n \in Nat : IsFiniteSet(1..n) /\ Cardinality(1..n) = n
    BY FS_Interval
  <2> QED
    BY <1>1, <2>1
<1>3. U \in SUBSET (1..Len(res))
  BY <1>1
<1>4. Unused(c, res, used) = Cardinality(U)
  BY DEF Unused
<1> HIDE DEF U
<1>5. IsFiniteSet(U) /\ Cardinality(U) <= Len(res)
  BY <1>2, <1>3, FS_Subset
<1> QED
  BY <1>4, <1>5, FS_CardinalityType

\* Scores are integers, whatever the evidence: none is higher than a hundred, and
\* only the penalty for unused evidence makes one negative.
LEMMA ScoreType ==
  ASSUME NEW c, NEW res, IsSequence(res), NEW used
  PROVE  /\ ScoreOf(c, res, used) \in Int
         /\ ScoreOf(c, res, used) <= 100
         /\ ScoreOf(c, res, used) >= -(3 * Len(res))
<1>1. Unused(c, res, used) \in Nat /\ Unused(c, res, used) <= Len(res) /\ Len(res) \in Nat
  BY UnusedType DEF IsSequence
<1>2. PrefixBonus(c, res) \in Nat
  BY DEF PrefixBonus
<1>3. OverLevels(LevelWeight, {LevelOf(e) : e \in MatchedEntities(c, res)}) \in Nat
  BY MoreLevelsWeighMore
<1>4. MultiBonus(c, res) \in Nat
  BY MoreLevelsWeighMore DEF MultiBonus, Capped
<1>5. ASSUME NEW u \in Nat
      PROVE  Score(c, res, u) \in Int /\ Score(c, res, u) <= 100 /\ Score(c, res, u) >= -(3 * u)
  BY <1>2, <1>3, <1>4 DEF Score, Capped
<1> DEFINE u == Unused(c, res, used)
<1>6. ScoreOf(c, res, used) = Score(c, res, u)
  BY DEF ScoreOf
<1> HIDE DEF u
<1>7. u \in Nat /\ u <= Len(res) /\ Len(res) \in Nat
  BY <1>1 DEF u
<1>8. Score(c, res, u) \in Int /\ Score(c, res, u) <= 100 /\ Score(c, res, u) >= -(3 * u)
  BY <1>5, <1>7
<1> HIDE DEF Score
<1> QED
  BY <1>6, <1>7, <1>8

\* Cleaning leaves a sequence of words.
LEMMA NormalizeType ==
  ASSUME NEW t, IsSequence(t)
  PROVE  IsSequence(Normalize(t))
<1> DEFINE kept   == {p \in FieldStarts(t) : ~IsAdmin(t, p)}
           fields == InOrder({p \in kept : FieldLetters(t, p) # <<>>})
           codes  == InOrder({p \in DOMAIN t : t[p].word \in PostalCodes})
           A == [k \in DOMAIN fields |-> Compact(FieldLetters(t, fields[k]))]
           B == [k \in DOMAIN codes |-> t[codes[k]].word]
<1>1. Normalize(t) = A \o B
  BY DEF Normalize
<1>2. \E n \in Nat : DOMAIN fields = 1..n
  <2>1. {p \in kept : FieldLetters(t, p) # <<>>} \subseteq DOMAIN t
    BY DEF FieldStarts
  <2> HIDE DEF kept
  <2> QED
    BY <2>1, OrderIsSequence
<1>3. \E n \in Nat : DOMAIN codes = 1..n
  BY OrderIsSequence
<1> HIDE DEF fields, codes
<1>4. IsSequence(A)
  BY <1>2, FunctionIsSequence
<1>5. IsSequence(B)
  BY <1>3, FunctionIsSequence
<1> HIDE DEF A, B
<1> QED
  BY <1>1, <1>4, <1>5, JoinIsSequence

\* Recovered evidence is a sequence: its order is that of positions in the text.
LEMMA RecoveredType ==
  ASSUME IsSequence(text.words), NEW cs, NEW res
  PROVE  IsSequence(Recovered(cs, res).new)
<1>1. ASSUME NEW match, NEW taken, NEW known
      PROVE  IsSequence(NewEvidence(match, taken, known))
  <2> DEFINE Before(s) == known \union UNION {match[x] : x \in {y \in taken : y[1] < s[1]}}
             fresh   == {[span |-> s, found |-> match[s] \ Before(s)] : s \in taken}
             From(p) == CHOOSE x \in fresh : x.span[1] = p
             order   == InOrder({p \in DOMAIN text.words : \E x \in fresh : x.span[1] = p /\ x.found # {}})
  <2>1. \E n \in Nat : DOMAIN order = 1..n
    <3> HIDE DEF fresh
    <3> QED
      BY OrderIsSequence
  <2> HIDE DEF order, From
  <2> QED
    BY <2>1, FunctionIsSequence DEF NewEvidence, order, From
<1> QED
  BY <1>1 DEF Recovered, RecoveryIn, RecoveryFrom, RecoveryBy, Recovery

-----------------------------------------------------------------------------
\* The winner of a VALID answer is better than every other candidate.
Undisputed == \A c \in cands \ {winner} : Better(winner, c, resolved, explained)

\* The inductive invariant: the shape of text, evidence and answer, that every
\* candidate is an enriched entity, and that nothing is answered before ranking.
PipelineInv ==
  /\ raw \in Texts
  /\ IsSequence(text.words)
  /\ IsSequence(resolved)
  /\ cands \subseteq {Enrich({e}) : e \in Ids}
  /\ DOMAIN answer = {"status", "confidence", "location", "code"}
  /\ stage \in {"clean", "resolve", "prioritize", "compact", "build", "recover", "rank"} => answer = NoAnswer
  /\ answer.status # "CONFLICT"
  /\ answer.status = "VALID" => Undisputed

\* DiscoverCandidates and EnrichCandidates make each candidate of one entity.
LEMMA CandidatesAreEnriched ==
  ASSUME NEW res
  PROVE  Candidates(res) \subseteq {Enrich({e}) : e \in Ids}
  BY DEF Candidates, Discovered

\* Such a candidate has no conflict, whatever the evidence says.
LEMMA CandidateHasNoConflict ==
  ASSUME NEW c \in {Enrich({e}) : e \in Ids}, NEW res
  PROVE  Conflicts(c, res) = {} /\ Quality(c, res) # "CONFLICT"
<1>1. Conflicts(c, res) = {}
  BY EnrichIsConsistent, ConsistentHasNoConflict
<1>2. Quality(c, res) # "CONFLICT"
  BY <1>1 DEF Quality
<1> QED
  BY <1>1, <1>2

\* What ranking answers for a candidate.
LEMMA RankedStatus ==
  ASSUME cands \subseteq {Enrich({e}) : e \in Ids}, IsSequence(resolved),
         NEW w \in cands, NEW s \in Statuses(w, resolved, explained)
  PROVE  /\ s # "CONFLICT"
         /\ s = "VALID" => \A c \in cands \ {w} : Better(w, c, resolved, explained)
<1>1. Quality(w, resolved) # "CONFLICT"
  BY CandidateHasNoConflict
<1>2. s # "CONFLICT"
  BY <1>1 DEF Statuses
<1>3. ASSUME s = "VALID", NEW c \in cands \ {w} PROVE Better(w, c, resolved, explained)
  <2>1. ~Ambiguous(ScoreOf(w, resolved, explained), ScoreOf(c, resolved, explained))
    BY <1>3 DEF Statuses
  <2> DEFINE a == ScoreOf(w, resolved, explained)
             b == ScoreOf(c, resolved, explained)
  <2>2. a \in Int /\ b \in Int
    BY ScoreType
  <2>3. a > b
    <3> HIDE DEF a, b
    <3>1. ~(a - b < 10)
      BY <2>1 DEF Ambiguous, a, b
    <3> QED
      BY <2>2, <3>1
  <2> QED
    BY <2>3 DEF Better
<1> QED
  BY <1>2, <1>3

\* Every stage of a request, refusals and failures too, keeps the invariant.
THEOREM PipelineInvHolds == Spec => []PipelineInv
<1>1. Init => PipelineInv
  BY DEF Init, PipelineInv, NoText, NoAnswer, IsSequence
<1>2. PipelineInv /\ [Next]_vars => PipelineInv'
  <2> SUFFICES ASSUME PipelineInv, [Next]_vars PROVE PipelineInv'
    OBVIOUS
  <2> USE DEF PipelineInv
  <2>0. ASSUME stage \in {"clean", "resolve", "prioritize", "compact", "build", "recover"}, answer' = answer
        PROVE  /\ answer' = NoAnswer
               /\ DOMAIN answer' = {"status", "confidence", "location", "code"}
               /\ answer'.status \notin {"CONFLICT", "VALID"}
    BY <2>0 DEF NoAnswer
  <2>1. CASE Refuse
    BY <2>1 DEF Refuse, Undisputed
  <2>2. CASE Fail
    BY <2>2 DEF Fail, Undisputed, NoAnswer
  <2>3. CASE Clean
    <3>1. IsSequence(raw)
      <4>1. raw \in Seq([word : STRING, sep : STRING])
        BY TextAssumption
      <4>2. Len(raw) \in Nat /\ DOMAIN raw = 1..Len(raw) /\ raw = [k \in DOMAIN raw |-> raw[k]]
        BY <4>1, SeqDef, LenProperties
      <4> QED
        BY <4>2, FunctionIsSequence
    <3>2. IsSequence(text'.words)
      BY <2>3, <3>1, NormalizeType DEF Clean
    <3> QED
      BY <2>3, <3>2, <2>0 DEF Clean
  <2>4. CASE Resolve
    <3> DEFINE order == InOrder(PlacePositions(text.words))
               Coded(code) == {e \in Ids : LevelOf(e) = SUBDISTRICT /\ Rows[e].postal = code}
               postal == IF PostalPositions = {} THEN <<>>
                         ELSE <<Evidence("postal_code", <<PostalCode>>, Coded(PostalCode), FALSE)>>
               Place(w) == Evidence("place_name", <<w>>, PhraseEntities(text.words, w), FALSE)
               places == [k \in DOMAIN order |-> Place(text.words[order[k]])]
    <3>1. resolved' = postal \o places
      BY <2>4 DEF Resolve
    <3>2. IsSequence(postal)
      <4> HIDE DEF Coded
      <4>1. \A x : IsSequence(<<x>>) /\ IsSequence(<<>>)
        BY DEF IsSequence, Range
      <4> QED
        BY <4>1
    <3>3. \E n \in Nat : DOMAIN order = 1..n
      BY OrderIsSequence DEF PlacePositions
    <3>4. IsSequence(places)
      <4> HIDE DEF order, Place
      <4> QED
        BY <3>3, FunctionIsSequence
    <3>5. IsSequence(resolved')
      <4> HIDE DEF postal, places
      <4> QED
        BY <3>1, <3>2, <3>4, JoinIsSequence
    <3> QED
      BY <2>4, <3>5, <2>0 DEF Resolve
  <2>5. CASE Prioritize
    <3>1. IsSequence(resolved')
      <4>1. \E n \in Nat : DOMAIN resolved = 1..n
        BY DomainIsFinite
      <4>2. DOMAIN resolved' = DOMAIN resolved /\ resolved' = [k \in DOMAIN resolved' |-> resolved'[k]]
        BY <2>5 DEF Prioritize
      <4> QED
        BY <4>1, <4>2, FunctionIsSequence
    <3> QED
      BY <2>5, <3>1, <2>0 DEF Prioritize
  <2>6. CASE CompactFallback
    <3>1. IsSequence(resolved')
      <4>1. \E n \in Nat : DOMAIN resolved = 1..n
        BY DomainIsFinite
      <4>2. \/ resolved' = resolved
            \/ DOMAIN resolved' = DOMAIN resolved /\ resolved' = [k \in DOMAIN resolved' |-> resolved'[k]]
        BY <2>6 DEF CompactFallback
      <4> QED
        BY <4>1, <4>2, FunctionIsSequence
    <3> QED
      BY <2>6, <3>1, <2>0 DEF CompactFallback
  <2>7. CASE Build
    BY <2>7, CandidatesAreEnriched, <2>0 DEF Build
  <2>8. CASE Recover
    <3>1. IsSequence(resolved')
      BY <2>8, RecoveredType, JoinIsSequence DEF Recover, Extend
    <3>2. cands' \subseteq {Enrich({e}) : e \in Ids}
      BY <2>8, CandidatesAreEnriched DEF Recover
    <3> QED
      BY <2>8, <3>1, <3>2, <2>0 DEF Recover
  <2>9. CASE Rank
    <3>1. CASE cands = {}
      BY <2>9, <3>1 DEF Rank, NoAnswer
    <3>2. CASE cands # {}
      <4>1. PICK w \in Winners(cands, resolved, explained) : \E s \in Statuses(w, resolved, explained) :
              /\ winner' = w
              /\ answer' = [status |-> s, confidence |-> ScoreOf(w, resolved, explained),
                            location |-> w, code |-> Code(w)]
        BY <2>9, <3>2 DEF Rank
      <4>6. PICK s \in Statuses(w, resolved, explained) :
              /\ winner' = w
              /\ answer' = [status |-> s, confidence |-> ScoreOf(w, resolved, explained),
                            location |-> w, code |-> Code(w)]
        BY <4>1
      <4>2. w \in cands
        BY DEF Winners
      <4>3. s # "CONFLICT" /\ (s = "VALID" => \A c \in cands \ {w} : Better(w, c, resolved, explained))
        BY <4>2, RankedStatus
      <4>4. /\ answer'.status = s
            /\ DOMAIN answer' = {"status", "confidence", "location", "code"}
        BY <4>6
      <4>5. s = "VALID" => Undisputed'
        BY <2>9, <4>6, <4>3 DEF Rank, Undisputed
      <4> QED
        BY <2>9, <4>3, <4>4, <4>5 DEF Rank
    <3> QED
      BY <3>1, <3>2
  <2>10. CASE PostalFallback
    <3>1. answer'.status = answer.status /\ DOMAIN answer' = DOMAIN answer
      BY <2>10 DEF PostalFallback
    <3> QED
      BY <2>10, <3>1 DEF PostalFallback, Undisputed
  <2>11. CASE Done \/ UNCHANGED vars
    <3>1. UNCHANGED vars
      BY <2>11 DEF Done
    <3>2. Undisputed => Undisputed'
      BY <3>1 DEF vars, Undisputed
    <3> QED
      BY <3>1, <3>2 DEF vars
  <2> QED
    BY <2>1, <2>2, <2>3, <2>4, <2>5, <2>6, <2>7, <2>8, <2>9, <2>10, <2>11 DEF Next
<1> QED
  BY <1>1, <1>2, PTL DEF Spec

\* For every gazetteer: no candidate is in conflict with itself, and the status
\* CONFLICT is never given (enrich.go, evaluate.go).
THEOREM NoContradiction == Spec => []NoCandidateContradictsItself
<1>1. PipelineInv => NoCandidateContradictsItself
  BY CandidateHasNoConflict DEF PipelineInv, NoCandidateContradictsItself
<1> QED
  BY <1>1, PipelineInvHolds, PTL

\* For every gazetteer: an answer that hangs on the order of a map or of an
\* unstable sort is not VALID (validate_v1.go:63-73).
THEOREM NoArbitraryValid == Spec => []ArbitraryChoiceIsNeverValid
<1>1. PipelineInv => ArbitraryChoiceIsNeverValid
  BY DEF PipelineInv, Undisputed, ArbitraryChoiceIsNeverValid
<1> QED
  BY <1>1, PipelineInvHolds, PTL

\* An enriched entity is not nothing.
LEMMA EnrichHasTheEntity == \A e : e \in Enrich({e})
  BY DEF Enrich, FillUpper

\* How far the answer has come: nothing before the ranking, the winner's
\* location after it, and what the postal code left of it at the end.
Settled ==
  /\ stage \in {"clean", "resolve", "prioritize", "compact", "build", "recover", "rank"} => answer = NoAnswer
  /\ stage = "postal" => IF cands = {} THEN answer = NoAnswer
                         ELSE \E w \in cands : \E s, n :
                                winner = w /\ answer = [status |-> s, confidence |-> n,
                                                        location |-> w, code |-> Code(w)]
  /\ CodeNeverOverridesNames

LEMMA SettledHolds == Spec => []Settled
<1>1. Init => Settled
  BY DEF Init, Settled, CodeNeverOverridesNames
<1>2. PipelineInv /\ Settled /\ [Next]_vars => Settled'
  <2> SUFFICES ASSUME PipelineInv, Settled, [Next]_vars PROVE Settled'
    OBVIOUS
  <2>1. CASE Refuse \/ Fail
    BY <2>1 DEF Refuse, Fail, Settled, CodeNeverOverridesNames
  <2>2. CASE Clean \/ Resolve \/ Prioritize \/ CompactFallback \/ Build \/ Recover
    <3>1. /\ stage \in {"clean", "resolve", "prioritize", "compact", "build", "recover"}
          /\ stage' \in {"resolve", "prioritize", "compact", "build", "recover", "rank"}
          /\ answer' = answer
      BY <2>2 DEF Clean, Resolve, Prioritize, CompactFallback, Build, Recover
    <3> QED
      BY <3>1 DEF Settled, CodeNeverOverridesNames, NoAnswer
  <2>3. CASE Rank
    <3>1. CASE cands = {}
      <4>1. answer' = NoAnswer /\ cands' = {} /\ stage' = "postal"
        BY <2>3, <3>1 DEF Rank, Settled
      <4> QED
        BY <4>1 DEF Settled, CodeNeverOverridesNames, NoAnswer
    <3>2. CASE cands # {}
      <4>1. PICK w \in Winners(cands, resolved, explained) : \E s \in Statuses(w, resolved, explained) :
              /\ winner' = w
              /\ answer' = [status |-> s, confidence |-> ScoreOf(w, resolved, explained),
                            location |-> w, code |-> Code(w)]
        BY <2>3, <3>2 DEF Rank
      <4>2. w \in cands /\ cands' = cands /\ stage' = "postal"
        BY <2>3 DEF Winners, Rank
      <4> QED
        BY <3>2, <4>1, <4>2 DEF Settled, CodeNeverOverridesNames
    <3> QED
      BY <3>1, <3>2
  <2>4. CASE PostalFallback
    <3>1. stage = "postal" /\ stage' = "done" /\ cands' = cands /\ winner' = winner
          /\ PostalCode' = PostalCode
      BY <2>4 DEF PostalFallback, PostalCode, PostalPositions
    <3>2. CASE cands = {}
      <4>1. answer = NoAnswer
        BY <3>1, <3>2 DEF Settled
      <4>2. answer'.status = answer.status /\ answer'.confidence = answer.confidence
        BY <2>4, <4>1 DEF PostalFallback, NoAnswer
      <4> QED
        BY <3>1, <3>2, <4>1, <4>2 DEF Settled, CodeNeverOverridesNames, NoAnswer
    <3>3. CASE cands # {}
      <4>5. PICK w \in cands : \E s, n :
              winner = w /\ answer = [status |-> s, confidence |-> n, location |-> w, code |-> Code(w)]
        BY <3>1, <3>3 DEF Settled
      <4>1. PICK s, n :
              winner = w /\ answer = [status |-> s, confidence |-> n, location |-> w, code |-> Code(w)]
        BY <4>5
      <4>2. w # {}
        BY EnrichHasTheEntity DEF PipelineInv
      <4>3. \/ answer' = answer
            \/ answer' = [answer EXCEPT !.code = PostalCode] /\ Code(w) = NoCode /\ At(w, SUBDISTRICT) = {}
        BY <2>4, <4>1, <4>2 DEF PostalFallback, Unlocated
      <4>4. answer'.location = w /\ (answer'.code # Code(w) =>
              answer'.code = PostalCode /\ Code(w) = NoCode /\ At(w, SUBDISTRICT) = {})
        BY <4>1, <4>3
      <4> QED
        BY <3>1, <3>3, <4>1, <4>4 DEF Settled, CodeNeverOverridesNames
    <3> QED
      BY <3>2, <3>3
  <2>5. CASE Done \/ UNCHANGED vars
    <3>1. UNCHANGED <<stage, text, cands, winner, answer>>
      BY <2>5 DEF Done, vars
    <3> QED
      BY <3>1 DEF Settled, CodeNeverOverridesNames, PostalCode, PostalPositions
  <2> QED
    BY <2>1, <2>2, <2>3, <2>4, <2>5 DEF Next
<1> QED
  BY <1>1, <1>2, PipelineInvHolds, PTL DEF Spec

\* For every gazetteer: the postal code never overrides what the names say, and
\* what rests on it alone stays UNKNOWN (validate_v1.go:61-92).
THEOREM NamesComeFirst == Spec => []CodeNeverOverridesNames
<1>1. Settled => CodeNeverOverridesNames
  BY DEF Settled
<1> QED
  BY <1>1, SettledHolds, PTL

-----------------------------------------------------------------------------
\* The groups of a postal code are finite, as all rows are.
LEMMA GroupSize ==
  ASSUME NEW code, NEW d
  PROVE  /\ GroupOf(code, d) \subseteq Ids /\ IsFiniteSet(GroupOf(code, d))
         /\ Cardinality(GroupOf(code, d)) \in Nat
         /\ GroupOf(code, d) # {} => Cardinality(GroupOf(code, d)) # 0
<1>1. GroupOf(code, d) \subseteq Ids /\ IsFiniteSet(Ids)
  BY RowsAssumption DEF GroupOf, Ids
<1>2. IsFiniteSet(GroupOf(code, d))
  BY <1>1, FS_Subset
<1> QED
  BY <1>1, <1>2, FS_CardinalityType, FS_EmptySet

\* d is at least as good as x in the loop over the groups.
Beats(code, d, x) ==
  \/ Cardinality(GroupOf(code, d)) > Cardinality(GroupOf(code, x))
  \/ Cardinality(GroupOf(code, d)) = Cardinality(GroupOf(code, x)) /\ Precedes(d, x)

\* One turn of the loop: the better of the two stays, and it is better than all
\* that either was better than.
LEMMA TakeLargerBeats ==
  ASSUME NEW code, NEW d \in DistrictNames, NEW b \in DistrictNames, b # d
  PROVE  /\ TakeLarger(code, b, d) \in {b, d}
         /\ TakeLarger(code, b, d) = b => Beats(code, b, d)
         /\ TakeLarger(code, b, d) = d => Beats(code, d, b)
<1>1. b # NoWinner
  BY PrecedesAssumption
<1>2. Cardinality(GroupOf(code, d)) \in Nat /\ Cardinality(GroupOf(code, b)) \in Nat
  BY GroupSize
<1>3. Precedes(d, b) \/ Precedes(b, d)
  BY PrecedesAssumption
<1> QED
  BY <1>1, <1>2, <1>3 DEF TakeLarger, Beats

LEMMA BeatsIsTransitive ==
  ASSUME NEW code, NEW a \in DistrictNames, NEW b \in DistrictNames, NEW c \in DistrictNames,
         Beats(code, a, b), Beats(code, b, c)
  PROVE  Beats(code, a, c)
<1>1. \A x : Cardinality(GroupOf(code, x)) \in Nat
  BY GroupSize
<1>2. Precedes(a, b) /\ Precedes(b, c) => Precedes(a, c)
  BY PrecedesAssumption
<1> QED
  BY <1>1, <1>2 DEF Beats

\* The loop over the groups of a postal code, in whatever order, ends with the
\* one that beats every other.
LEMMA BestDistrictBeatsAll ==
  ASSUME NEW code, NEW best \in BestDistricts(code), NEW x \in Ids, Rows[x].postal = code
  PROVE  /\ \E s \in Ids : Rows[s].postal = code /\ DistrictName(s) = best
         /\ \A s \in Ids : Rows[s].postal = code /\ DistrictName(s) # best => Beats(code, best, DistrictName(s))
<1> DEFINE districts == {DistrictName(s) : s \in {y \in Ids : Rows[y].postal = code}}
           N == Cardinality(districts)
<1>1. districts # {} /\ districts \subseteq DistrictNames /\ IsFiniteSet(districts) /\ N \in Nat /\ N # 0
  <2> DEFINE rows == {y \in Ids : Rows[y].postal = code}
  <2>1. IsFiniteSet(rows)
    BY RowsAssumption, FS_Subset DEF Ids
  <2>2. IsFiniteSet(districts)
    <3> DEFINE f == [y \in rows |-> DistrictName(y)]
    <3>1. f \in Surjection(rows, districts)
      BY DEF Surjection
    <3> HIDE DEF rows, districts, f
    <3> QED
      BY <2>1, <3>1, FS_Surjection
  <2>3. districts # {} /\ districts \subseteq DistrictNames
    BY DEF DistrictNames
  <2> HIDE DEF districts
  <2> QED
    BY <2>2, <2>3, FS_CardinalityType, FS_EmptySet
<1>2. \A d \in districts : Cardinality(GroupOf(code, d)) \in Nat \ {0}
  <2> TAKE d \in districts
  <2>1. GroupOf(code, d) # {}
    BY DEF GroupOf
  <2> QED
    BY <2>1, GroupSize
<1> DEFINE op(b, d) == TakeLarger(code, b, d)
<1>3. PICK order \in SetToSeqs(districts) : best = FoldLeft(op, NoWinner, order)
  BY DEF BestDistricts
<1> HIDE DEF districts
<1>4. /\ order \in [1..N -> districts]
      /\ \A i, j \in 1..N : i # j => order[i] # order[j]
      /\ \A d \in districts : \E i \in 1..N : order[i] = d
  <2>1. order \in [1..N -> districts] /\ \A i, j \in 1..N : i # j => order[i] # order[j]
    BY <1>3 DEF SetToSeqs
  <2>2. order \in Injection(1..N, districts)
    BY <2>1 DEF Injection, IsInjective
  <2>3. Cardinality(1..N) = Cardinality(districts)
    BY <1>1, FS_Interval
  <2>4. order \in Surjection(1..N, districts)
    BY <1>1, <2>2, <2>3, FS_Injection
  <2> QED
    BY <2>1, <2>4 DEF Surjection
<1> DEFINE X == districts \union {NoWinner}
           F == [p \in X \X (1..N) |-> op(p[1], order[p[2]])]
           iter == CHOOSE f : f = [s \in SUBSET DOMAIN order |->
                      IF s = {} THEN NoWinner ELSE op(f[s \ {Max(s)}], order[Max(s)])]
<1>5. iter = [s \in SUBSET (1..N) |-> IF s = {} THEN NoWinner ELSE op(iter[s \ {Max(s)}], order[Max(s)])]
  <2>1. F \in [X \X (1..N) -> X]
    BY <1>4 DEF TakeLarger
  <2>2. PICK f \in [SUBSET (1..N) -> X] : Folding(N, NoWinner, F, f)
    <3> HIDE DEF F
    <3>1. NoWinner \in X
      OBVIOUS
    <3> QED
      BY <1>1, <2>1, <3>1, FoldingExists
  <2>3. ASSUME NEW s \in SUBSET (1..N), s # {}
        PROVE  F[<<f[s \ {Max(s)}], Max(s)>>] = op(f[s \ {Max(s)}], order[Max(s)])
    <3>1. Max(s) \in 1..N
      <4>1. s \in SUBSET Int /\ (\A y \in s : y <= N) /\ N \in Int
        BY <1>1
      <4> QED
        BY <2>3, <4>1, BoundedHasMax
    <3>2. f[s \ {Max(s)}] \in X
      BY <2>2
    <3> HIDE DEF X, op
    <3> QED
      BY <3>1, <3>2
  <2>4. f = [s \in SUBSET DOMAIN order |-> IF s = {} THEN NoWinner ELSE op(f[s \ {Max(s)}], order[Max(s)])]
    <3>1. f = [s \in SUBSET (1..N) |-> IF s = {} THEN NoWinner ELSE F[<<f[s \ {Max(s)}], Max(s)>>]]
      BY <2>2 DEF Folding
    <3>2. DOMAIN order = 1..N
      BY <1>4
    <3> HIDE DEF F, op
    <3> QED
      BY <2>3, <3>1, <3>2
  <2>5. DOMAIN order = 1..N
    BY <1>4
  <2> HIDE DEF op
  <2> QED
    BY <2>4, <2>5
<1>6. best = iter[1..N]
  <2>1. DOMAIN order = 1..N
    BY <1>4
  <2> HIDE DEF iter
  <2>2. FoldLeft(op, NoWinner, order) = iter[DOMAIN order]
    BY DEF FoldLeft, MapThenFoldSet, iter
  <2> QED
    BY <1>3, <2>1, <2>2
<1> HIDE DEF iter, N
<1>7. iter[{}] = NoWinner /\ \A k \in 1..N : iter[1..k] = TakeLarger(code, iter[1..k - 1], order[k])
  <2>1. iter[{}] = NoWinner
    BY <1>5
  <2>2. ASSUME NEW k \in 1..N PROVE iter[1..k] = TakeLarger(code, iter[1..k - 1], order[k])
    <3>1. k \in Nat /\ k # 0 /\ 1..k \in SUBSET (1..N) /\ 1..k # {}
      BY <1>1, <2>2
    <3>2. Max(1..k) = k /\ (1..k) \ {Max(1..k)} = 1..k - 1
      BY <3>1, TopOfInterval
    <3> HIDE DEF op
    <3>3. iter[1..k] = op(iter[(1..k) \ {Max(1..k)}], order[Max(1..k)])
      BY <1>5, <3>1
    <3> QED
      BY <3>2, <3>3 DEF op
  <2> QED
    BY <2>1, <2>2
<1> DEFINE b(k) == iter[1..k]
           Good(k) == \E i \in 1..k : b(k) = order[i] /\ \A j \in 1..k : j # i => Beats(code, order[i], order[j])
           T == {k \in 0..N : k = 0 \/ Good(k)}
<1>8. 0 \in T
  BY <1>1
<1>9. ASSUME NEW n \in 0..N - 1, n \in T PROVE n + 1 \in T
  <2>1. n + 1 \in 1..N /\ b(n + 1) = TakeLarger(code, b(n), order[n + 1]) /\ order[n + 1] \in DistrictNames
    <3>1. n + 1 \in 1..N /\ n + 1 - 1 = n
      BY <1>1
    <3> QED
      BY <1>1, <1>4, <1>7, <3>1
  <2>2. CASE n = 0
    <3>1. b(n) = NoWinner
      <4>1. 1..n = {}
        BY <2>2
      <4> QED
        BY <1>7, <4>1
    <3>2. b(n + 1) = order[n + 1]
      BY <1>2, <1>4, <2>1, <3>1 DEF TakeLarger
    <3> HIDE DEF b
    <3>3. Good(n + 1)
      BY <2>2, <3>2
    <3> QED
      BY <2>1, <3>3
  <2>3. CASE n # 0
    <3>1. PICK i \in 1..n : b(n) = order[i] /\ \A j \in 1..n : j # i => Beats(code, order[i], order[j])
      BY <1>9, <2>3
    <3>2. i \in 1..N /\ i # n + 1 /\ order[i] # order[n + 1] /\ order[i] \in DistrictNames
      BY <1>1, <1>4, <2>1, <3>1
    <3> HIDE DEF b
    <3>3. b(n + 1) \in {order[i], order[n + 1]}
          /\ (b(n + 1) = order[i] => Beats(code, order[i], order[n + 1]))
          /\ (b(n + 1) = order[n + 1] => Beats(code, order[n + 1], order[i]))
      BY <2>1, <3>1, <3>2, TakeLargerBeats
    <3>4. CASE b(n + 1) = order[i]
      <4>1. \A j \in 1..n + 1 : j # i => Beats(code, order[i], order[j])
        BY <3>1, <3>3, <3>4
      <4> QED
        BY <2>1, <3>1, <3>4, <4>1
    <3>5. CASE b(n + 1) = order[n + 1]
      <4>1. ASSUME NEW j \in 1..n + 1, j # n + 1 PROVE Beats(code, order[n + 1], order[j])
        <5>1. j \in 1..n /\ order[j] \in DistrictNames
          BY <1>1, <1>4, <2>1, <4>1
        <5> QED
          BY <2>1, <3>1, <3>2, <3>3, <3>5, <5>1, BeatsIsTransitive
      <4> QED
        BY <2>1, <3>5, <4>1
    <3> QED
      BY <3>3, <3>4, <3>5
  <2> QED
    BY <2>2, <2>3
<1>10. N \in T
  <2> HIDE DEF T
  <2> QED
    BY <1>1, <1>8, <1>9, UpTo
<1>11. PICK i \in 1..N : best = order[i] /\ \A j \in 1..N : j # i => Beats(code, order[i], order[j])
  BY <1>1, <1>6, <1>10
<1>12. best \in districts
  BY <1>4, <1>11
<1>13. ASSUME NEW s \in Ids, Rows[s].postal = code, DistrictName(s) # best
       PROVE  Beats(code, best, DistrictName(s))
  <2>1. DistrictName(s) \in districts
    BY <1>13 DEF districts
  <2> QED
    BY <1>4, <1>11, <1>13, <2>1
<1> QED
  BY <1>12, <1>13 DEF districts

\* The deepest of the uppers of an entity, itself included, is the entity.
LEMMA DeepestOfUppers ==
  ASSUME NEW s \in Ids
  PROVE  Deepest(Uppers(s)) = s
<1>1. \A e \in Ids : Rows[e].kode \in Seq(Nat) /\ LevelOf(e) = Len(Rows[e].kode) /\ LevelOf(e) \in Nat
  BY RowsAssumption DEF Ids, LevelOf
<1>2. s \in Uppers(s)
  <2>1. IsPrefix(Rows[s].kode, Rows[s].kode)
    BY <1>1 DEF IsPrefix
  <2> QED
    BY <2>1 DEF Uppers
<1>3. ASSUME NEW e \in Uppers(s) PROVE e \in Ids /\ LevelOf(e) <= LevelOf(s) /\ (LevelOf(e) >= LevelOf(s) => e = s)
  <2>1. e \in Ids /\ IsPrefix(Rows[e].kode, Rows[s].kode)
    BY DEF Uppers
  <2>2. LevelOf(e) <= LevelOf(s) /\ Rows[e].kode = SubSeq(Rows[s].kode, 1, LevelOf(e))
    BY <1>1, <2>1 DEF IsPrefix
  <2>3. ASSUME LevelOf(e) >= LevelOf(s) PROVE Rows[e].kode = Rows[s].kode
    <3>1. LevelOf(e) = LevelOf(s)
      BY <1>1, <2>1, <2>2, <2>3
    <3> QED
      BY <1>1, <2>2, <3>1
  <2> QED
    BY <2>1, <2>2, <2>3, RowsAssumption DEF Ids
<1>4. s \in Uppers(s) /\ \A x \in Uppers(s) : LevelOf(x) <= LevelOf(s)
  BY <1>2, <1>3
<1>5. \A e \in Uppers(s) : (\A x \in Uppers(s) : LevelOf(x) <= LevelOf(e)) => e = s
  BY <1>1, <1>2, <1>3
<1> QED
  BY <1>4, <1>5 DEF Deepest

\* For every gazetteer and every total order of names: the district that the
\* postal code gives is the largest, whatever order the map of groups is visited
\* in (validate_helper.go:48-61).
THEOREM LargestDistrictWins == Spec => []FallbackIsMajority
<1>1. Init => FallbackIsMajority
  BY DEF Init, FallbackIsMajority
<1>2. Settled /\ FallbackIsMajority /\ [Next]_vars => FallbackIsMajority'
  <2> SUFFICES ASSUME Settled, FallbackIsMajority, [Next]_vars PROVE FallbackIsMajority'
    OBVIOUS
  <2>1. CASE Refuse \/ Fail \/ Clean \/ Resolve \/ Prioritize \/ CompactFallback \/ Build \/ Recover \/ Rank
    <3>1. stage' # "done"
      BY <2>1 DEF Refuse, Fail, Clean, Resolve, Prioritize, CompactFallback, Build, Recover, Rank
    <3> QED
      BY <3>1 DEF FallbackIsMajority
  <2>2. CASE PostalFallback
    <3>1. SUFFICES ASSUME cands' = {}, answer'.location # {}
                   PROVE  FallbackIsMajority'
      BY DEF FallbackIsMajority
    <3>2. answer = NoAnswer /\ Unlocated
      <4>1. stage = "postal" /\ cands = {}
        BY <2>2, <3>1 DEF PostalFallback
      <4>2. answer = NoAnswer
        BY <4>1 DEF Settled
      <4> QED
        BY <4>2 DEF NoAnswer, Unlocated
    <3>3. PICK x \in Ids : Rows[x].postal = PostalCode /\ \E district \in BestDistricts(PostalCode) :
             answer' = [answer EXCEPT !.location = Uppers(Min(GroupOf(PostalCode, district))), !.code = PostalCode]
      <4>1. answer' # answer
        BY <3>1, <3>2 DEF Unlocated
      <4> QED
        BY <2>2, <3>2, <4>1 DEF PostalFallback
    <3>4. PICK district \in BestDistricts(PostalCode) :
             answer' = [answer EXCEPT !.location = Uppers(Min(GroupOf(PostalCode, district))), !.code = PostalCode]
      BY <3>3
    <3> DEFINE code == PostalCode
               s == Min(GroupOf(code, district))
    <3>5. answer'.location = Uppers(s) /\ answer'.code = code
      BY <3>2, <3>4 DEF NoAnswer
    <3> HIDE DEF code
    <3>6. /\ \E y \in Ids : Rows[y].postal = code /\ DistrictName(y) = district
          /\ \A y \in Ids : Rows[y].postal = code /\ DistrictName(y) # district => Beats(code, district, DistrictName(y))
      BY <3>3, <3>4, BestDistrictBeatsAll DEF code
    <3>7. s \in GroupOf(code, district)
      <4> DEFINE S == GroupOf(code, district)
      <4>1. S # {}
        BY <3>6 DEF GroupOf
      <4>2. S \in SUBSET Int /\ (\A y \in S : y >= 0) /\ 0 \in Int
        BY GroupSize, RowsAssumption DEF Ids
      <4> HIDE DEF S
      <4>3. Min(S) \in S
        BY <4>1, <4>2, BoundedHasMin
      <4> QED
        BY <4>3 DEF S
    <3>8. s \in Ids /\ DistrictName(s) = district
      BY <3>7 DEF GroupOf
    <3>9. DistrictName(Deepest(answer'.location)) = district
      BY <3>5, <3>8, DeepestOfUppers
    <3> QED
      BY <3>5, <3>6, <3>9 DEF FallbackIsMajority, Beats
  <2>3. CASE Done \/ UNCHANGED vars
    <3>1. UNCHANGED <<stage, cands, answer>>
      BY <2>3 DEF Done, vars
    <3> QED
      BY <3>1 DEF FallbackIsMajority
  <2> QED
    BY <2>1, <2>2, <2>3 DEF Next
<1> QED
  BY <1>1, <1>2, SettledHolds, PTL DEF Spec
-----------------------------------------------------------------------------
\* What a scan takes are spans that fit.
LEMMA TakenFit ==
  ASSUME NEW last \in Nat, NEW fitting \in SUBSET ((1..last) \X (1..last)), \A s \in fitting : s[1] <= s[2]
  PROVE  LongestSpans(1, last, fitting) \subseteq fitting
<1> DEFINE Ends(i) == {s[2] : s \in {t \in fitting : t[1] = i}}
           scan == CHOOSE f : f = [i \in 1..last + 1 |->
                     IF i > last THEN {}
                     ELSE IF Ends(i) = {} THEN f[i + 1] ELSE {<<i, Max(Ends(i))>>} \union f[Max(Ends(i)) + 1]]
           A == [i \in 1..last |-> IF Ends(i) = {} THEN {} ELSE {<<i, Max(Ends(i))>>}]
           next == [i \in 1..last |-> IF Ends(i) = {} THEN i + 1 ELSE Max(Ends(i)) + 1]
<1>1. LongestSpans(1, last, fitting) = scan[1]
  BY DEF LongestSpans
<1>2. ASSUME NEW i \in 1..last, Ends(i) # {}
      PROVE  Max(Ends(i)) \in i..last /\ <<i, Max(Ends(i))>> \in fitting
  <2>1. \A x \in Ends(i) : x \in i..last /\ <<i, x>> \in fitting
    OBVIOUS
  <2>2. Ends(i) \in SUBSET Int /\ (\A x \in Ends(i) : x <= last) /\ last \in Int
    BY <2>1
  <2> HIDE DEF Ends
  <2>3. Max(Ends(i)) \in Ends(i)
    BY <1>2, <2>2, BoundedHasMax
  <2> QED
    BY <2>1, <2>3
<1>3. next \in [1..last -> 1..last + 1] /\ \A i \in 1..last : next[i] > i
  <2>1. ASSUME NEW i \in 1..last PROVE next[i] \in i + 1..last + 1
    <3> HIDE DEF Ends
    <3>1. CASE Ends(i) = {}
      BY <3>1
    <3>2. CASE Ends(i) # {}
      <4> DEFINE m == Max(Ends(i))
      <4>1. m \in i..last
        BY <1>2, <3>2
      <4>2. next[i] = m + 1
        BY <3>2
      <4> HIDE DEF m, next
      <4> QED
        BY <4>1, <4>2
    <3> QED
      BY <3>1, <3>2
  <2>2. DOMAIN next = 1..last /\ next = [i \in 1..last |-> next[i]]
    OBVIOUS
  <2> HIDE DEF next
  <2>3. \A i \in 1..last : next[i] \in 1..last + 1 /\ next[i] > i
    BY <2>1
  <2> QED
    BY <2>2, <2>3
<1>4. \A i \in 1..last : A[i] \subseteq fitting
  <2> TAKE i \in 1..last
  <2> HIDE DEF Ends
  <2>1. CASE Ends(i) = {}
    BY <2>1
  <2>2. CASE Ends(i) # {}
    BY <1>2, <2>2
  <2> QED
    BY <2>1, <2>2
<1> HIDE DEF Ends
<1>5. PICK f : Scanning(last, A, next, f)
  <2> HIDE DEF A, next
  <2> QED
    BY <1>3, ScanExists
<1>6. f = [i \in 1..last + 1 |->
             IF i > last THEN {}
             ELSE IF Ends(i) = {} THEN f[i + 1] ELSE {<<i, Max(Ends(i))>>} \union f[Max(Ends(i)) + 1]]
  <2>1. ASSUME NEW i \in 1..last
        PROVE  A[i] \union f[next[i]] = IF Ends(i) = {} THEN f[i + 1] ELSE {<<i, Max(Ends(i))>>} \union f[Max(Ends(i)) + 1]
    <3>1. CASE Ends(i) = {}
      BY <3>1
    <3>2. CASE Ends(i) # {}
      BY <3>2
    <3> QED
      BY <3>1, <3>2
  <2> HIDE DEF A, next
  <2>2. ASSUME NEW i \in 1..last + 1
        PROVE  f[i] = IF i > last THEN {}
                      ELSE IF Ends(i) = {} THEN f[i + 1] ELSE {<<i, Max(Ends(i))>>} \union f[Max(Ends(i)) + 1]
    <3>1. CASE i > last
      BY <1>5, <3>1 DEF Scanning
    <3>2. CASE ~(i > last)
      <4>2. i \in 1..last
        BY <3>2
      <4>1. i \in 1..last /\ f[i] = A[i] \union f[next[i]]
        BY <1>5, <3>2, <4>2 DEF Scanning
      <4> QED
        BY <2>1, <3>2, <4>1
    <3> QED
      BY <3>1, <3>2
  <2>3. DOMAIN f = 1..last + 1 /\ f = [i \in 1..last + 1 |-> f[i]]
    BY <1>5 DEF Scanning
  <2> QED
    BY <2>2, <2>3
<1>7. scan = [i \in 1..last + 1 |->
                IF i > last THEN {}
                ELSE IF Ends(i) = {} THEN scan[i + 1] ELSE {<<i, Max(Ends(i))>>} \union scan[Max(Ends(i)) + 1]]
  BY <1>6
<1> HIDE DEF scan
<1> DEFINE T == {n \in 0..last : \A i \in last + 1 - n..last + 1 : scan[i] \subseteq fitting}
<1>8. 0 \in T
  BY <1>7
<1>9. ASSUME NEW n \in 0..last - 1, n \in T PROVE n + 1 \in T
  <2> DEFINE j == last - n
  <2>1. j \in 1..last /\ last + 1 - n = j + 1 /\ last + 1 - (n + 1) = j
    OBVIOUS
  <2>2. \A i \in j + 1..last + 1 : scan[i] \subseteq fitting
    BY <1>9, <2>1
  <2>3. scan[j] = IF Ends(j) = {} THEN scan[j + 1] ELSE {<<j, Max(Ends(j))>>} \union scan[Max(Ends(j)) + 1]
    <3>1. j \in 1..last + 1 /\ ~(j > last)
      BY <2>1
    <3> HIDE DEF j
    <3> QED
      BY <1>7, <3>1
  <2> HIDE DEF j
  <2>4. scan[j] \subseteq fitting
    <3>1. CASE Ends(j) = {}
      <4>1. j + 1 \in j + 1..last + 1
        BY <2>1
      <4> QED
        BY <2>2, <2>3, <3>1, <4>1
    <3>2. CASE Ends(j) # {}
      <4>1. Max(Ends(j)) \in j..last /\ <<j, Max(Ends(j))>> \in fitting
        BY <1>2, <2>1, <3>2
      <4>2. Max(Ends(j)) + 1 \in j + 1..last + 1
        BY <2>1, <4>1
      <4> QED
        BY <2>2, <2>3, <3>2, <4>1, <4>2
    <3> QED
      BY <3>1, <3>2
  <2>5. \A i \in j..last + 1 : scan[i] \subseteq fitting
    BY <2>1, <2>2, <2>4
  <2> QED
    BY <2>1, <2>5
<1>10. last \in T
  <2> HIDE DEF T
  <2> QED
    BY <1>8, <1>9, UpTo
<1>11. scan[1] \subseteq fitting
  <2>1. 1 \in last + 1 - last..last + 1
    OBVIOUS
  <2> QED
    BY <1>10, <2>1
<1> QED
  BY <1>1, <1>11

\* The spans that recovery looks up, and which of them it takes.
LEMMA TakenSpansMatch ==
  ASSUME IsSequence(text.words), NEW open, NEW entities, NEW match, match = SpanMatches(open, entities)
  PROVE  /\ TakenSpans(match) \subseteq DOMAIN match
         /\ \A s \in DOMAIN match : s \in ShortSpans(text.words) /\ match[s] = BestSpanMatch(Words(text.words, s), entities)
         /\ \A s \in TakenSpans(match) : match[s] # {}
<1>1. /\ DOMAIN match \subseteq ShortSpans(text.words)
      /\ \A s \in DOMAIN match : match[s] = BestSpanMatch(Words(text.words, s), entities)
  BY DEF SpanMatches
<1>2. DOMAIN text.words = 1..Len(text.words) /\ Len(text.words) \in Nat
  BY DEF IsSequence
<1>3. \A s \in DOMAIN match : s \in (1..Len(text.words)) \X (1..Len(text.words)) /\ s[1] <= s[2]
  BY <1>1, <1>2 DEF ShortSpans, Spans
<1> DEFINE fitting == {s \in DOMAIN match : match[s] # {}}
<1>4. fitting \in SUBSET ((1..Len(text.words)) \X (1..Len(text.words))) /\ \A s \in fitting : s[1] <= s[2]
  BY <1>3
<1>5. TakenSpans(match) = LongestSpans(1, Len(text.words), fitting)
  BY DEF TakenSpans
<1> HIDE DEF fitting
<1>6. TakenSpans(match) \subseteq fitting
  BY <1>2, <1>4, <1>5, TakenFit
<1> QED
  BY <1>1, <1>6 DEF fitting

\* A span of an address holds words of the address.
LEMMA SpanWords ==
  ASSUME NEW words, IsSequence(words), NEW s \in ShortSpans(words)
  PROVE  Range(Words(words, s)) \subseteq Range(words)
<1>1. DOMAIN words = 1..Len(words) /\ Len(words) \in Nat /\ words \in Seq(Range(words))
  BY DEF IsSequence
<1>2. s[1] \in 1..Len(words) /\ s[2] \in 1..Len(words)
  BY <1>1 DEF ShortSpans, Spans
<1>3. SubSeq(words, s[1], s[2]) \in Seq(Range(words))
  BY <1>1, <1>2
<1> QED
  BY <1>3 DEF Words, Range

\* What recovery adds: a misspelt name for a span that it takes, and entities
\* that the span matches.
Foundable(s, cs, res) == BestSpanMatch(Words(text.words, s), Context(Frontier(cs, res)))
LEMMA WhatRecoveryFinds ==
  ASSUME IsSequence(text.words), NEW cs, NEW res, NEW k \in DOMAIN Recovered(cs, res).new
  PROVE  LET e == Recovered(cs, res).new[k]
         IN  /\ DOMAIN e = {"type", "value", "found", "fuzzy"}
             /\ e.type = "place_name" /\ e.fuzzy = TRUE
             /\ \E s \in ShortSpans(text.words) :
                  e.value = Words(text.words, s) /\ e.found \subseteq Foundable(s, cs, res)
<1> DEFINE match == SpanMatches(Unexplained(Frontier(cs, res), res), Context(Frontier(cs, res)))
           taken == TakenSpans(match)
           known == Discovered(res)
           Before(s) == known \union UNION {match[x] : x \in {y \in taken : y[1] < s[1]}}
           fresh   == {[span |-> s, found |-> match[s] \ Before(s)] : s \in taken}
           From(p) == CHOOSE x \in fresh : x.span[1] = p
           P == {p \in DOMAIN text.words : \E x \in fresh : x.span[1] = p /\ x.found # {}}
           order == InOrder(P)
           Piece(i) == Evidence("place_name", Words(text.words, From(order[i]).span), From(order[i]).found, TRUE)
<1>1. Recovered(cs, res).new = [i \in DOMAIN order |-> Piece(i)]
  BY DEF Recovered, RecoveryIn, RecoveryFrom, RecoveryBy, Recovery, NewEvidence
<1>2. /\ taken \subseteq DOMAIN match
      /\ \A s \in DOMAIN match : s \in ShortSpans(text.words) /\ match[s] = Foundable(s, cs, res)
  <2> DEFINE open == Unexplained(Frontier(cs, res), res)
             entities == Context(Frontier(cs, res))
  <2>1. match = SpanMatches(open, entities)
    OBVIOUS
  <2> HIDE DEF open, entities, match
  <2>2. /\ TakenSpans(match) \subseteq DOMAIN match
        /\ \A s \in DOMAIN match : s \in ShortSpans(text.words) /\ match[s] = BestSpanMatch(Words(text.words, s), entities)
    BY <2>1, TakenSpansMatch
  <2> QED
    BY <2>2 DEF Foundable, entities
<1> HIDE DEF match, taken, known
<1>3. \A x \in fresh : x.span \in ShortSpans(text.words) /\ x.found \subseteq Foundable(x.span, cs, res)
  BY <1>2
<1> HIDE DEF fresh
<1>4. k \in DOMAIN order /\ Recovered(cs, res).new[k] = Piece(k)
  BY <1>1
<1>5. order[k] \in P
  <2> HIDE DEF P
  <2>1. P \in SUBSET DOMAIN text.words
    BY DEF P
  <2> QED
    BY <1>4, <2>1, OrderMembers
<1>6. From(order[k]) \in fresh
  BY <1>5
<1> HIDE DEF From, order
<1>7. /\ DOMAIN Piece(k) = {"type", "value", "found", "fuzzy"}
      /\ Piece(k).type = "place_name" /\ Piece(k).fuzzy = TRUE
      /\ Piece(k).value = Words(text.words, From(order[k]).span)
      /\ Piece(k).found = From(order[k]).found
  BY DEF Evidence
<1> HIDE DEF Piece
<1> QED
  BY <1>3, <1>4, <1>6, <1>7

\* The words that recovery uses up are words of the text.
LEMMA ExplainedWords ==
  ASSUME IsSequence(text.words), NEW cs, NEW res
  PROVE  Recovered(cs, res).words \subseteq Range(text.words)
<1> DEFINE open == Unexplained(Frontier(cs, res), res)
           entities == Context(Frontier(cs, res))
           match == SpanMatches(open, entities)
           taken == TakenSpans(match)
<1>1. Recovered(cs, res).words \subseteq UNION {Range(Words(text.words, s)) : s \in taken}
  BY DEF Recovered, RecoveryIn, RecoveryFrom, RecoveryBy, Recovery
<1>2. taken \subseteq ShortSpans(text.words)
  <2>1. match = SpanMatches(open, entities)
    OBVIOUS
  <2> HIDE DEF open, entities, match
  <2> QED
    BY <2>1, TakenSpansMatch
<1> HIDE DEF taken
<1> QED
  BY <1>1, <1>2, SpanWords

\* What recovery compares with are rows of the gazetteer.
LEMMA ContextType ==
  ASSUME NEW cs, cs \subseteq {Enrich({e}) : e \in Ids}, NEW res
  PROVE  /\ Context(Frontier(cs, res)) \subseteq Ids
         /\ \A s : Foundable(s, cs, res) \subseteq Context(Frontier(cs, res))
<1>1. Frontier(cs, res) \subseteq cs
  BY DEF Frontier
<1>2. \A c \in cs : c \subseteq Ids
  BY EnrichIsConsistent DEF Consistent
<1>3. \A e : Children(e) \subseteq Ids
  BY DEF Children, HierarchyMap
<1>4. \A c \in cs : Neighborhood(c) \subseteq Ids
  BY <1>2, <1>3 DEF Neighborhood
<1>5. Context(Frontier(cs, res)) \subseteq Ids
  BY <1>1, <1>4 DEF Context
<1>6. \A s : Foundable(s, cs, res) \subseteq Context(Frontier(cs, res))
  BY DEF Foundable, BestSpanMatch
<1> QED
  BY <1>5, <1>6

-----------------------------------------------------------------------------
\* The words of an address are neither numbers nor nothing.
LEMMA WordsAreNoNumbers ==
  ASSUME NEW t \in Texts
  PROVE  \A p \in DOMAIN Normalize(t) : Normalize(t)[p] \notin Numbers \union {""}
<1>0. IsSequence(t)
  <2>1. t \in Seq([word : STRING, sep : STRING])
    BY TextAssumption
  <2>2. Len(t) \in Nat /\ DOMAIN t = 1..Len(t) /\ t = [k \in DOMAIN t |-> t[k]]
    BY <2>1, SeqDef, LenProperties
  <2> QED
    BY <2>2, FunctionIsSequence
<1> DEFINE kept == {p \in FieldStarts(t) : ~IsAdmin(t, p)}
           S == {p \in kept : FieldLetters(t, p) # <<>>}
           C == {p \in DOMAIN t : t[p].word \in PostalCodes}
           fields == InOrder(S)
           codes == InOrder(C)
           A == [k \in DOMAIN fields |-> Compact(FieldLetters(t, fields[k]))]
           B == [k \in DOMAIN codes |-> t[codes[k]].word]
<1>1. Normalize(t) = A \o B
  BY DEF Normalize
<1>2. S \in SUBSET DOMAIN t /\ C \in SUBSET DOMAIN t
  BY DEF FieldStarts
<1>3. /\ \E n \in Nat : DOMAIN fields = 1..n
      /\ \E n \in Nat : DOMAIN codes = 1..n
      /\ \A k \in DOMAIN fields : fields[k] \in S
      /\ \A k \in DOMAIN codes : codes[k] \in C
  <2> HIDE DEF S, C
  <2> QED
    BY <1>0, <1>2, OrderIsSequence, OrderMembers
<1> HIDE DEF fields, codes
<1>4. \A k \in DOMAIN A : A[k] \notin Numbers \union {""}
  BY <1>3, WordAssumption
<1>5. \A k \in DOMAIN B : B[k] \notin Numbers \union {""}
  BY <1>3, WordAssumption
<1>6. IsSequence(A) /\ IsSequence(B)
  BY <1>3, FunctionIsSequence
<1> HIDE DEF A, B
<1> DEFINE W == A \o B
<1>7. /\ \A i \in DOMAIN A : W[i] = A[i]
      /\ \A i \in DOMAIN W \ DOMAIN A : i - Len(A) \in DOMAIN B /\ W[i] = B[i - Len(A)]
  BY <1>6, JoinedParts
<1>8. Normalize(t) = W
  BY <1>1
<1> HIDE DEF W
<1>9. \A i \in DOMAIN W : W[i] \notin Numbers \union {""}
  <2> TAKE i \in DOMAIN W
  <2>1. CASE i \in DOMAIN A
    BY <1>4, <1>7, <2>1
  <2>2. CASE i \notin DOMAIN A
    BY <1>5, <1>7, <2>2
  <2> QED
    BY <2>1, <2>2
<1> QED
  BY <1>8, <1>9

\* Names and spacing variants are rows of the gazetteer.
LEMMA LookupTypes ==
  /\ \A words, w : PhraseEntities(words, w) \subseteq Ids
  /\ \A words, w : CompactEntities(words, w) \subseteq Ids
<1>1. \A n : Named(n) \subseteq Ids /\ SpacingOnly(n) \subseteq Ids
  BY DEF Named, SpacingOnly, NamedTogether
<1>2. ASSUME NEW words, NEW w PROVE PhraseEntities(words, w) \subseteq Ids
  BY <1>1 DEF PhraseEntities
<1>3. ASSUME NEW words, NEW w PROVE CompactEntities(words, w) \subseteq Ids
  BY <1>1 DEF CompactEntities
<1> QED
  BY <1>2, <1>3

\* The postal code of a text is one, where the text has one.
LEMMA PostalCodeType ==
  ASSUME IsSequence(text.words), PostalPositions # {}
  PROVE  PostalCode \in PostalCodes
<1>1. PostalPositions \in SUBSET Int /\ (\A p \in PostalPositions : p >= 1) /\ 1 \in Int
  BY DomainIsFinite DEF PostalPositions
<1>2. Min(PostalPositions) \in PostalPositions
  BY <1>1, BoundedHasMin
<1> QED
  BY <1>2 DEF PostalCode, PostalPositions

\* What the turns of the city priority have left of the entities, turn by turn.
Found == [i \in DOMAIN resolved |-> resolved[i].found]
TakesTurns(g) ==
  /\ g[0] = Found /\ g[Len(resolved)] = FoldLeft(Suppress, Found, [i \in DOMAIN resolved |-> i])
  /\ \A n \in 0..Len(resolved) : g[n] \in [DOMAIN resolved -> SUBSET Ids]
  /\ \A n \in 1..Len(resolved) : g[n] = Suppress(g[n - 1], n)
LEMMA SuppressionGoesByTurns ==
  ASSUME IsSequence(resolved), \A i \in DOMAIN resolved : resolved[i].found \subseteq Ids
  PROVE  \E g : TakesTurns(g)
<1> DEFINE X == [DOMAIN resolved -> SUBSET Ids]
           base == [i \in DOMAIN resolved |-> resolved[i].found]
           turns == [i \in DOMAIN resolved |-> i]
<1>1. PICK N \in Nat : DOMAIN resolved = 1..N /\ N = Len(resolved)
  BY DEF IsSequence
<1> DEFINE F == [p \in X \X (1..N) |-> Suppress(p[1], p[2])]
           iter == CHOOSE f : f = [s \in SUBSET DOMAIN turns |->
                     IF s = {} THEN base ELSE Suppress(f[s \ {Max(s)}], turns[Max(s)])]
<1>2. ASSUME NEW found \in X, NEW i \in 1..N PROVE Suppress(found, i) \in X
  <2>1. \A S \in SUBSET Ids : At(S, CITY) \in SUBSET Ids
    BY DEF At
  <2>2. Suppress(found, i) = found \/ Suppress(found, i) = [found EXCEPT ![i] = At(found[i], CITY)]
    BY DEF Suppress
  <2> QED
    BY <1>1, <2>1, <2>2
<1>3. PICK f \in [SUBSET (1..N) -> X] : Folding(N, base, F, f)
  <2>1. base \in X
    OBVIOUS
  <2>2. F \in [X \X (1..N) -> X]
    BY <1>2
  <2> HIDE DEF X, base, F
  <2> QED
    BY <2>1, <2>2, FoldingExists
<1>4. f = [s \in SUBSET DOMAIN turns |-> IF s = {} THEN base ELSE Suppress(f[s \ {Max(s)}], turns[Max(s)])]
  <2>1. ASSUME NEW s \in SUBSET (1..N), s # {}
        PROVE  F[<<f[s \ {Max(s)}], Max(s)>>] = Suppress(f[s \ {Max(s)}], turns[Max(s)])
    <3>1. Max(s) \in 1..N
      <4>1. s \in SUBSET Int /\ (\A y \in s : y <= N) /\ N \in Int
        OBVIOUS
      <4> QED
        BY <2>1, <4>1, BoundedHasMax
    <3>2. f[s \ {Max(s)}] \in X
      BY <1>3
    <3>3. turns[Max(s)] = Max(s)
      BY <1>1, <3>1
    <3> HIDE DEF X, turns
    <3> QED
      BY <3>1, <3>2, <3>3
  <2>2. f = [s \in SUBSET (1..N) |-> IF s = {} THEN base ELSE F[<<f[s \ {Max(s)}], Max(s)>>]]
    BY <1>3 DEF Folding
  <2>3. DOMAIN turns = 1..N
    BY <1>1
  <2> HIDE DEF F, X, base, turns
  <2> QED
    BY <2>1, <2>2, <2>3
<1> HIDE DEF X, base, F, turns
<1>5. iter = [s \in SUBSET DOMAIN turns |-> IF s = {} THEN base ELSE Suppress(iter[s \ {Max(s)}], turns[Max(s)])]
  BY <1>4
<1>6. FoldLeft(Suppress, base, turns) = iter[DOMAIN turns]
  BY DEF FoldLeft, MapThenFoldSet
<1>7. DOMAIN turns = 1..N /\ base \in X /\ \A i \in 1..N : turns[i] = i
  BY <1>1 DEF turns, base, X
<1> HIDE DEF iter
<1> DEFINE T == {k \in 0..N : iter[1..k] \in X}
<1>8. 0 \in T
  <2>1. iter[{}] = base
    BY <1>5
  <2> QED
    BY <1>7, <2>1
<1>9. ASSUME NEW n \in 0..N - 1, n \in T PROVE n + 1 \in T
  <2>1. n + 1 \in Nat /\ n + 1 # 0 /\ 1..n + 1 \in SUBSET (1..N) /\ 1..n + 1 # {} /\ n + 1 - 1 = n /\ n + 1 \in 1..N
    OBVIOUS
  <2>2. Max(1..n + 1) = n + 1 /\ (1..n + 1) \ {Max(1..n + 1)} = 1..n
    BY <2>1, TopOfInterval
  <2>3. iter[1..n + 1] = Suppress(iter[(1..n + 1) \ {Max(1..n + 1)}], turns[Max(1..n + 1)])
    BY <1>5, <1>7, <2>1
  <2>4. iter[1..n + 1] = Suppress(iter[1..n], n + 1)
    BY <1>7, <2>1, <2>2, <2>3
  <2>5. iter[1..n] \in X
    BY <1>9
  <2> QED
    BY <1>2, <2>1, <2>4, <2>5
<1> DEFINE g == [n \in 0..N |-> iter[1..n]]
<1>10. \A n \in 0..N : g[n] \in X
  <2>1. \A n \in 0..N - 1 : n \in T => n + 1 \in T
    BY <1>9
  <2>2. \A n \in 0..N : n \in T
    <3> HIDE DEF T
    <3> QED
      BY <1>1, <1>8, <2>1, UpTo
  <2> QED
    BY <2>2
<1>11. \A n \in 1..N : g[n] = Suppress(g[n - 1], n)
  <2> SUFFICES ASSUME NEW n \in 1..N PROVE g[n] = Suppress(g[n - 1], n)
    OBVIOUS
  <2>1. n \in Nat /\ n # 0 /\ 1..n \in SUBSET (1..N) /\ 1..n # {} /\ n \in 0..N /\ n - 1 \in 0..N
    BY <1>1
  <2>2. Max(1..n) = n /\ (1..n) \ {Max(1..n)} = 1..n - 1
    BY <2>1, TopOfInterval
  <2>3. iter[1..n] = Suppress(iter[(1..n) \ {Max(1..n)}], turns[Max(1..n)])
    BY <1>5, <1>7, <2>1
  <2> QED
    BY <1>7, <2>1, <2>2, <2>3
<1>12. g[0] = base /\ g[N] = iter[1..N]
  <2>1. iter[{}] = base /\ 0 \in 0..N /\ N \in 0..N /\ 1..0 = {}
    BY <1>1, <1>5
  <2> QED
    BY <2>1
<1> HIDE DEF g
<1>13. TakesTurns(g)
  BY <1>1, <1>6, <1>7, <1>10, <1>11, <1>12 DEF TakesTurns, Found, base, turns, X
<1> QED
  BY <1>13

\* City priority leaves some of the entities that were found, whatever the
\* evidence is.
LEMMA SuppressionType ==
  ASSUME IsSequence(resolved), \A i \in DOMAIN resolved : resolved[i].found \subseteq Ids
  PROVE  LET left == FoldLeft(Suppress, [i \in DOMAIN resolved |-> resolved[i].found], [i \in DOMAIN resolved |-> i])
         IN  left \in [DOMAIN resolved -> SUBSET Ids]
<1>1. PICK g : TakesTurns(g)
  BY SuppressionGoesByTurns
<1>2. Len(resolved) \in 0..Len(resolved)
  BY DEF IsSequence
<1> QED
  BY <1>1, <1>2 DEF TakesTurns, Found

-----------------------------------------------------------------------------
\* The evidence: its shape, where it was found, and that no two exact pieces of
\* evidence have one value.
Pieces(res) ==
  \A i \in DOMAIN res :
    /\ DOMAIN res[i] = {"type", "value", "found", "fuzzy"}
    /\ res[i].type \in {"postal_code", "place_name"}
    /\ res[i].found \subseteq Ids
    /\ ~res[i].fuzzy => \A j \in DOMAIN res : res[j].value = res[i].value => j = i \/ res[j].fuzzy

\* The inductive invariant of the types: recovery has used nothing up before it
\* runs, and nothing has won before the ranking.
TypeInv ==
  /\ stage \in Stages
  /\ \A p \in DOMAIN text.words : text.words[p] \notin Numbers \union {""}
  /\ Pieces(resolved)
  /\ explained \subseteq Range(text.words)
  /\ winner \in cands \union {NoWinner}
  /\ answer \in Answers
  /\ stage \in {"clean", "resolve", "prioritize", "compact", "build", "recover"} => explained = {}
  /\ stage \in {"clean", "resolve", "prioritize", "compact", "build", "recover", "rank"} => winner = NoWinner

\* Evidence that keeps its values keeps its shape when what it found stays
\* within the gazetteer.
LEMMA PiecesKept ==
  ASSUME NEW res, NEW r, Pieces(res), DOMAIN r = DOMAIN res,
         \A i \in DOMAIN res : \/ r[i] = res[i]
                               \/ \E S \in SUBSET Ids : r[i] = [res[i] EXCEPT !.found = S]
  PROVE  Pieces(r)
<1>1. \A i \in DOMAIN res : /\ DOMAIN r[i] = {"type", "value", "found", "fuzzy"}
                            /\ r[i].type = res[i].type /\ r[i].value = res[i].value /\ r[i].fuzzy = res[i].fuzzy
                            /\ r[i].found \subseteq Ids
  <2> TAKE i \in DOMAIN res
  <2>1. DOMAIN res[i] = {"type", "value", "found", "fuzzy"} /\ res[i].found \subseteq Ids
    BY DEF Pieces
  <2>2. CASE r[i] = res[i]
    BY <2>1, <2>2
  <2>3. ASSUME NEW S \in SUBSET Ids, r[i] = [res[i] EXCEPT !.found = S]
        PROVE  /\ DOMAIN r[i] = {"type", "value", "found", "fuzzy"}
               /\ r[i].type = res[i].type /\ r[i].value = res[i].value /\ r[i].fuzzy = res[i].fuzzy
               /\ r[i].found \subseteq Ids
    BY <2>1, <2>3
  <2> QED
    BY <2>2, <2>3
<1> QED
  BY <1>1 DEF Pieces

\* Evidence as it is extracted: a place name is one word, and has found what the
\* phrases around it name.
Exact(res) ==
  \A i \in DOMAIN res : /\ ~res[i].fuzzy
                        /\ res[i].type = "place_name" =>
                             \E w : res[i].value = <<w>> /\ res[i].found = PhraseEntities(text.words, w)

\* ExtractEvidence gives each word of the text once.
LEMMA ResolvedPieces ==
  ASSUME IsSequence(text.words), Resolve
  PROVE  Pieces(resolved') /\ Exact(resolved')
<1> DEFINE P == PlacePositions(text.words)
           order == InOrder(P)
           Coded(code) == {e \in Ids : LevelOf(e) = SUBDISTRICT /\ Rows[e].postal = code}
           first == Evidence("postal_code", <<PostalCode>>, Coded(PostalCode), FALSE)
           postal == IF PostalPositions = {} THEN <<>> ELSE <<first>>
           Place(w) == Evidence("place_name", <<w>>, PhraseEntities(text.words, w), FALSE)
           places == [k \in DOMAIN order |-> Place(text.words[order[k]])]
           r == postal \o places
<1>1. resolved' = r
  BY DEF Resolve
<1>2. P \in SUBSET DOMAIN text.words
  BY DEF PlacePositions
<1>3. /\ \E n \in Nat : DOMAIN order = 1..n
      /\ \A j, k \in DOMAIN order : order[k] \in P /\ (j # k => order[j] # order[k])
  <2> HIDE DEF P
  <2> QED
    BY <1>2, OrderIsSequence, OrderMembers
<1> HIDE DEF order
<1>4. \A p, q \in P : p # q => text.words[p] # text.words[q]
  <2>1. \A p \in P : p \in Int
    <3> HIDE DEF P
    <3> QED
      BY <1>2, DomainIsFinite
  <2>2. \A p, q \in P : p < q => text.words[p] # text.words[q]
    BY DEF PlacePositions
  <2>3. \A p, q \in P : p # q => p < q \/ q < p
    BY <2>1
  <2> HIDE DEF P
  <2> QED
    BY <2>2, <2>3
<1>5. \A p \in P : text.words[p] \notin PostalCodes
  BY DEF PlacePositions
<1> HIDE DEF P
<1>6. /\ IsSequence(postal) /\ IsSequence(places)
      /\ \A i \in DOMAIN postal : postal[i] = first /\ PostalPositions # {} /\ i = 1
  <2>1. \A x : IsSequence(<<x>>) /\ IsSequence(<<>>)
    BY DEF IsSequence, Range
  <2>2. IsSequence(places)
    <3> HIDE DEF Place
    <3> QED
      BY <1>3, FunctionIsSequence
  <2> HIDE DEF first, places
  <2> QED
    BY <2>1, <2>2
<1>7. \A i \in DOMAIN postal : /\ DOMAIN postal[i] = {"type", "value", "found", "fuzzy"}
                               /\ postal[i].type = "postal_code" /\ postal[i].found \subseteq Ids
                               /\ postal[i].value[1] \in PostalCodes
                               /\ ~postal[i].fuzzy
  <2>1. /\ DOMAIN first = {"type", "value", "found", "fuzzy"} /\ first.type = "postal_code"
        /\ first.found \subseteq Ids /\ first.value[1] = PostalCode /\ ~first.fuzzy
    BY DEF Evidence
  <2> HIDE DEF first, postal
  <2> QED
    BY <1>6, <2>1, PostalCodeType
<1>8. \A k \in DOMAIN places : /\ DOMAIN places[k] = {"type", "value", "found", "fuzzy"}
                               /\ places[k].type = "place_name" /\ places[k].found \subseteq Ids
                               /\ places[k].value[1] = text.words[order[k]] /\ ~places[k].fuzzy
                               /\ \E w : places[k].value = <<w>> /\ places[k].found = PhraseEntities(text.words, w)
  BY LookupTypes DEF Evidence
<1>9. DOMAIN places = DOMAIN order
  OBVIOUS
<1> HIDE DEF places, postal
<1>10. \A k \in DOMAIN places : places[k].value[1] \notin PostalCodes
  BY <1>3, <1>5, <1>8, <1>9
<1>11. \A j, k \in DOMAIN places : places[j].value = places[k].value => j = k
  BY <1>3, <1>4, <1>8, <1>9
<1>12. /\ \A i \in DOMAIN postal : r[i] = postal[i]
       /\ \A i \in DOMAIN r \ DOMAIN postal : i - Len(postal) \in DOMAIN places /\ r[i] = places[i - Len(postal)]
       /\ \A i, j \in DOMAIN r : i # j => i - Len(postal) # j - Len(postal)
  BY <1>6, JoinedParts
<1> HIDE DEF r
<1>13. ASSUME NEW i \in DOMAIN r, NEW j \in DOMAIN r, r[j].value = r[i].value PROVE j = i
  <2>1. CASE i \in DOMAIN postal /\ j \in DOMAIN postal
    BY <1>6, <2>1
  <2>2. CASE i \in DOMAIN postal /\ j \notin DOMAIN postal
    BY <1>7, <1>10, <1>12, <1>13, <2>2
  <2>3. CASE i \notin DOMAIN postal /\ j \in DOMAIN postal
    BY <1>7, <1>10, <1>12, <1>13, <2>3
  <2>4. CASE i \notin DOMAIN postal /\ j \notin DOMAIN postal
    BY <1>11, <1>12, <1>13, <2>4
  <2> QED
    BY <2>1, <2>2, <2>3, <2>4
<1>14. \A i \in DOMAIN r : /\ DOMAIN r[i] = {"type", "value", "found", "fuzzy"}
                           /\ r[i].type \in {"postal_code", "place_name"} /\ r[i].found \subseteq Ids
  BY <1>7, <1>8, <1>12
<1>15. Pieces(r)
  BY <1>13, <1>14 DEF Pieces
<1>16. Exact(r)
  BY <1>7, <1>8, <1>12 DEF Exact
<1> QED
  BY <1>1, <1>15, <1>16

\* What recovery adds keeps the shape of the evidence.
LEMMA RecoveredPieces ==
  ASSUME IsSequence(text.words), IsSequence(resolved), cands \subseteq {Enrich({e}) : e \in Ids}, Pieces(resolved), Recover
  PROVE  Pieces(resolved') /\ explained' \subseteq Range(text.words)
<1> DEFINE new == Recovered(cands, resolved).new
           words == Recovered(cands, resolved).words
<1>1. resolved' = resolved \o new /\ explained' = words
  BY DEF Recover, Extend
<1>2. IsSequence(new) /\ words \subseteq Range(text.words)
  BY RecoveredType, ExplainedWords
<1>3. \A k \in DOMAIN new : /\ DOMAIN new[k] = {"type", "value", "found", "fuzzy"}
                            /\ new[k].type = "place_name" /\ new[k].fuzzy = TRUE /\ new[k].found \subseteq Ids
  <2> TAKE k \in DOMAIN new
  <2>1. /\ DOMAIN new[k] = {"type", "value", "found", "fuzzy"}
        /\ new[k].type = "place_name" /\ new[k].fuzzy = TRUE
        /\ \E s \in ShortSpans(text.words) : new[k].found \subseteq Foundable(s, cands, resolved)
    <3>1. /\ DOMAIN new[k] = {"type", "value", "found", "fuzzy"}
          /\ new[k].type = "place_name" /\ new[k].fuzzy = TRUE
          /\ \E s \in ShortSpans(text.words) :
               new[k].value = Words(text.words, s) /\ new[k].found \subseteq Foundable(s, cands, resolved)
      BY WhatRecoveryFinds
    <3> HIDE DEF new
    <3> QED
      BY <3>1
  <2> HIDE DEF new
  <2> QED
    BY <2>1, ContextType
<1> HIDE DEF new, words
<1>4. Pieces(resolved')
  <2> DEFINE r == resolved'
  <2>1. /\ DOMAIN resolved \subseteq DOMAIN r
        /\ \A i \in DOMAIN resolved : r[i] = resolved[i]
        /\ \A i \in DOMAIN r \ DOMAIN resolved : i - Len(resolved) \in DOMAIN new /\ r[i] = new[i - Len(resolved)]
    BY <1>1, <1>2, JoinedParts
  <2> HIDE DEF r
  <2>2. \A i \in DOMAIN r \ DOMAIN resolved :
           /\ DOMAIN r[i] = {"type", "value", "found", "fuzzy"}
           /\ r[i].type = "place_name" /\ r[i].fuzzy = TRUE /\ r[i].found \subseteq Ids
    BY <1>3, <2>1
  <2>3. Pieces(r)
    BY <2>1, <2>2 DEF Pieces
  <2> QED
    BY <2>3 DEF r
<1> QED
  BY <1>1, <1>2, <1>4

\* What a location gives as its postal code.
LEMMA CodeType ==
  ASSUME NEW loc \in SUBSET Ids
  PROVE  Code(loc) \in PostalCodes \union {NoCode}
<1>1. {Rows[s].postal : s \in At(loc, SUBDISTRICT)} \subseteq PostalCodes \union {NoCode}
  BY RowsAssumption DEF At, Ids
<1> DEFINE codes == {Rows[s].postal : s \in At(loc, SUBDISTRICT)} \ {NoCode}
<1>2. codes \subseteq PostalCodes
  BY <1>1
<1>3. Code(loc) = IF codes = {} THEN NoCode ELSE CHOOSE c \in codes : TRUE
  BY DEF Code
<1> HIDE DEF codes
<1>4. codes # {} => (CHOOSE c \in codes : TRUE) \in codes
  OBVIOUS
<1> QED
  BY <1>2, <1>3, <1>4

\* An answer that is given a location or a postal code is an answer.
LEMMA AnswerKept ==
  ASSUME NEW a \in Answers, NEW loc \in SUBSET Ids, NEW c \in PostalCodes
  PROVE  [a EXCEPT !.location = loc, !.code = c] \in Answers /\ [a EXCEPT !.code = c] \in Answers
  BY DEF Answers

\* Every stage of a request keeps the types.
LEMMA TypeInvHolds == Spec => []TypeInv
<1>1. Init => TypeInv
  BY DEF Init, TypeInv, NoText, NoAnswer, Answers, Stages, Pieces
<1>2. PipelineInv /\ Settled /\ TypeInv /\ [Next]_vars => TypeInv'
  <2> SUFFICES ASSUME PipelineInv, Settled, TypeInv, [Next]_vars PROVE TypeInv'
    OBVIOUS
  <2> USE DEF TypeInv
  <2>0. IsSequence(text.words) /\ IsSequence(resolved) /\ cands \subseteq {Enrich({e}) : e \in Ids} /\ raw \in Texts
    BY DEF PipelineInv
  <2>1. CASE Refuse \/ Fail
    BY <2>1 DEF Refuse, Fail, Stages, Pieces
  <2>2. CASE Clean
    <3>1. \A p \in DOMAIN text'.words : text'.words[p] \notin Numbers \union {""}
      <4>1. text'.words = Normalize(raw)
        BY <2>2 DEF Clean
      <4> QED
        BY <2>0, <4>1, WordsAreNoNumbers
    <3> QED
      BY <2>2, <3>1 DEF Clean, Stages, Pieces
  <2>3. CASE Resolve
    BY <2>0, <2>3, ResolvedPieces DEF Resolve, Stages
  <2>4. CASE Prioritize
    <3> DEFINE left == FoldLeft(Suppress, [i \in DOMAIN resolved |-> resolved[i].found], [i \in DOMAIN resolved |-> i])
    <3>1. left \in [DOMAIN resolved -> SUBSET Ids]
      BY <2>0, SuppressionType DEF Pieces
    <3>2. resolved' = [i \in DOMAIN resolved |-> [resolved[i] EXCEPT !.found = left[i]]]
      BY <2>4 DEF Prioritize
    <3> HIDE DEF left
    <3>3. Pieces(resolved')
      <4>1. DOMAIN resolved' = DOMAIN resolved
        BY <3>2
      <4>2. \A i \in DOMAIN resolved : \E S \in SUBSET Ids : resolved'[i] = [resolved[i] EXCEPT !.found = S]
        BY <3>1, <3>2
      <4> QED
        BY <4>1, <4>2, PiecesKept
    <3> QED
      BY <2>4, <3>3 DEF Prioritize, Stages
  <2>5. CASE CompactFallback
    <3>1. Pieces(resolved')
      <4>1. DOMAIN resolved' = DOMAIN resolved
        BY <2>5 DEF CompactFallback
      <4>2. ASSUME NEW i \in DOMAIN resolved
            PROVE  \/ resolved'[i] = resolved[i]
                   \/ \E S \in SUBSET Ids : resolved'[i] = [resolved[i] EXCEPT !.found = S]
        <5> DEFINE S == resolved[i].found \union CompactEntities(text.offroad, resolved[i].value[1])
        <5>1. S \in SUBSET Ids
          BY LookupTypes DEF Pieces
        <5>2. resolved'[i] = resolved[i] \/ resolved'[i] = [resolved[i] EXCEPT !.found = S]
          BY <2>5 DEF CompactFallback
        <5> HIDE DEF S
        <5> QED
          BY <5>1, <5>2
      <4> QED
        BY <4>1, <4>2, PiecesKept
    <3> QED
      BY <2>5, <3>1 DEF CompactFallback, Stages
  <2>6. CASE Build
    BY <2>6 DEF Build, Stages
  <2>7. CASE Recover
    BY <2>0, <2>7, RecoveredPieces DEF Recover, Stages
  <2>8. CASE Rank
    <3>1. CASE cands = {}
      BY <2>8, <3>1 DEF Rank, Stages, Pieces
    <3>2. CASE cands # {}
      <4>0. PICK w \in Winners(cands, resolved, explained) : \E s \in Statuses(w, resolved, explained) :
              /\ winner' = w
              /\ answer' = [status |-> s, confidence |-> ScoreOf(w, resolved, explained),
                            location |-> w, code |-> Code(w)]
        BY <2>8, <3>2 DEF Rank
      <4>1. PICK s \in Statuses(w, resolved, explained) :
              /\ winner' = w
              /\ answer' = [status |-> s, confidence |-> ScoreOf(w, resolved, explained),
                            location |-> w, code |-> Code(w)]
        BY <4>0
      <4>2. w \in cands
        BY DEF Winners
      <4>3. w \in SUBSET Ids
        <5>1. PICK e \in Ids : w = Enrich({e})
          BY <2>0, <4>2
        <5>2. Consistent(w)
          BY <5>1, EnrichIsConsistent
        <5> QED
          BY <5>2 DEF Consistent
      <4>4. s \in {"VALID", "INCOMPLETE", "AMBIGUOUS", "CONFLICT", "UNKNOWN"}
        BY DEF Statuses, Quality
      <4>5. ScoreOf(w, resolved, explained) \in Int
        BY <2>0, ScoreType
      <4>6. Code(w) \in PostalCodes \union {NoCode}
        BY <4>3, CodeType
      <4>7. answer' \in Answers
        BY <4>1, <4>3, <4>4, <4>5, <4>6 DEF Answers
      <4> QED
        BY <2>8, <4>1, <4>2, <4>7 DEF Rank, Stages, Pieces
    <3> QED
      BY <3>1, <3>2
  <2>9. CASE PostalFallback
    <3>1. answer' \in Answers
      <4>1. CASE answer' = answer
        BY <4>1
      <4>2. CASE answer' # answer
        <5>1. PostalPositions # {} /\ PostalCode \in PostalCodes
          BY <2>0, <2>9, <4>2, PostalCodeType DEF PostalFallback
        <5>2. \/ \E s : answer' = [answer EXCEPT !.location = Uppers(s), !.code = PostalCode]
              \/ answer' = [answer EXCEPT !.code = PostalCode]
          BY <2>9, <4>2 DEF PostalFallback
        <5>3. \A s : Uppers(s) \in SUBSET Ids
          BY DEF Uppers
        <5>4. answer \in Answers
          OBVIOUS
        <5>5. ASSUME NEW s, answer' = [answer EXCEPT !.location = Uppers(s), !.code = PostalCode]
              PROVE  answer' \in Answers
          BY <5>1, <5>3, <5>4, <5>5, AnswerKept
        <5>6. ASSUME answer' = [answer EXCEPT !.code = PostalCode] PROVE answer' \in Answers
          BY <5>1, <5>3, <5>4, <5>6, AnswerKept
        <5> QED
          BY <5>2, <5>5, <5>6
      <4> QED
        BY <4>1, <4>2
    <3> QED
      BY <2>9, <3>1 DEF PostalFallback, Stages, Pieces
  <2>10. CASE Done \/ UNCHANGED vars
    <3>1. UNCHANGED vars
      BY <2>10 DEF Done
    <3> QED
      BY <3>1 DEF vars, Pieces
  <2> QED
    BY <2>1, <2>2, <2>3, <2>4, <2>5, <2>6, <2>7, <2>8, <2>9, <2>10 DEF Next
<1> QED
  BY <1>1, <1>2, PipelineInvHolds, SettledHolds, PTL DEF Spec

\* For every gazetteer and every text: the types are right, no two exact pieces
\* of evidence have one value, and no candidate has two entities of one level.
THEOREM TypesAreRight == Spec => []TypeOK
<1>1. ASSUME NEW c \in {Enrich({e}) : e \in Ids}, NEW level \in Levels
      PROVE  Cardinality(At(c, level)) <= 1
  <2>1. \A x, y \in At(c, level) : x = y
    BY EnrichIsConsistent DEF Consistent, At
  <2>2. CASE At(c, level) = {}
    BY <2>2, FS_EmptySet
  <2>3. CASE At(c, level) # {}
    <3>1. \E x : At(c, level) = {x}
      BY <2>1, <2>3
    <3> QED
      BY <3>1, FS_Singleton
  <2> QED
    BY <2>2, <2>3
<1>2. PipelineInv /\ TypeInv => TypeOK
  BY <1>1 DEF PipelineInv, TypeInv, TypeOK, Pieces
<1> QED
  BY <1>2, PipelineInvHolds, TypeInvHolds, PTL

\* A confidence is clamped above at 1 and, whatever the gazetteer, falls below 0
\* by no more than three hundredths for each piece of evidence.
Clamped == answer.confidence <= 100 /\ answer.confidence >= -(3 * Len(resolved))

\* For every gazetteer: of "clamped to the unit interval" (STORY.md:113) the upper
\* half holds, and the lower one fails by what the unused evidence costs at most
\* (evaluate.go).
THEOREM ConfidenceIsBounded == Spec => []Clamped
<1>1. Init => Clamped
  BY DEF Init, Clamped, NoAnswer
<1>2. PipelineInv /\ PipelineInv' /\ Clamped /\ [Next]_vars => Clamped'
  <2> SUFFICES ASSUME PipelineInv, PipelineInv', Clamped, [Next]_vars PROVE Clamped'
    OBVIOUS
  <2>0. /\ IsSequence(resolved) /\ IsSequence(resolved') /\ Len(resolved') \in Nat
        /\ stage \in {"clean", "resolve", "prioritize", "compact", "build", "recover", "rank"} => answer = NoAnswer
    BY DEF PipelineInv, IsSequence
  <2>1. CASE Refuse \/ Fail
    BY <2>1 DEF Refuse, Fail, Clamped
  <2>2. CASE Clean \/ Resolve \/ Prioritize \/ CompactFallback \/ Build \/ Recover
    <3>1. answer' = NoAnswer
      BY <2>0, <2>2 DEF Clean, Resolve, Prioritize, CompactFallback, Build, Recover
    <3> QED
      BY <2>0, <3>1 DEF Clamped, NoAnswer
  <2>3. CASE Rank
    <3>1. resolved' = resolved
      BY <2>3 DEF Rank
    <3>2. CASE cands = {}
      BY <2>3, <3>1, <3>2 DEF Rank, Clamped
    <3>3. CASE cands # {}
      <4>1. PICK w \in Winners(cands, resolved, explained) : \E s \in Statuses(w, resolved, explained) :
              answer' = [status |-> s, confidence |-> ScoreOf(w, resolved, explained),
                         location |-> w, code |-> Code(w)]
        BY <2>3, <3>3 DEF Rank
      <4>2. answer'.confidence = ScoreOf(w, resolved, explained)
        BY <4>1
      <4> QED
        BY <2>0, <3>1, <4>2, ScoreType DEF Clamped
    <3> QED
      BY <3>2, <3>3
  <2>4. CASE PostalFallback
    <3>1. answer'.confidence = answer.confidence /\ resolved' = resolved
      <4>1. DOMAIN answer = {"status", "confidence", "location", "code"}
        BY DEF PipelineInv
      <4> QED
        BY <2>4, <4>1 DEF PostalFallback
    <3> QED
      BY <3>1 DEF Clamped
  <2>5. CASE Done \/ UNCHANGED vars
    <3>1. UNCHANGED <<resolved, answer>>
      BY <2>5 DEF Done, vars
    <3> QED
      BY <3>1 DEF Clamped
  <2> QED
    BY <2>1, <2>2, <2>3, <2>4, <2>5 DEF Next
<1> QED
  BY <1>1, <1>2, PipelineInvHolds, PTL DEF Spec
-----------------------------------------------------------------------------
\* Enrichment adds uppers only: what it leaves has kodes that begin the one of
\* the entity, and no other entity of its level has such a kode.
LEMMA EnrichGoesUp ==
  ASSUME NEW e \in Ids
  PROVE  /\ \A x \in Enrich({e}) : x \in Ids /\ IsPrefix(Rows[x].kode, Rows[e].kode)
         /\ \A x \in Enrich({e}) : LevelOf(x) <= LevelOf(e) /\ (LevelOf(x) = LevelOf(e) => x = e)
         /\ \A x \in Ids : IsPrefix(Rows[x].kode, Rows[e].kode) /\ LevelOf(x) = LevelOf(e) => x = e
<1> DEFINE Above(loc) == \A x \in loc : x \in Ids /\ IsPrefix(Rows[x].kode, Rows[e].kode)
<1>1. \A x \in Ids : Rows[x].kode \in Seq(Nat) /\ LevelOf(x) = Len(Rows[x].kode) /\ Len(Rows[x].kode) \in 1..4
  BY RowsAssumption DEF Ids, LevelOf
<1>2. ASSUME NEW loc, NEW level, Above(loc) PROVE Above(FillUpper(loc, level))
  <2> SUFFICES ASSUME NEW y \in DOMAIN HierarchyMap, y \in loc
               PROVE  HierarchyMap[y] \in Ids /\ IsPrefix(Rows[HierarchyMap[y]].kode, Rows[e].kode)
    BY <1>2 DEF FillUpper, At
  <2> DEFINE u == HierarchyMap[y]
             k == Rows[y].kode
             K == Rows[e].kode
  <2>1. u \in Ids /\ y \in Ids /\ LevelOf(y) \in 2..4 /\ Rows[u].kode = Front(k)
    BY UpperIsOneHigher
  <2>2. k \in Seq(Nat) /\ K \in Seq(Nat) /\ IsPrefix(k, K) /\ Len(k) \in 2..4 /\ Front(k) = SubSeq(k, 1, Len(k) - 1)
    BY <1>1, <1>2, <2>1 DEF Front
  <2> HIDE DEF u, k, K
  <2>3. k = SubSeq(K, 1, Len(k)) /\ Len(k) <= Len(K) /\ Len(K) \in Nat
    BY <2>2 DEF IsPrefix
  <2>4. Len(Front(k)) = Len(k) - 1 /\ Front(k) = SubSeq(K, 1, Len(k) - 1)
    BY <2>2, <2>3
  <2>5. IsPrefix(Front(k), K)
    BY <2>2, <2>3, <2>4 DEF IsPrefix
  <2> QED
    BY <2>1, <2>5 DEF u, K
<1>3. Above({e})
  BY <1>1 DEF IsPrefix
<1>4. Above(Enrich({e}))
  <2> HIDE DEF Above
  <2> QED
    BY <1>2, <1>3 DEF Enrich
<1>5. ASSUME NEW x \in Ids, IsPrefix(Rows[x].kode, Rows[e].kode)
      PROVE  LevelOf(x) <= LevelOf(e) /\ (LevelOf(x) = LevelOf(e) => x = e)
  <2> DEFINE k == Rows[x].kode
             K == Rows[e].kode
  <2>1. k \in Seq(Nat) /\ K \in Seq(Nat) /\ LevelOf(x) = Len(k) /\ LevelOf(e) = Len(K)
    BY <1>1
  <2>2. x \in DOMAIN Rows /\ e \in DOMAIN Rows
    BY DEF Ids
  <2>3. k = K => x = e
    BY <2>2, RowsAssumption
  <2> HIDE DEF k, K
  <2>4. Len(k) <= Len(K) /\ k = SubSeq(K, 1, Len(k))
    BY <1>5, <2>1 DEF IsPrefix, k, K
  <2>5. SubSeq(K, 1, Len(K)) = K
    BY <2>1, SubSeqFull
  <2>6. Len(k) = Len(K) => k = K
    BY <2>4, <2>5
  <2> QED
    BY <2>1, <2>3, <2>4, <2>6
<1> QED
  BY <1>4, <1>5

\* The deepest entity of a candidate is the one it began with.
LEMMA DeepestOfCandidate ==
  ASSUME NEW e \in Ids
  PROVE  Deepest(Enrich({e})) = e
<1>1. e \in Enrich({e}) /\ \A x \in Enrich({e}) : x \in Ids /\ LevelOf(x) <= LevelOf(e) /\ (LevelOf(x) = LevelOf(e) => x = e)
  BY EnrichHasTheEntity, EnrichGoesUp
<1>2. \A x \in Ids : LevelOf(x) \in Int
  BY LevelType
<1>3. ASSUME NEW y \in Enrich({e}), \A x \in Enrich({e}) : LevelOf(x) <= LevelOf(y) PROVE y = e
  BY <1>1, <1>2, <1>3
<1> QED
  BY <1>1, <1>3 DEF Deepest

\* A city with its province, or alone.
LEMMA CityCandidate ==
  ASSUME NEW e \in Ids, LevelOf(e) = CITY
  PROVE  /\ Cardinality(Enrich({e})) \in 1..2
         /\ e \in DOMAIN HierarchyMap => Cardinality(Enrich({e})) = 2
<1>1. FillUpper({e}, SUBDISTRICT) = {e} /\ FillUpper({e}, DISTRICT) = {e}
  BY FillSkipsAnEmptyLevel DEF CITY, DISTRICT, SUBDISTRICT
<1>2. FillUpper({e}, CITY) = IF e \in DOMAIN HierarchyMap THEN {e} \union {HierarchyMap[e]} ELSE {e}
  <2>1. {e} \in SUBSET Ids /\ e \in {e} /\ (\A y \in {e} : LevelOf(y) = LevelOf(e) => y = e) /\ \A y \in {e} : LevelOf(y) >= LevelOf(e)
    BY LevelType
  <2> QED
    BY <2>1, FillAddsTheUpper
<1>3. Enrich({e}) = IF e \in DOMAIN HierarchyMap THEN {e, HierarchyMap[e]} ELSE {e}
  BY <1>1, <1>2 DEF Enrich
<1>4. e \in DOMAIN HierarchyMap => HierarchyMap[e] # e
  BY UpperIsOneHigher, LevelType
<1>5. \A x, y : Cardinality({x}) = 1 /\ (x # y => Cardinality({x, y}) = 2)
  <2> SUFFICES ASSUME NEW x, NEW y PROVE Cardinality({x}) = 1 /\ (x # y => Cardinality({x, y}) = 2)
    OBVIOUS
  <2>1. IsFiniteSet({x}) /\ Cardinality({x}) = 1
    BY FS_Singleton
  <2>2. ASSUME x # y PROVE Cardinality({x, y}) = 2
    <3>1. {x, y} = {x} \union {y} /\ y \notin {x}
      BY <2>2
    <3>2. Cardinality({x} \union {y}) = Cardinality({x}) + 1
      BY <2>1, <3>1, FS_AddElement
    <3> QED
      BY <2>1, <3>1, <3>2
  <2> QED
    BY <2>1, <2>2
<1>6. CASE e \in DOMAIN HierarchyMap
  <2>1. Enrich({e}) = {e, HierarchyMap[e]} /\ HierarchyMap[e] # e
    BY <1>3, <1>4, <1>6
  <2>2. Cardinality({e, HierarchyMap[e]}) = 2
    BY <1>5, <2>1
  <2> QED
    BY <2>1, <2>2
<1>7. CASE e \notin DOMAIN HierarchyMap
  <2>1. Enrich({e}) = {e} /\ Cardinality({e}) = 1
    BY <1>3, <1>5, <1>7
  <2> QED
    BY <1>7, <2>1
<1> QED
  BY <1>6, <1>7

-----------------------------------------------------------------------------
\* One piece of evidence has found everything, and none of it lies inside
\* another part of it.
Apart(S) == \A x, y \in S : x # y => ~IsPrefix(Rows[x].kode, Rows[y].kode)
Sole(i, res) ==
  /\ IsSequence(res) /\ i \in DOMAIN res /\ res[i].type = "place_name"
  /\ res[i].found \subseteq Ids /\ Apart(res[i].found)
  /\ \A j \in DOMAIN res : j # i => res[j].found = {}

\* Then a candidate is supported by that evidence and by one entity only.
LEMMA SoleCandidate ==
  ASSUME NEW res, NEW i, Sole(i, res), NEW e \in res[i].found
  PROVE  Matched(Enrich({e}), res) = {<<i, e>>}
<1>1. e \in Ids /\ e \in Enrich({e})
  BY EnrichHasTheEntity DEF Sole
<1>2. \A x \in Enrich({e}) : IsPrefix(Rows[x].kode, Rows[e].kode)
  BY <1>1, EnrichGoesUp
<1>3. \A x \in Enrich({e}) : x \in res[i].found => x = e
  BY <1>2 DEF Sole, Apart
<1>4. \A j \in DOMAIN res : \A x \in Enrich({e}) : x \in res[j].found => j = i /\ x = e
  BY <1>3 DEF Sole
<1> DEFINE c == Enrich({e})
<1>5. i \in DOMAIN res /\ e \in res[i].found /\ e \in c
  BY <1>1 DEF Sole
<1>6. \A m \in (DOMAIN res) \X c : m[2] \in res[m[1]].found => m = <<i, e>>
  BY <1>4
<1> HIDE DEF c
<1>7. Matched(c, res) = {<<i, e>>}
  BY <1>5, <1>6 DEF Matched
<1> QED
  BY <1>7 DEF c

\* Its bonuses are none, and its unused evidence is that of the others.
LEMMA SoleBonus ==
  ASSUME NEW res, NEW i, Sole(i, res), NEW c, NEW e, Matched(c, res) = {<<i, e>>}, NEW used
  PROVE  /\ MatchedEntities(c, res) = {e}
         /\ PrefixBonus(c, res) = 0
         /\ MultiBonus(c, res) = 0
         /\ UsedValues(c, res) = {res[i].value}
<1>0. /\ i \in DOMAIN res /\ res[i].type = "place_name"
      /\ \A j \in DOMAIN res : j # i => res[j].found = {}
  BY DEF Sole
<1>1. MatchedEntities(c, res) = {e} /\ UsedValues(c, res) = {res[i].value}
  BY DEF MatchedEntities, UsedValues
<1>2. PrefixBonus(c, res) = 0
  <2>1. {n \in Matched(c, res) : res[n[1]].type = "postal_code"} = {}
    BY <1>0
  <2>2. {SharedDigits(x, Code(c)) : x \in
           {res[m[1]].value[1] : m \in {n \in Matched(c, res) : res[n[1]].type = "postal_code"}}} = {}
    BY <2>1
  <2>3. Max({} \union {0}) = 0
    <3>1. {} \union {0} \in SUBSET Int /\ (\A y \in {} \union {0} : y <= 0) /\ 0 \in Int /\ {} \union {0} # {}
      OBVIOUS
    <3>2. Max({} \union {0}) \in {} \union {0}
      BY <3>1, BoundedHasMax
    <3> QED
      BY <3>2
  <2> HIDE DEF Max
  <2> QED
    BY <2>2, <2>3 DEF PrefixBonus
<1>3. MultiBonus(c, res) = 0
  <2> DEFINE twice == {x \in MatchedEntities(c, res) :
                         \E j, k \in DOMAIN res : j # k /\ x \in res[j].found /\ x \in res[k].found}
  <2>1. twice = {}
    BY <1>0
  <2>2. {LevelOf(x) : x \in twice} = {}
    BY <2>1
  <2>3. OverLevels(MultiWeight, {}) = 0
    BY DEF OverLevels
  <2>4. MultiBonus(c, res) = Capped(OverLevels(MultiWeight, {LevelOf(x) : x \in twice}), 40)
    BY DEF MultiBonus
  <2> HIDE DEF twice
  <2>5. MultiBonus(c, res) = Capped(0, 40)
    BY <2>2, <2>3, <2>4
  <2> QED
    BY <2>5 DEF Capped
<1> QED
  BY <1>1, <1>2, <1>3

\* The unused evidence is the same for every candidate, and a city scores higher
\* than an entity of another level.
Free(i, res, used) ==
  Cardinality({k \in DOMAIN res : ~res[k].fuzzy /\ res[k].value[1] \notin used /\ res[k].value \notin {res[i].value}})
LEMMA SoleScore ==
  ASSUME NEW res, NEW i, Sole(i, res), NEW used, NEW e \in res[i].found
  PROVE  /\ Free(i, res, used) \in Nat
         /\ LevelOf(e) = CITY => ScoreOf(Enrich({e}), res, used) = 37 - 3 * Free(i, res, used)
         /\ LevelOf(e) # CITY => ScoreOf(Enrich({e}), res, used) <= 35 - 3 * Free(i, res, used)
<1> DEFINE c == Enrich({e})
           u == Free(i, res, used)
<1>1. e \in Ids /\ e \in c /\ LevelOf(e) \in 1..4
  BY EnrichHasTheEntity, LevelType DEF Sole
<1>2. Matched(c, res) = {<<i, e>>}
  BY SoleCandidate
<1>3. \A x \in c : x \in Ids /\ LevelOf(x) <= LevelOf(e) /\ (LevelOf(x) = LevelOf(e) => x = e)
  BY <1>1, EnrichGoesUp
<1>4. ~HierarchyConflict(c)
  <2>1. Conflicts(c, res) = {}
    BY <1>1, CandidateHasNoConflict
  <2> QED
    BY <2>1 DEF Conflicts
<1> HIDE DEF c
<1>5. /\ MatchedEntities(c, res) = {e} /\ PrefixBonus(c, res) = 0 /\ MultiBonus(c, res) = 0
      /\ UsedValues(c, res) = {res[i].value}
  BY <1>2, SoleBonus
<1>6. Unused(c, res, used) = u
  BY <1>5 DEF Unused, Free
<1> HIDE DEF u
<1>7. u \in Nat
  <2>1. IsSequence(res)
    BY DEF Sole
  <2> QED
    BY <1>6, <2>1, UnusedType
<1>8. LevelOf(e) # SUBDISTRICT => Code(c) = NoCode
  <2> SUFFICES ASSUME LevelOf(e) # SUBDISTRICT PROVE Code(c) = NoCode
    OBVIOUS
  <2>1. At(c, SUBDISTRICT) = {}
    <3>1. \A x \in c : LevelOf(x) # 4
      BY <1>1, <1>3, LevelType DEF SUBDISTRICT
    <3> QED
      BY <3>1 DEF At, SUBDISTRICT
  <2>2. {Rows[s].postal : s \in At(c, SUBDISTRICT)} \ {NoCode} = {}
    BY <2>1
  <2> QED
    BY <2>2 DEF Code
<1>9. LevelOf(e) = CITY => At(c, CITY) # {}
  BY <1>1 DEF At
<1> DEFINE a == IF At(c, CITY) # {} THEN 15 ELSE 0
           b == IF Code(c) # NoCode THEN 5 + PrefixBonus(c, res) ELSE 0
           w == OverLevels(LevelWeight, {LevelOf(x) : x \in MatchedEntities(c, res)})
<1>10. ScoreOf(c, res, used) = Capped(10 + a + b + w + MultiBonus(c, res), 100) - 3 * u
  <2>1. Matched(c, res) # {}
    BY <1>2
  <2> QED
    BY <1>4, <1>6, <2>1 DEF ScoreOf, Score
<1>11. w = LevelWeight[LevelOf(e)]
  <2>1. {LevelOf(x) : x \in MatchedEntities(c, res)} = {LevelOf(e)}
    BY <1>5
  <2>2. \A l \in 1..4 : OverLevels(LevelWeight, {l}) = LevelWeight[l]
    BY DEF OverLevels, LevelWeight, PROVINCE, CITY, DISTRICT, SUBDISTRICT
  <2> QED
    BY <1>1, <2>1, <2>2
<1>12. LevelWeight[1] = 15 /\ LevelWeight[2] = 12 /\ LevelWeight[3] = 8 /\ LevelWeight[4] = 5
  BY DEF LevelWeight
<1>13. LevelOf(e) = 1 => a = 0
  <2> SUFFICES ASSUME LevelOf(e) = 1 PROVE At(c, CITY) = {}
    OBVIOUS
  <2>1. \A x \in c : LevelOf(x) # 2
    BY <1>1, <1>3, LevelType
  <2> QED
    BY <2>1 DEF At, CITY
<1>14. /\ a \in {0, 15} /\ (LevelOf(e) = 2 => a = 15)
       /\ b \in {0, 5} /\ (LevelOf(e) # 4 => b = 0)
  BY <1>5, <1>8, <1>9 DEF CITY, SUBDISTRICT
<1> HIDE DEF a, b, w
<1> DEFINE n == 10 + a + b + w
<1>15. n \in Int /\ n <= 37 /\ (LevelOf(e) = 2 => n = 37) /\ (LevelOf(e) # 2 => n <= 35)
  BY <1>1, <1>11, <1>12, <1>13, <1>14
<1>16. ScoreOf(c, res, used) = Capped(n + 0, 100) - 3 * u
  BY <1>5, <1>10
<1> HIDE DEF n
<1>17. Capped(n + 0, 100) = n
  BY <1>15 DEF Capped
<1>18. ScoreOf(c, res, used) = n - 3 * u
  BY <1>16, <1>17
<1>19. /\ u \in Nat
       /\ LevelOf(e) = 2 => ScoreOf(c, res, used) = 37 - 3 * u
       /\ LevelOf(e) # 2 => ScoreOf(c, res, used) <= 35 - 3 * u
  BY <1>7, <1>15, <1>18
<1> QED
  BY <1>19 DEF c, u, CITY

\* Of the cities of the name the preferred ones come first.
LEMMA PreferredIsListedFirst ==
  ASSUME NEW res, NEW i, CityPriority(res[i].value),
         res[i].found \intersect Named(res[i].value) = At(Named(res[i].value), CITY)
  PROVE  /\ \E e \in At(Named(res[i].value), CITY) : Listed(e, i, res) = 1
         /\ \A e \in Ids : Listed(e, i, res) \in 1..3
         /\ \A e \in Ids : Listed(e, i, res) = 1 =>
               e \in Named(res[i].value) /\ IsKota(e) = PreferKota(res[i].value)
<1> DEFINE name == res[i].value
           kind == PreferKota(name)
           key(e) == IF e \notin Named(name) THEN 3 ELSE IF IsKota(e) = kind THEN 1 ELSE 2
<1>1. \A e : Listed(e, i, res) = key(e)
  BY DEF Listed
<1>2. \E e \in At(Named(name), CITY) : IsKota(e) = kind
  <2>1. PICK e \in Named(name) : LevelOf(e) = CITY
    BY DEF CityPriority
  <2>2. kind = (\E x \in Named(name) : LevelOf(x) = CITY /\ IsKota(x))
    BY DEF PreferKota
  <2>3. \A x : IsKota(x) \in BOOLEAN
    BY DEF IsKota
  <2>4. CASE kind
    <3>1. PICK x \in Named(name) : LevelOf(x) = CITY /\ IsKota(x)
      BY <2>2, <2>4
    <3> QED
      BY <2>3, <2>4, <3>1, Zenon DEF At, PreferKota
  <2>5. CASE ~kind
    <3>1. ~IsKota(e)
      BY <2>1, <2>2, <2>5
    <3> QED
      BY <2>1, <2>3, <2>5, <3>1, Zenon DEF At, PreferKota
  <2> QED
    BY <2>4, <2>5
<1>3. \A e \in At(Named(name), CITY) : e \in Named(name)
  BY DEF At
<1> HIDE DEF name, kind
<1>4. \A e : key(e) \in 1..3 /\ (key(e) = 1 => e \in Named(name) /\ IsKota(e) = kind)
  OBVIOUS
<1>5. \E e \in At(Named(name), CITY) : key(e) = 1
  BY <1>2, <1>3
<1> HIDE DEF key
<1>6. \E e \in At(Named(name), CITY) : Listed(e, i, res) = 1
  BY <1>1, <1>5
<1>7. \A e \in Ids : Listed(e, i, res) \in 1..3 /\ (Listed(e, i, res) = 1 => e \in Named(name) /\ IsKota(e) = kind)
  BY <1>1, <1>4
<1> QED
  BY <1>6, <1>7 DEF name, kind

\* Where one piece of evidence has found the cities of a name, and other than
\* these only what is spelt like them, the first candidate is a city of the name,
\* of the preferred form.
LEMMA SoleCityIsFirst ==
  ASSUME NEW res, NEW i, Sole(i, res), CityPriority(res[i].value),
         res[i].found \intersect Named(res[i].value) = At(Named(res[i].value), CITY),
         CitiesArePlaced, NEW used, Cardinality(Candidates(res)) <= InsertionMax,
         NEW w \in Winners(Candidates(res), res, used)
  PROVE  Deepest(w) \in At(Named(res[i].value), CITY) /\ IsKota(Deepest(w)) = PreferKota(res[i].value)
<1> DEFINE F == res[i].found
           C == At(Named(res[i].value), CITY)
           cs == Candidates(res)
           tops == {c \in cs : \A d \in cs : ~Better(d, c, res, used)}
           u == Free(i, res, used)
<1>1. Discovered(res) = F
  BY DEF Sole, Discovered
<1>2. cs = {Enrich({e}) : e \in F}
  BY <1>1 DEF Candidates
<1>3. F \subseteq Ids /\ C \subseteq F /\ \A e \in C : LevelOf(e) = CITY /\ NameOf[e] = res[i].value
  BY DEF Sole, At, Named
<1>4. PICK e0 \in C : Listed(e0, i, res) = 1
  BY PreferredIsListedFirst
<1>5. /\ \A e \in F : LevelOf(e) = CITY => ScoreOf(Enrich({e}), res, used) = 37 - 3 * u
      /\ \A e \in F : LevelOf(e) # CITY => ScoreOf(Enrich({e}), res, used) <= 35 - 3 * u
      /\ \A e \in F : ScoreOf(Enrich({e}), res, used) \in Int
      /\ u \in Nat
  <2>1. IsSequence(res)
    BY DEF Sole
  <2> QED
    BY <1>3, <1>4, <2>1, SoleScore, ScoreType
<1>6. /\ \A e \in F : LevelOf(e) = CITY => Cardinality(Enrich({e})) \in 1..2
      /\ Cardinality(Enrich({e0})) = 2
  <2>1. e0 \in Ids /\ e0 \in At(Ids, CITY) /\ e0 \in DOMAIN HierarchyMap
    BY <1>3 DEF CitiesArePlaced, At
  <2> QED
    BY <1>3, <2>1, CityCandidate
<1>7. \A c \in cs : Conflicts(c, res) = {}
  BY <1>2, <1>3, CandidateHasNoConflict
<1>8. \A e \in F : FirstFound(e, res) = i
  <2> SUFFICES ASSUME NEW e \in F PROVE FirstFound(e, res) = i
    OBVIOUS
  <2>1. i \in Int /\ {k \in DOMAIN res : res[k].type = "place_name" /\ e \in res[k].found} = {i}
    BY DomainIsFinite DEF Sole
  <2>2. Min({i}) \in {i}
    <3>1. {i} \in SUBSET Int /\ {i} # {} /\ \A x \in {i} : x >= i
      BY <2>1
    <3> QED
      BY <2>1, <3>1, BoundedHasMin
  <2> QED
    BY <2>1, <2>2 DEF FirstFound
<1>9. w \in tops /\ \A d \in tops : ~FoundBefore(d, w, res)
  <2>1. Cardinality(cs) \in Nat
    <3>1. IsFiniteSet(SUBSET Ids)
      BY RowsAssumption, FS_SUBSET DEF Ids
    <3>2. cs \in SUBSET SUBSET Ids
      <4>1. \A e \in F : Enrich({e}) \subseteq Ids
        BY <1>3, EnrichGoesUp
      <4> QED
        BY <1>2, <4>1
    <3> HIDE DEF cs
    <3> QED
      BY <3>1, <3>2, FS_Subset, FS_CardinalityType
  <2>2. ~(Cardinality(cs) > InsertionMax)
    BY <2>1, InsertionAssumption
  <2> QED
    BY <2>2 DEF Winners
<1> HIDE DEF F, C, u
<1>10. PICK e \in F : w = Enrich({e})
  BY <1>2, <1>9
<1>11. Deepest(w) = e /\ Deepest(Enrich({e0})) = e0
  BY <1>3, <1>10, DeepestOfCandidate
<1>12. LevelOf(e) = CITY
  <2>1. ~Better(Enrich({e0}), w, res, used)
    BY <1>2, <1>3, <1>9
  <2>2. ~(ScoreOf(Enrich({e0}), res, used) > ScoreOf(w, res, used))
    BY <2>1 DEF Better
  <2>3. ScoreOf(Enrich({e0}), res, used) = 37 - 3 * u
    BY <1>3, <1>5
  <2>4. ScoreOf(w, res, used) \in Int /\ (LevelOf(e) # CITY => ScoreOf(w, res, used) <= 35 - 3 * u)
    BY <1>5, <1>10
  <2> QED
    BY <1>5, <2>2, <2>3, <2>4
<1>13. Enrich({e0}) \in tops
  <2>1. ASSUME NEW d \in cs PROVE ~Better(d, Enrich({e0}), res, used)
    <3>1. PICK f \in F : d = Enrich({f})
      BY <1>2
    <3>2. ScoreOf(Enrich({e0}), res, used) = 37 - 3 * u
      BY <1>3, <1>5
    <3>3. /\ ScoreOf(d, res, used) \in Int
          /\ LevelOf(f) = CITY => ScoreOf(d, res, used) = 37 - 3 * u
          /\ LevelOf(f) # CITY => ScoreOf(d, res, used) <= 35 - 3 * u
      BY <1>5, <3>1
    <3>4. ~(ScoreOf(d, res, used) > ScoreOf(Enrich({e0}), res, used))
      BY <1>5, <3>2, <3>3
    <3>5. ScoreOf(d, res, used) = ScoreOf(Enrich({e0}), res, used) => Cardinality(d) \in 1..2
      BY <1>5, <1>6, <3>1, <3>2, <3>3
    <3>6. Conflicts(d, res) = Conflicts(Enrich({e0}), res) /\ Cardinality(Conflicts(d, res)) = 0
      BY <1>2, <1>3, <1>7, FS_EmptySet
    <3> QED
      BY <1>6, <3>4, <3>5, <3>6 DEF Better
  <2> QED
    BY <1>2, <1>3, <2>1
<1>14. ~(Listed(e0, i, res) < Listed(e, i, res))
  <2>1. ~FoundBefore(Enrich({e0}), w, res)
    BY <1>9, <1>13
  <2>2. FirstFound(e, res) = i /\ FirstFound(e0, res) = i /\ LevelOf(e0) = LevelOf(e)
    BY <1>3, <1>8, <1>12
  <2> QED
    BY <1>11, <2>1, <2>2 DEF FoundBefore
<1>15. Listed(e, i, res) = 1 /\ e \in Ids
  <2>1. e \in Ids /\ Listed(e, i, res) \in 1..3
    BY <1>3, PreferredIsListedFirst
  <2> QED
    BY <1>4, <1>14, <2>1
<1>16. e \in Named(res[i].value) /\ IsKota(e) = PreferKota(res[i].value)
  BY <1>15, PreferredIsListedFirst
<1> QED
  BY <1>11, <1>12, <1>16 DEF At

-----------------------------------------------------------------------------
\* Where the phrases of a text are one word, no other word stands for anything,
\* and this one for what it names.
LEMMA OnePhrase ==
  ASSUME IsSequence(text.words), NEW w, \A s \in PhraseSpans(text.words) : Words(text.words, s) = <<w>>
  PROVE  /\ \A v : v # w => PhraseEntities(text.words, v) = {}
         /\ PhraseEntities(text.words, w) \in {{}, Named(<<w>>)}
<1> DEFINE words == text.words
           N == Len(words)
<1>1. N \in Nat /\ DOMAIN words = 1..N /\ words \in Seq(Range(words))
  BY DEF IsSequence
<1>2. PhraseSpans(words) \subseteq Spans(words)
  <2> DEFINE fitting == {s \in Spans(words) : Named(Words(words, s)) # {}}
  <2>1. fitting \in SUBSET ((1..N) \X (1..N)) /\ \A s \in fitting : s[1] <= s[2]
    BY <1>1 DEF Spans
  <2>2. PhraseSpans(words) = LongestSpans(1, N, fitting)
    BY DEF PhraseSpans
  <2>3. fitting \subseteq Spans(words)
    OBVIOUS
  <2> HIDE DEF fitting, words, N
  <2>4. LongestSpans(1, N, fitting) \subseteq fitting
    BY <1>1, <2>1, TakenFit
  <2> QED
    BY <2>2, <2>3, <2>4
<1>3. ASSUME NEW s \in PhraseSpans(words), NEW k \in s[1]..s[2] PROVE words[k] = w
  <2>1. s[1] \in 1..N /\ s[2] \in 1..N /\ s[1] <= s[2]
    BY <1>1, <1>2 DEF Spans
  <2>2. SubSeq(words, s[1], s[2]) = <<w>>
    BY DEF Words
  <2> HIDE DEF words, N
  <2>3. Len(SubSeq(words, s[1], s[2])) = s[2] - s[1] + 1 /\ SubSeq(words, s[1], s[2])[1] = words[s[1]]
    BY <1>1, <2>1
  <2>4. s[2] = s[1] /\ words[s[1]] = w
    BY <2>1, <2>2, <2>3
  <2> QED
    BY <2>1, <2>4
<1>4. ~Repeated(<<w>>)
  BY DEF Repeated
<1> DEFINE in(v) == {t \in PhraseSpans(words) : InSpan(words, t, v)}
<1>5. \A v : v # w => in(v) = {}
  BY <1>3 DEF InSpan
<1>6. \A v : PhraseEntities(words, v) = UNION {Named(<<w>>) : s \in in(v)}
  <2> TAKE v
  <2>1. \A s \in in(v) : Words(words, s) = <<w>>
    OBVIOUS
  <2>2. PhraseEntities(words, v) = UNION {Named(Words(words, s)) \union
           (IF Repeated(Words(words, s)) THEN Named(<<v>>) ELSE {}) : s \in in(v)}
    BY DEF PhraseEntities
  <2> HIDE DEF in, words
  <2> QED
    BY <1>4, <2>1, <2>2
<1> HIDE DEF in
<1> QED
  BY <1>5, <1>6

\* The turns of the city priority: evidence for which no other has found
\* anything keeps the cities, and a postal code keeps what it has found.
LEMMA SuppressionLeavesCities ==
  ASSUME IsSequence(resolved), \A j \in DOMAIN resolved : resolved[j].found \subseteq Ids
  PROVE  LET left == FoldLeft(Suppress, Found, [j \in DOMAIN resolved |-> j])
         IN  /\ \A j \in DOMAIN resolved : resolved[j].type # "place_name" => left[j] = resolved[j].found
             /\ \A i \in DOMAIN resolved :
                  /\ resolved[i].type = "place_name" /\ CityPriority(resolved[i].value)
                  /\ \A j \in DOMAIN resolved : j # i => resolved[j].found = {}
                  => left[i] = At(resolved[i].found, CITY)
<1>1. PICK g : TakesTurns(g)
  BY SuppressionGoesByTurns
<1>2. PICK N \in Nat : DOMAIN resolved = 1..N /\ N = Len(resolved)
  BY DEF IsSequence
<1>3. /\ g[0] = Found /\ g[N] = FoldLeft(Suppress, Found, [j \in DOMAIN resolved |-> j])
      /\ \A n \in 0..N : g[n] \in [DOMAIN resolved -> SUBSET Ids]
      /\ \A n \in 1..N : g[n] = Suppress(g[n - 1], n)
  BY <1>1, <1>2 DEF TakesTurns
<1>4. ASSUME NEW j \in DOMAIN resolved, resolved[j].type # "place_name" PROVE g[N][j] = resolved[j].found
  <2> DEFINE T == {n \in 0..N : g[n][j] = resolved[j].found}
  <2>1. 0 \in T
    BY <1>3 DEF Found
  <2>2. ASSUME NEW n \in 0..N - 1, n \in T PROVE n + 1 \in T
    <3>1. n + 1 \in 1..N /\ n + 1 - 1 = n /\ n \in 0..N
      BY <1>2
    <3>2. g[n + 1] = Suppress(g[n], n + 1) /\ g[n] \in [DOMAIN resolved -> SUBSET Ids]
      BY <1>3, <3>1
    <3>3. g[n + 1] = g[n] \/ (g[n + 1] = [g[n] EXCEPT ![n + 1] = At(g[n][n + 1], CITY)] /\ n + 1 # j)
      BY <1>4, <3>2 DEF Suppress
    <3>4. g[n + 1][j] = g[n][j]
      BY <3>2, <3>3
    <3> QED
      BY <2>2, <3>1, <3>4
  <2>3. \A n \in 0..N : n \in T
    <3>1. \A n \in 0..N - 1 : n \in T => n + 1 \in T
      BY <2>2
    <3> HIDE DEF T
    <3> QED
      BY <1>2, <2>1, <3>1, UpTo
  <2> QED
    BY <1>2, <2>3
<1>5. ASSUME NEW i \in DOMAIN resolved,
             resolved[i].type = "place_name", CityPriority(resolved[i].value),
             \A j \in DOMAIN resolved : j # i => resolved[j].found = {}
      PROVE  g[N][i] = At(resolved[i].found, CITY)
  <2> DEFINE C == At(resolved[i].found, CITY)
             T == {n \in 0..N : /\ \A j \in DOMAIN resolved : j # i => g[n][j] = {}
                                /\ g[n][i] = IF n < i THEN resolved[i].found ELSE C}
  <2>0. i \in 1..N
    BY <1>2
  <2>1. 0 \in T
    BY <1>3, <1>5, <2>0 DEF Found
  <2>2. ASSUME NEW n \in 0..N - 1, n \in T PROVE n + 1 \in T
    <3>1. n + 1 \in 1..N /\ n + 1 - 1 = n /\ n \in 0..N
      BY <1>2
    <3>2. g[n + 1] = Suppress(g[n], n + 1) /\ g[n] \in [DOMAIN resolved -> SUBSET Ids]
      BY <1>3, <3>1
    <3>3. \A j \in DOMAIN resolved : j # i => g[n][j] = {}
      BY <2>2
    <3>4. g[n][i] = IF n < i THEN resolved[i].found ELSE C
      BY <2>2
    <3>5. g[n + 1] = g[n] \/ g[n + 1] = [g[n] EXCEPT ![n + 1] = At(g[n][n + 1], CITY)]
      BY <3>2 DEF Suppress
    <3>6. At({}, CITY) = {}
      BY DEF At
    <3>7. \A j \in DOMAIN resolved : j # i => g[n + 1][j] = {}
      BY <3>2, <3>3, <3>5, <3>6
    <3>8. CASE n + 1 = i
      <4>1. ~OtherLocationEvidence(g[n], i)
        BY <3>3 DEF OtherLocationEvidence
      <4>2. g[n + 1] = [g[n] EXCEPT ![i] = At(g[n][i], CITY)]
        BY <1>5, <3>2, <3>8, <4>1 DEF Suppress
      <4>3. g[n + 1][i] = At(g[n][i], CITY) /\ g[n][i] = resolved[i].found
        BY <3>1, <3>2, <3>4, <3>8, <4>2
      <4> QED
        BY <3>1, <3>7, <3>8, <4>3
    <3>9. CASE n + 1 # i
      <4>1. g[n + 1][i] = g[n][i] /\ (n < i <=> n + 1 < i)
        BY <2>0, <3>1, <3>2, <3>5, <3>9
      <4> HIDE DEF C
      <4> QED
        BY <3>1, <3>4, <3>7, <4>1
    <3> QED
      BY <3>8, <3>9
  <2>3. \A n \in 0..N : n \in T
    <3>1. \A n \in 0..N - 1 : n \in T => n + 1 \in T
      BY <2>2
    <3> HIDE DEF T
    <3> QED
      BY <1>2, <2>1, <3>1, UpTo
  <2>4. N \in T /\ ~(N < i)
    BY <1>2, <2>0, <2>3
  <2> QED
    BY <2>4
<1> QED
  BY <1>3, <1>4, <1>5

\* Compact matching finds no name again that a word of the text is.
LEMMA SpacingFindsNoName ==
  ASSUME raw \in Texts, text.offroad = Normalize(stripRoadContext(raw)), NEW w
  PROVE  CompactEntities(text.offroad, w) \intersect Named(<<w>>) = {}
<1> DEFINE words == Normalize(stripRoadContext(raw))
           fitting == {s \in Spans(words) : SpacingOnly(Words(words, s)) # {}}
           spans == LongestSpans(1, Len(words), fitting)
<1>1. IsSequence(words)
  <2>1. IsSequence(raw)
    <3>1. raw \in Seq([word : STRING, sep : STRING])
      BY TextAssumption
    <3>2. Len(raw) \in Nat /\ DOMAIN raw = 1..Len(raw) /\ raw = [k \in DOMAIN raw |-> raw[k]]
      BY <3>1, SeqDef, LenProperties
    <3> QED
      BY <3>2, FunctionIsSequence
  <2> DEFINE kept == InOrder(DOMAIN raw \ RoadPositions(raw))
             Item(p) ==
               IF p \notin RoadStarts(raw) THEN raw[p]
               ELSE [word |-> "", sep |-> IF RoadEnd(raw, p) < PhraseEnd(raw, p) \/ raw[PhraseEnd(raw, p)].sep = " "
                                          THEN "" ELSE raw[PhraseEnd(raw, p)].sep]
  <2>2. PICK n \in Nat : DOMAIN kept = 1..n
    BY <2>1, OrderIsSequence
  <2>3. stripRoadContext(raw) = [k \in DOMAIN kept |-> Item(kept[k])]
    BY DEF stripRoadContext
  <2> HIDE DEF kept, Item
  <2>4. IsSequence(stripRoadContext(raw))
    BY <2>2, <2>3, FunctionIsSequence
  <2> QED
    BY <2>4, NormalizeType
<1>2. Len(words) \in Nat /\ DOMAIN words = 1..Len(words)
  BY <1>1 DEF IsSequence
<1>3. spans \subseteq fitting
  <2>1. fitting \in SUBSET ((1..Len(words)) \X (1..Len(words))) /\ \A s \in fitting : s[1] <= s[2]
    BY <1>2 DEF Spans
  <2> HIDE DEF fitting, words
  <2> QED
    BY <1>2, <2>1, TakenFit
<1>4. CompactEntities(text.offroad, w) = UNION {SpacingOnly(Words(words, s)) : s \in {t \in spans : InSpan(words, t, w)}}
  BY DEF CompactEntities
<1>5. \A s \in fitting : \A k \in s[1]..s[2] :
        Compact(Words(words, s)) = Compact(<<words[k]>>) => Words(words, s) = <<words[k]>>
  BY TogetherAssumption
<1> HIDE DEF spans, fitting, words
<1>6. ASSUME NEW e, e \in CompactEntities(text.offroad, w), e \in Named(<<w>>) PROVE FALSE
  <2>1. PICK s \in spans : InSpan(words, s, w) /\ e \in SpacingOnly(Words(words, s))
    BY <1>4, <1>6
  <2>2. PICK k \in s[1]..s[2] : words[k] = w
    BY <2>1 DEF InSpan
  <2>3. Compact(Words(words, s)) = Compact(<<w>>) => Words(words, s) = <<w>>
    BY <1>3, <1>5, <2>2
  <2>4. e \in Ids /\ CompactNameOf[e] = Compact(Words(words, s)) /\ e \notin Named(Words(words, s))
    BY <2>1 DEF SpacingOnly, NamedTogether
  <2>5. CompactNameOf[e] = Compact(<<w>>)
    BY <1>6, <2>4 DEF CompactNameOf, Named
  <2> QED
    BY <1>6, <2>3, <2>4, <2>5
<1> QED
  BY <1>6

\* Recovery finds nothing unless two pieces of evidence have found something.
LEMMA RecoveryNeedsTwo ==
  ASSUME IsSequence(text.words), NEW res, IsSequence(res), Pieces(res), \A j \in DOMAIN res : ~res[j].fuzzy,
         NEW cs, Recovered(cs, res).new # <<>>
  PROVE  \E j, k \in DOMAIN res : j # k /\ res[j].found # {} /\ res[k].found # {}
<1> DEFINE frontier == Frontier(cs, res)
           open == Unexplained(frontier, res)
           entities == Context(frontier)
           match == SpanMatches(open, entities)
           taken == TakenSpans(match)
           known == Discovered(res)
           new == Recovered(cs, res).new
           Before(s) == known \union UNION {match[x] : x \in {y \in taken : y[1] < s[1]}}
           fresh   == {[span |-> s, found |-> match[s] \ Before(s)] : s \in taken}
           From(p) == CHOOSE x \in fresh : x.span[1] = p
           P == {p \in DOMAIN text.words : \E x \in fresh : x.span[1] = p /\ x.found # {}}
           order == InOrder(P)
           Piece(n) == Evidence("place_name", Words(text.words, From(order[n]).span), From(order[n]).found, TRUE)
<1>1. new = [n \in DOMAIN order |-> Piece(n)]
  BY DEF Recovered, RecoveryIn, RecoveryFrom, RecoveryBy, Recovery, NewEvidence
<1>2. PICK n \in DOMAIN order : TRUE
  <2>1. IsSequence(new)
    BY RecoveredType
  <2>2. DOMAIN new # {}
    <3> HIDE DEF new
    <3>1. new # <<>> /\ new \in Seq(Range(new)) /\ Len(new) \in Nat /\ DOMAIN new = 1..Len(new)
      BY <2>1 DEF IsSequence, new
    <3>2. Len(new) \in Nat \ {0}
      BY <3>1, EmptySeq
    <3>3. 1 \in DOMAIN new
      BY <3>1, <3>2
    <3> QED
      BY <3>3
  <2> HIDE DEF order, Piece
  <2> QED
    BY <1>1, <2>2
<1>3. order[n] \in P
  <2>1. P \in SUBSET DOMAIN text.words
    OBVIOUS
  <2> HIDE DEF P
  <2> QED
    BY <1>2, <2>1, OrderMembers
<1> HIDE DEF order, new
<1>4. PICK s \in taken : match[s] # {}
  <2>1. PICK x \in fresh : x.found # {}
    BY <1>3
  <2> HIDE DEF match, taken, known
  <2> QED
    BY <2>1
<1>5. taken \subseteq DOMAIN match /\ match[s] = BestSpanMatch(Words(text.words, s), entities)
  <2>1. match = SpanMatches(open, entities)
    OBVIOUS
  <2> HIDE DEF match, open, entities
  <2> QED
    BY <1>4, <2>1, TakenSpansMatch
<1>6. entities # {}
  <2>1. BestSpanMatch(Words(text.words, s), entities) \subseteq entities
    BY DEF BestSpanMatch
  <2> HIDE DEF match, entities
  <2> QED
    BY <1>4, <1>5, <2>1
<1>7. PICK c \in frontier : TRUE
  BY <1>6 DEF Context
<1>8. Cardinality(Used(c, res)) >= 2
  BY <1>7 DEF Frontier
<1>9. PICK j, k \in Used(c, res) : j # k
  <2> DEFINE U == Used(c, res)
  <2> SUFFICES ASSUME \A j, k \in U : j = k PROVE FALSE
    OBVIOUS
  <2> HIDE DEF U
  <2>1. CASE U = {}
    <3>1. Cardinality({}) = 0
      BY FS_EmptySet
    <3> QED
      BY <1>8, <2>1, <3>1 DEF U
  <2>2. CASE U # {}
    <3>1. PICK x \in U : TRUE
      BY <2>2
    <3>2. U = {x}
      BY <3>1
    <3>3. Cardinality({x}) = 1
      BY FS_Singleton
    <3> QED
      BY <1>8, <3>2, <3>3 DEF U
  <2> QED
    BY <2>1, <2>2
<1>10. ASSUME NEW x \in Used(c, res) PROVE x \in DOMAIN res /\ res[x].found # {}
  <2>1. x \in DOMAIN res /\ res[x].value \in UsedValues(c, res)
    BY DEF Used, Counted
  <2>2. PICK m \in Matched(c, res) : res[x].value = res[m[1]].value
    BY <2>1 DEF UsedValues
  <2>3. m[1] \in DOMAIN res /\ res[m[1]].found # {}
    BY DEF Matched
  <2>4. m[1] = x
    BY <2>1, <2>2, <2>3 DEF Pieces
  <2> QED
    BY <2>1, <2>3, <2>4
<1> QED
  BY <1>9, <1>10

-----------------------------------------------------------------------------
\* Exact evidence, each place name of one word.
WordByWord(res) ==
  \A i \in DOMAIN res : ~res[i].fuzzy /\ (res[i].type = "place_name" => \E w : res[i].value = <<w>>)
\* Where nothing else is known, the city priority has left the cities of a name
\* and nothing else that bears it.
CitiesLeft ==
  \A i \in DOMAIN resolved :
    LET name == resolved[i].value
    IN  /\ resolved[i].type = "place_name" /\ CityPriority(name) /\ OnlyKnown(i, resolved)
        /\ resolved[i].found \intersect Named(name) # {}
        => resolved[i].found \intersect Named(name) = At(Named(name), CITY)

\* The inductive invariant: what each stage has made of the evidence, and whom
\* the ranking chose from.
CityInv ==
  /\ stage \in {"resolve", "prioritize", "compact"} => text.offroad = Normalize(stripRoadContext(raw))
  /\ stage = "prioritize" => Exact(resolved)
  /\ stage \in {"compact", "build", "recover"} => WordByWord(resolved)
  /\ stage \in {"compact", "build", "recover", "rank", "postal", "done"} => CitiesLeft
  /\ stage \in {"recover", "rank", "postal", "done"} => cands = Candidates(resolved)
  /\ stage \in {"postal", "done"} /\ cands # {} => winner \in Winners(cands, resolved, explained)

\* The city priority leaves the cities: it takes its turns while the evidence is
\* as the phrases have it, so nothing but a postal code can be in its way.
LEMMA PriorityLeavesCities ==
  ASSUME IsSequence(text.words), IsSequence(resolved), Pieces(resolved), Exact(resolved), Prioritize
  PROVE  WordByWord(resolved') /\ CitiesLeft'
<1> DEFINE left == FoldLeft(Suppress, Found, [j \in DOMAIN resolved |-> j])
<1>1. resolved' = [i \in DOMAIN resolved |-> [resolved[i] EXCEPT !.found = left[i]]] /\ text' = text
  BY DEF Prioritize, Found
<1>2. /\ \A j \in DOMAIN resolved : resolved[j].type # "place_name" => left[j] = resolved[j].found
      /\ \A i \in DOMAIN resolved :
           /\ resolved[i].type = "place_name" /\ CityPriority(resolved[i].value)
           /\ \A j \in DOMAIN resolved : j # i => resolved[j].found = {}
           => left[i] = At(resolved[i].found, CITY)
  <2>1. \A j \in DOMAIN resolved : resolved[j].found \subseteq Ids
    BY DEF Pieces
  <2> QED
    BY <2>1, SuppressionLeavesCities
<1> HIDE DEF left
<1> DEFINE r == resolved'
<1>3. /\ DOMAIN r = DOMAIN resolved
      /\ \A i \in DOMAIN resolved : /\ r[i].type = resolved[i].type /\ r[i].value = resolved[i].value
                                    /\ r[i].fuzzy = resolved[i].fuzzy /\ r[i].found = left[i]
  BY <1>1 DEF Pieces
<1> HIDE DEF r
<1>4. WordByWord(r)
  BY <1>3 DEF WordByWord, Exact
<1>5. ASSUME NEW i \in DOMAIN resolved, resolved[i].type = "place_name", CityPriority(resolved[i].value),
             \A s \in PhraseSpans(text.words) : Words(text.words, s) = resolved[i].value,
             \A j \in DOMAIN resolved : j # i => left[j] = {},
             left[i] \intersect Named(resolved[i].value) # {}
      PROVE  left[i] \intersect Named(resolved[i].value) = At(Named(resolved[i].value), CITY)
  <2>1. PICK w : resolved[i].value = <<w>> /\ resolved[i].found = PhraseEntities(text.words, w)
    BY <1>5 DEF Exact
  <2>2. /\ \A v : v # w => PhraseEntities(text.words, v) = {}
        /\ PhraseEntities(text.words, w) \in {{}, Named(<<w>>)}
    BY <1>5, <2>1, OnePhrase
  <2>3. ASSUME NEW j \in DOMAIN resolved, j # i PROVE resolved[j].found = {}
    <3>1. CASE resolved[j].type = "place_name"
      <4>1. PICK v : resolved[j].value = <<v>> /\ resolved[j].found = PhraseEntities(text.words, v)
        BY <3>1 DEF Exact
      <4>2. resolved[j].value # resolved[i].value
        BY <2>3 DEF Pieces, Exact
      <4> QED
        BY <2>1, <2>2, <4>1, <4>2
    <3>2. CASE resolved[j].type # "place_name"
      BY <1>2, <1>5, <2>3, <3>2
    <3> QED
      BY <3>1, <3>2
  <2>4. left[i] = At(resolved[i].found, CITY)
    BY <1>2, <1>5, <2>3
  <2>5. At(resolved[i].found, CITY) # {}
    BY <1>5, <2>4
  <2>6. resolved[i].found = Named(resolved[i].value)
    BY <2>1, <2>2, <2>5 DEF At
  <2> QED
    BY <2>4, <2>6 DEF At
<1>6. CitiesLeft'
  <2>1. text'.words = text.words
    BY <1>1
  <2> SUFFICES ASSUME NEW i \in DOMAIN r, r[i].type = "place_name", CityPriority(r[i].value),
                      \A s \in PhraseSpans(text.words) : Words(text.words, s) = r[i].value,
                      \A j \in DOMAIN r : j # i => r[j].found = {},
                      r[i].found \intersect Named(r[i].value) # {}
               PROVE  r[i].found \intersect Named(r[i].value) = At(Named(r[i].value), CITY)
    BY <2>1 DEF CitiesLeft, OnlyKnown, r
  <2> QED
    BY <1>3, <1>5
<1> QED
  BY <1>4, <1>6 DEF r

\* Compact matching adds no name, so it leaves the cities.
LEMMA SpacingLeavesCities ==
  ASSUME raw \in Texts, text.offroad = Normalize(stripRoadContext(raw)),
         Pieces(resolved), WordByWord(resolved), CitiesLeft, CompactFallback
  PROVE  WordByWord(resolved') /\ CitiesLeft'
<1> DEFINE r == resolved'
<1>1. /\ DOMAIN r = DOMAIN resolved
      /\ \A i \in DOMAIN resolved :
           /\ r[i].type = resolved[i].type /\ r[i].value = resolved[i].value /\ r[i].fuzzy = resolved[i].fuzzy
           /\ \/ r[i].found = resolved[i].found
              \/ /\ resolved[i].type = "place_name"
                 /\ r[i].found = resolved[i].found \union CompactEntities(text.offroad, resolved[i].value[1])
  BY DEF CompactFallback, Pieces
<1>2. text' = text
  BY DEF CompactFallback
<1> HIDE DEF r
<1>3. WordByWord(r)
  BY <1>1 DEF WordByWord
<1>4. \A i \in DOMAIN resolved : resolved[i].type = "place_name" =>
        r[i].found \intersect Named(resolved[i].value) = resolved[i].found \intersect Named(resolved[i].value)
  <2> SUFFICES ASSUME NEW i \in DOMAIN resolved, resolved[i].type = "place_name"
               PROVE  r[i].found \intersect Named(resolved[i].value) = resolved[i].found \intersect Named(resolved[i].value)
    OBVIOUS
  <2>1. PICK w : resolved[i].value = <<w>>
    BY DEF WordByWord
  <2>2. CompactEntities(text.offroad, w) \intersect Named(<<w>>) = {}
    BY SpacingFindsNoName
  <2> QED
    BY <1>1, <2>1, <2>2
<1>5. \A j \in DOMAIN resolved : resolved[j].found \subseteq r[j].found
  BY <1>1
<1>6. CitiesLeft'
  <2>1. text'.words = text.words
    BY <1>2
  <2> SUFFICES ASSUME NEW i \in DOMAIN r, r[i].type = "place_name", CityPriority(r[i].value),
                      \A s \in PhraseSpans(text.words) : Words(text.words, s) = r[i].value,
                      \A j \in DOMAIN r : j # i => r[j].found = {},
                      r[i].found \intersect Named(r[i].value) # {}
               PROVE  r[i].found \intersect Named(r[i].value) = At(Named(r[i].value), CITY)
    BY <2>1 DEF CitiesLeft, OnlyKnown, r
  <2>2. OnlyKnown(i, resolved)
    BY <1>1, <1>5 DEF OnlyKnown
  <2>3. resolved[i].found \intersect Named(resolved[i].value) # {}
    BY <1>1, <1>4
  <2>4. resolved[i].found \intersect Named(resolved[i].value) = At(Named(resolved[i].value), CITY)
    BY <1>1, <2>2, <2>3 DEF CitiesLeft
  <2> QED
    BY <1>1, <1>4, <2>4
<1> QED
  BY <1>3, <1>6 DEF r

\* Recovery leaves them too: it adds evidence only when two pieces of evidence
\* have found something.
LEMMA RecoveryLeavesCities ==
  ASSUME IsSequence(text.words), IsSequence(resolved), Pieces(resolved), WordByWord(resolved),
         CitiesLeft, cands = Candidates(resolved), Recover
  PROVE  CitiesLeft' /\ cands' = Candidates(resolved')
<1> DEFINE new == Recovered(cands, resolved).new
<1>1. /\ resolved' = resolved \o new /\ text' = text
      /\ cands' = IF new = <<>> THEN cands ELSE Candidates(resolved')
  BY DEF Recover, Extend
<1>2. IsSequence(new)
  BY RecoveredType
<1>3. CASE new = <<>>
  <2>1. resolved' = resolved
    <3>1. resolved \in Seq(Range(resolved))
      BY DEF IsSequence
    <3>2. resolved \o <<>> = resolved
      BY <3>1, ConcatEmptySeq
    <3> HIDE DEF new
    <3> QED
      BY <1>1, <1>3, <3>2
  <2>2. cands' = cands
    BY <1>1, <1>3
  <2> HIDE DEF new
  <2> QED
    BY <1>1, <2>1, <2>2 DEF CitiesLeft, OnlyKnown, PhraseSpans, Candidates, Discovered
<1>4. CASE new # <<>>
  <2>1. PICK j, k \in DOMAIN resolved : j # k /\ resolved[j].found # {} /\ resolved[k].found # {}
    <3>1. \A i \in DOMAIN resolved : ~resolved[i].fuzzy
      BY DEF WordByWord
    <3> QED
      BY <1>4, <3>1, RecoveryNeedsTwo
  <2> DEFINE r == resolved'
  <2> HIDE DEF new
  <2>2. DOMAIN resolved \subseteq DOMAIN r /\ \A i \in DOMAIN resolved : r[i] = resolved[i]
    BY <1>1, <1>2, JoinedParts
  <2> HIDE DEF r
  <2>3. r[j].found # {} /\ r[k].found # {} /\ j \in DOMAIN r /\ k \in DOMAIN r
    BY <2>1, <2>2
  <2>4. \A i : ~(\A x \in DOMAIN r : x # i => r[x].found = {})
    BY <2>1, <2>3
  <2>5. CitiesLeft'
    BY <2>4 DEF CitiesLeft, OnlyKnown, r
  <2> QED
    BY <1>1, <1>4, <2>5
<1> QED
  BY <1>3, <1>4

\* Every stage of a request keeps the invariant.
LEMMA CityInvHolds == Spec => []CityInv
<1>1. Init => CityInv
  BY DEF Init, CityInv
<1>2. PipelineInv /\ TypeInv /\ CityInv /\ [Next]_vars => CityInv'
  <2> SUFFICES ASSUME PipelineInv, TypeInv, CityInv, [Next]_vars PROVE CityInv'
    OBVIOUS
  <2>0. IsSequence(text.words) /\ IsSequence(resolved) /\ raw \in Texts /\ Pieces(resolved)
    BY DEF PipelineInv, TypeInv
  <2>1. CASE Refuse \/ Fail
    BY <2>1 DEF Refuse, Fail, CityInv
  <2>2. CASE Clean
    BY <2>2 DEF Clean, CityInv
  <2>3. CASE Resolve
    <3>1. Exact(resolved')
      BY <2>0, <2>3, ResolvedPieces
    <3>2. stage = "resolve" /\ stage' = "prioritize" /\ UNCHANGED <<raw, text>>
      BY <2>3 DEF Resolve
    <3>3. Exact(resolved)'
      BY <3>1, <3>2 DEF Exact
    <3> QED
      BY <3>2, <3>3 DEF CityInv
  <2>4. CASE Prioritize
    <3>1. stage = "prioritize" /\ stage' = "compact" /\ UNCHANGED <<raw, text>>
      BY <2>4 DEF Prioritize
    <3>2. Exact(resolved) /\ text.offroad = Normalize(stripRoadContext(raw))
      BY <3>1 DEF CityInv
    <3>3. WordByWord(resolved') /\ CitiesLeft'
      BY <2>0, <2>4, <3>2, PriorityLeavesCities
    <3>4. WordByWord(resolved)'
      BY <3>3 DEF WordByWord
    <3> QED
      BY <3>1, <3>2, <3>3, <3>4 DEF CityInv
  <2>5. CASE CompactFallback
    <3>1. stage = "compact" /\ stage' = "build"
      BY <2>5 DEF CompactFallback
    <3>2. WordByWord(resolved) /\ CitiesLeft /\ text.offroad = Normalize(stripRoadContext(raw))
      BY <3>1 DEF CityInv
    <3>3. WordByWord(resolved') /\ CitiesLeft'
      BY <2>0, <2>5, <3>2, SpacingLeavesCities
    <3>4. WordByWord(resolved)'
      BY <3>3 DEF WordByWord
    <3> QED
      BY <3>1, <3>3, <3>4 DEF CityInv
  <2>6. CASE Build
    <3>1. /\ stage = "build" /\ stage' = "recover" /\ UNCHANGED <<raw, text, resolved>>
          /\ cands' = Candidates(resolved)
      BY <2>6 DEF Build
    <3>2. (CitiesLeft <=> CitiesLeft') /\ (WordByWord(resolved) <=> WordByWord(resolved)')
      BY <3>1 DEF CitiesLeft, OnlyKnown, PhraseSpans, WordByWord
    <3>3. Candidates(resolved)' = Candidates(resolved)
      BY <3>1 DEF Candidates, Discovered
    <3> QED
      BY <3>1, <3>2, <3>3 DEF CityInv
  <2>7. CASE Recover
    <3>1. stage = "recover" /\ stage' = "rank"
      BY <2>7 DEF Recover
    <3>2. WordByWord(resolved) /\ CitiesLeft /\ cands = Candidates(resolved)
      BY <3>1 DEF CityInv
    <3>3. CitiesLeft' /\ cands' = Candidates(resolved')
      BY <2>0, <2>7, <3>2, RecoveryLeavesCities
    <3>4. cands' = Candidates(resolved)'
      BY <3>3 DEF Candidates, Discovered
    <3> QED
      BY <3>1, <3>3, <3>4 DEF CityInv
  <2>8. CASE Rank
    <3>1. stage = "rank" /\ stage' = "postal" /\ UNCHANGED <<text, resolved, cands, explained>>
      BY <2>8 DEF Rank
    <3>2. cands # {} => winner' \in Winners(cands, resolved, explained)
      BY <2>8 DEF Rank
    <3>3. CitiesLeft <=> CitiesLeft'
      BY <3>1 DEF CitiesLeft, OnlyKnown, PhraseSpans
    <3>4. Candidates(resolved)' = Candidates(resolved)
      BY <3>1 DEF Candidates, Discovered
    <3>5. Winners(cands, resolved, explained)' = Winners(cands, resolved, explained)
      BY <3>1 DEF Winners, Better, FoundBefore, ScoreOf, Unused, UsedValues, FirstFound, Listed
    <3> QED
      BY <3>1, <3>2, <3>3, <3>4, <3>5 DEF CityInv
  <2>9. CASE PostalFallback
    <3>1. stage = "postal" /\ stage' = "done" /\ UNCHANGED <<raw, text, resolved, cands, explained, winner>>
      BY <2>9 DEF PostalFallback
    <3>2. CitiesLeft <=> CitiesLeft'
      BY <3>1 DEF CitiesLeft, OnlyKnown, PhraseSpans
    <3>3. Candidates(resolved)' = Candidates(resolved)
      BY <3>1 DEF Candidates, Discovered
    <3>4. Winners(cands, resolved, explained)' = Winners(cands, resolved, explained)
      BY <3>1 DEF Winners, Better, FoundBefore, ScoreOf, Unused, UsedValues, FirstFound, Listed
    <3> QED
      BY <3>1, <3>2, <3>3, <3>4 DEF CityInv
  <2>10. CASE Done \/ UNCHANGED vars
    <3>1. UNCHANGED <<stage, raw, text, resolved, cands, explained, winner>>
      BY <2>10 DEF Done, vars
    <3>2. (CitiesLeft <=> CitiesLeft') /\ (Exact(resolved) <=> Exact(resolved)') /\ (WordByWord(resolved) <=> WordByWord(resolved)')
      BY <3>1 DEF CitiesLeft, OnlyKnown, PhraseSpans, Exact, WordByWord
    <3>3. Candidates(resolved)' = Candidates(resolved)
      BY <3>1 DEF Candidates, Discovered
    <3>4. Winners(cands, resolved, explained)' = Winners(cands, resolved, explained)
      BY <3>1 DEF Winners, Better, FoundBefore, ScoreOf, Unused, UsedValues, FirstFound, Listed
    <3> QED
      BY <3>1, <3>2, <3>3, <3>4 DEF CityInv
  <2> QED
    BY <2>1, <2>2, <2>3, <2>4, <2>5, <2>6, <2>7, <2>8, <2>9, <2>10 DEF Next
<1> QED
  BY <1>1, <1>2, PipelineInvHolds, TypeInvHolds, PTL DEF Spec

\* In a gazetteer where what is spelt like a city lies elsewhere, and every such
\* city has a subdistrict: an address of which only the name of a city is known,
\* without the title of a lower level, is that city, in its preferred form
\* (resolve.go:43-52, 104-147).
THEOREM SoleCityIsFound ==
  ASSUME SpacedNamesakesAreElsewhere, CitiesArePlaced
  PROVE  Spec => []SoleCityWins
<1>1. PipelineInv /\ TypeInv /\ CityInv => SoleCityWins
  <2> SUFFICES ASSUME PipelineInv, TypeInv, CityInv, NEW i \in DOMAIN resolved,
                      stage = "done", resolved[i].type = "place_name", CityPriority(resolved[i].value),
                      OnlyKnown(i, resolved),
                      resolved[i].found \intersect Named(resolved[i].value) # {},
                      resolved[i].found \subseteq NamedTogether(resolved[i].value),
                      Cardinality(cands) <= InsertionMax
               PROVE  /\ Deepest(winner) \in At(Named(resolved[i].value), CITY)
                      /\ IsKota(Deepest(winner)) = PreferKota(resolved[i].value)
    BY DEF SoleCityWins
  <2> DEFINE name == resolved[i].value
             F == resolved[i].found
  <2>1. F \intersect Named(name) = At(Named(name), CITY)
    BY DEF CityInv, CitiesLeft
  <2>2. /\ IsSequence(resolved) /\ F \subseteq Ids
        /\ \A j \in DOMAIN resolved : j # i => resolved[j].found = {}
    BY DEF PipelineInv, TypeInv, Pieces, OnlyKnown
  <2>3. Apart(F)
    <3>1. PICK c \in F : c \in Named(name)
      OBVIOUS
    <3>2. c \in At(Ids, CITY) /\ NameOf[c] = name
      BY <2>1, <3>1 DEF At, Named
    <3>3. ASSUME NEW x \in F, NEW y \in F, x # y PROVE ~IsPrefix(Rows[x].kode, Rows[y].kode)
      <4>1. CASE x \in Named(name) /\ y \in Named(name)
        <5>1. LevelOf(x) = CITY /\ LevelOf(y) = CITY
          BY <2>1, <4>1 DEF At
        <5>2. x \in Ids /\ y \in Ids
          BY <2>2
        <5> HIDE DEF F, name
        <5>3. IsPrefix(Rows[x].kode, Rows[y].kode) => x = y
          BY <5>1, <5>2, EnrichGoesUp
        <5> QED
          BY <3>3, <5>3
      <4>2. CASE x \notin Named(name) /\ y \notin Named(name)
        BY <3>2, <3>3, <4>2 DEF SpacedNamesakesAreElsewhere
      <4>3. CASE x \in Named(name) /\ y \notin Named(name)
        <5>1. x \in At(Ids, CITY) /\ NameOf[x] = name
          BY <2>1, <4>3 DEF At, Named
        <5> QED
          BY <3>3, <4>3, <5>1 DEF SpacedNamesakesAreElsewhere
      <4>4. CASE x \notin Named(name) /\ y \in Named(name)
        <5>1. y \in At(Ids, CITY) /\ NameOf[y] = name
          BY <2>1, <4>4 DEF At, Named
        <5> QED
          BY <3>3, <4>4, <5>1 DEF SpacedNamesakesAreElsewhere
      <4> QED
        BY <4>1, <4>2, <4>3, <4>4
    <3> HIDE DEF F, name
    <3> QED
      BY <3>3 DEF Apart
  <2>4. Sole(i, resolved)
    BY <2>2, <2>3 DEF Sole
  <2>5. cands = Candidates(resolved) /\ cands # {}
    <3>1. cands = Candidates(resolved)
      BY DEF CityInv
    <3>2. Discovered(resolved) # {}
      BY <2>2 DEF Discovered
    <3> QED
      BY <3>1, <3>2 DEF Candidates
  <2>6. winner \in Winners(Candidates(resolved), resolved, explained)
    BY <2>5 DEF CityInv
  <2> HIDE DEF F, name
  <2> QED
    BY <2>1, <2>4, <2>5, <2>6, SoleCityIsFirst DEF F, name
<1> QED
  BY <1>1, PipelineInvHolds, TypeInvHolds, CityInvHolds, PTL
=============================================================================
