------------------------------ MODULE Scoring ------------------------------
(***************************************************************************)
(* evaluate.go: conflicts, score and quality of one candidate, as functions *)
(* of its location, of the resolved evidence and of the number of evidence *)
(* tokens it leaves unused.  A score is in hundredths, as every weight is.  *)
(***************************************************************************)
EXTENDS Gazetteer

\* The leading digits that two postal codes have in common.
SharedDigits(c, d) == Max({n \in 0..5 : SubSeq(c, 1, n) = SubSeq(d, 1, n)})

\* The evidence that supports a location: pairs of its position and an entity.
Matched(loc, resolved) ==
  {m \in (DOMAIN resolved) \X loc : m[2] \in resolved[m[1]].found}
MatchedEntities(loc, resolved) == {m[2] : m \in Matched(loc, resolved)}

Code(loc) ==
  LET codes == {Rows[s].postal : s \in At(loc, SUBDISTRICT)} \ {NoCode}
  IN  IF codes = {} THEN NoCode ELSE CHOOSE c \in codes : TRUE

HierarchyConflict(loc) ==
  \E level \in CITY..SUBDISTRICT :
     \E e \in At(loc, level), u \in At(loc, level - 1) :
        e \notin DOMAIN HierarchyMap \/ HierarchyMap[e] # u
\* postal_code_mismatch compares the id of the postal code, which
\* EnrichCandidates copies from the subdistrict, with that of the subdistrict.
OrphanCity(loc) ==
  Cardinality(loc) > 1 /\ At(loc, CITY) # {} /\ At(loc, PROVINCE) = {}
TwoOfOneLevel(loc, resolved) ==
  \E e \in MatchedEntities(loc, resolved) : \E x \in At(loc, LevelOf(e)) : x # e
Conflicts(loc, resolved) ==
  (IF HierarchyConflict(loc) THEN {"hierarchy_conflict"} ELSE {})
    \union (IF OrphanCity(loc) THEN {"orphan_city"} ELSE {})
    \union (IF TwoOfOneLevel(loc, resolved) THEN {"multiple_city or duplicate_level"} ELSE {})

PrefixBonus(loc, resolved) ==
  LET codes  == {resolved[m[1]].value[1] : m \in {n \in Matched(loc, resolved) : resolved[n[1]].type = "postal_code"}}
      digits == {SharedDigits(c, Code(loc)) : c \in codes}
  IN  CASE Code(loc) = NoCode \/ digits = {} -> 0
        [] Max(digits \union {0}) >= 5 -> 20
        [] Max(digits \union {0}) = 4  -> 10
        [] Max(digits \union {0}) = 3  -> 7
        [] OTHER             -> 0

\* At most one entity of a level is in a location.
OverLevels(weight, levels) ==
  LET part(level) == IF level \in levels THEN weight[level] ELSE 0
  IN  part(PROVINCE) + part(CITY) + part(DISTRICT) + part(SUBDISTRICT)
LevelWeight == <<15, 12, 8, 5>>
MultiWeight == <<20, 15, 10, 5>>
Capped(n, cap) == IF n > cap THEN cap ELSE n
\* Entities that two pieces of evidence name.
MultiBonus(loc, resolved) ==
  LET twice == {e \in MatchedEntities(loc, resolved) :
                  \E i, j \in DOMAIN resolved : i # j /\ e \in resolved[i].found /\ e \in resolved[j].found}
  IN  Capped(OverLevels(MultiWeight, {LevelOf(e) : e \in twice}), 40)

\* The weights are added and capped; the penalty for unused evidence comes last.
Score(loc, resolved, unused) ==
  LET sum == (IF Matched(loc, resolved) # {} THEN 10 ELSE 0)
           + (IF ~HierarchyConflict(loc) /\ At(loc, CITY) # {} THEN 15 ELSE 0)
           + (IF Code(loc) # NoCode THEN 5 + PrefixBonus(loc, resolved) ELSE 0)
           + OverLevels(LevelWeight, {LevelOf(e) : e \in MatchedEntities(loc, resolved)})
           + MultiBonus(loc, resolved)
  IN  Capped(sum, 100) - 3 * unused

Quality(loc, resolved) ==
  CASE Conflicts(loc, resolved) # {} -> "CONFLICT"
    [] loc = {} -> "UNKNOWN"
    [] \E level \in PROVINCE..DISTRICT : At(loc, level) = {} -> "INCOMPLETE"
    [] OTHER -> "VALID"
=============================================================================
