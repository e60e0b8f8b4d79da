----------------------------- MODULE Gazetteer -----------------------------
(***************************************************************************)
(* The administrative names of one source as the validation service holds  *)
(* them in memory, and the ways it looks names up: the hierarchy maps, the  *)
(* city priority set, and the longest match over the words of an address   *)
(* (validate_helper.go, location.go, enrich.go).                           *)
(***************************************************************************)
EXTENDS TextCleaning

CONSTANTS Rows,           \* location_codes by id: kode, official name, postal code
          NoCode          \* a row without a postal code

\* The rows of a table, each with a serial number.  A kode is the sequence of its
\* parts; an official name is a sequence of words.
ASSUME RowsAssumption ==
  /\ IsFiniteSet(DOMAIN Rows) /\ DOMAIN Rows \subseteq Nat
  /\ \A i \in DOMAIN Rows : Rows[i].postal \in PostalCodes \union {NoCode}
  /\ \A i \in DOMAIN Rows : Rows[i].kode \in Seq(Nat) /\ Len(Rows[i].kode) \in 1..4
  /\ \A i, j \in DOMAIN Rows : Rows[i].kode = Rows[j].kode => i = j

Ids == DOMAIN Rows
PROVINCE == 1
CITY == 2
DISTRICT == 3
SUBDISTRICT == 4
Levels == PROVINCE..SUBDISTRICT
\* The caches key a row by its normalized name.
NameOf == [e \in Ids |-> Normalize([k \in DOMAIN Rows[e].official |-> [word |-> Rows[e].official[k], sep |-> " "]])]
IsKota(e) == Head(Rows[e].official) = "kota"
LevelOf(e) == Len(Rows[e].kode)
At(S, level) == {e \in S : LevelOf(e) = level}

\* location_hierarchy has a row for a subdistrict all of whose uppers exist;
\* the three maps are filled from these rows, so a city or district without a
\* complete subdistrict below it has no entry.
Placed(s) ==
  /\ LevelOf(s) = SUBDISTRICT
  /\ \A level \in PROVINCE..DISTRICT :
       \E e \in Ids : Rows[e].kode = SubSeq(Rows[s].kode, 1, level)
HierarchyMap ==
  [e \in {x \in Ids : LevelOf(x) > PROVINCE /\ \E s \in Ids : Placed(s) /\ IsPrefix(Rows[x].kode, Rows[s].kode)}
     |-> CHOOSE u \in Ids : Rows[u].kode = Front(Rows[e].kode)]
Children(e) == {x \in DOMAIN HierarchyMap : HierarchyMap[x] = e}

\* Slip: the upper is looked up by the name of the entity, not by its id.
FillUpperByName(loc, level) ==
  IF At(loc, level) # {} /\ At(loc, level - 1) = {}
  THEN loc \union {HierarchyMap[x] : x \in {y \in DOMAIN HierarchyMap :
                      LevelOf(y) = level /\ \E e \in At(loc, level) : NameOf[y] = NameOf[e]}}
  ELSE loc
\* A location is the set of the entities it names.  EnrichCandidates fills a
\* missing upper level from the level below it, from the bottom to the top.
FillUpper(loc, level) ==
  IF At(loc, level) # {} /\ At(loc, level - 1) = {}
  THEN loc \union {HierarchyMap[e] : e \in At(loc, level) \intersect DOMAIN HierarchyMap}
  ELSE loc
Enrich(loc) == FillUpper(FillUpper(FillUpper(loc, SUBDISTRICT), DISTRICT), CITY)

Named(name) == {e \in Ids : NameOf[e] = name}
CompactNameOf == [e \in Ids |-> Compact(NameOf[e])]
NamedTogether(name) == {e \in Ids : CompactNameOf[e] = Compact(name)}

\* The names of cities that a district or subdistrict has too, and the form
\* preferred for them.
CityPriority(name) ==
  /\ \E e \in Named(name) : LevelOf(e) = CITY
  /\ \E e \in Named(name) : LevelOf(e) \in {DISTRICT, SUBDISTRICT}
PreferKota(name) == \E e \in Named(name) : LevelOf(e) = CITY /\ IsKota(e)

Words(words, span) == SubSeq(words, span[1], span[2])
Spans(words) == {s \in (DOMAIN words) \X (DOMAIN words) : s[1] <= s[2]}
InSpan(words, span, w) == \E k \in span[1]..span[2] : words[k] = w

\* What a scan from the left over first..last takes of the spans that fit when
\* it prefers the longest.
LongestSpans(first, last, fitting) ==
  LET scan[i \in first..last + 1] ==
        LET ends == {s[2] : s \in {t \in fitting : t[1] = i}}
        IN  IF i > last THEN {}
            ELSE IF ends = {} THEN scan[i + 1] ELSE {<<i, Max(ends)>>} \union scan[Max(ends) + 1]
  IN  scan[first]

Repeated(name) == Len(name) > 1 /\ \A k \in DOMAIN name : name[k] = name[1]

PhraseSpans(words) == LongestSpans(1, Len(words), {s \in Spans(words) : Named(Words(words, s)) # {}})
\* Slip: a repeated word is one name only.
PhraseOnly(words, w) ==
  UNION {Named(Words(words, s)) : s \in {t \in PhraseSpans(words) : InSpan(words, t, w)}}
\* matchPhrases: what a word of the text stands for is what the phrases around
\* it name; a phrase of one word repeated also counts as that word.
PhraseEntities(words, w) ==
  UNION {Named(Words(words, s)) \union
           (IF Repeated(Words(words, s)) THEN Named(<<w>>) ELSE {})
           : s \in {t \in PhraseSpans(words) : InSpan(words, t, w)}}

\* Slip: compact matching finds again what exact matching has found.
SpacingToo(name) == NamedTogether(name)
\* matchCompactPhrases: names that differ from the phrase in their spaces only.
SpacingOnly(name) == NamedTogether(name) \ Named(name)
CompactEntities(words, w) ==
  LET spans == LongestSpans(1, Len(words), {s \in Spans(words) : SpacingOnly(Words(words, s)) # {}})
  IN  UNION {SpacingOnly(Words(words, s)) : s \in {t \in spans : InSpan(words, t, w)}}
=============================================================================
