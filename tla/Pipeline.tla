------------------------------ MODULE Pipeline ------------------------------
(***************************************************************************)
(* One request for POST /v1/validate, from the sanitized text of an        *)
(* address to its status and location (ValidateAddressV1 and what it       *)
(* calls).  One action per stage.  Where the code iterates over a map or   *)
(* sorts a long slice with an unstable sort, every order is a behaviour.   *)
(***************************************************************************)
EXTENDS Scoring, EditDistance

CONSTANTS Texts,             \* addresses
          MaxItems,          \* the longest address that is accepted
          Precedes(_, _),    \* the order of strings
          InsertionMax,      \* sort.Slice keeps the order of at most so many elements
          NoWinner

ASSUME TextAssumption == \A t \in Texts : t \in Seq([word : STRING, sep : STRING]) /\ IsText(t)
\* Words of letters written together are a word of letters: neither a number nor
\* nothing.  A number of five digits is no other number.
ASSUME WordAssumption ==
  /\ \A t \in Texts : \A p \in FieldStarts(t) :
       FieldLetters(t, p) # <<>> => Compact(FieldLetters(t, p)) \notin Numbers \union {""}
  /\ PostalCodes \intersect (Numbers \union {""}) = {}
\* A word is shorter than it is together with others.
ASSUME TogetherAssumption ==
  \A t \in Texts : LET words == Normalize(stripRoadContext(t)) IN
    \A s \in Spans(words) : \A k \in s[1]..s[2] :
       Compact(Words(words, s)) = Compact(<<words[k]>>) => Words(words, s) = <<words[k]>>

ASSUME InsertionAssumption == InsertionMax \in Nat

VARIABLES
  stage,      \* the stage that runs next
  raw,        \* the sanitized address
  text,       \* its words, the road tokens, and the words without roads
  resolved,   \* evidence with the entities found for it
  cands,      \* the locations of the candidates
  explained,  \* words that contextual recovery used up
  winner,     \* the location of the best candidate
  answer      \* status, confidence and location of the response
vars == <<stage, raw, text, resolved, cands, explained, winner, answer>>

Stages  == {"clean", "resolve", "prioritize", "compact", "build", "recover", "rank", "postal", "done", "400", "500"}
Answers == [status : {"VALID", "INCOMPLETE", "AMBIGUOUS", "CONFLICT", "UNKNOWN"},
            confidence : Int, location : SUBSET Ids, code : PostalCodes \union {NoCode}]
NoAnswer == [status |-> "UNKNOWN", confidence |-> 0, location |-> {}, code |-> NoCode]
NoText   == [words |-> <<>>, roads |-> {}, offroad |-> <<>>]

TypeOK ==
  /\ stage \in Stages
  /\ \A p \in DOMAIN text.words : text.words[p] \notin Numbers \union {""}
  /\ \A i \in DOMAIN resolved :
       /\ resolved[i].type \in {"postal_code", "place_name"}
       /\ resolved[i].found \subseteq Ids
       /\ ~resolved[i].fuzzy =>
            \A j \in DOMAIN resolved : resolved[j].value = resolved[i].value => j = i \/ resolved[j].fuzzy
  /\ \A c \in cands : \A level \in Levels : Cardinality(At(c, level)) <= 1
  /\ explained \subseteq Range(text.words)
  /\ winner \in cands \union {NoWinner}
  /\ answer \in Answers

Init ==
  /\ stage = "clean" /\ raw \in Texts /\ text = NoText
  /\ resolved = <<>> /\ cands = {} /\ explained = {}
  /\ winner = NoWinner /\ answer = NoAnswer

-----------------------------------------------------------------------------
Stopwords == {"no", "rt", "rw", "km"}
\* The first postal code of the text (extractPostalCode).
PostalPositions == {p \in DOMAIN text.words : text.words[p] \in PostalCodes}
PostalCode == text.words[Min(PostalPositions)]

\* AddressRequest.Validate
Acceptable(t) == t # <<>> /\ Len(t) <= MaxItems
Refuse ==
  /\ stage = "clean" /\ ~Acceptable(raw)
  /\ stage' = "400"
  /\ UNCHANGED <<raw, text, resolved, cands, explained, winner, answer>>
\* Slip: a location without a postal code counts as none.
Uncoded == answer.code = NoCode
\* No candidate has given a location: the postal code is all there is.
Unlocated == answer.location = {}
\* sourceAndCaches, or the query for the postal code, ends with an error.
Fail ==
  /\ \/ stage = "clean" /\ Acceptable(raw)
     \/ stage = "postal" /\ Unlocated /\ PostalPositions # {}
  /\ stage' = "500"
  /\ UNCHANGED <<raw, text, resolved, cands, explained, winner, answer>>
Clean ==
  /\ stage = "clean" /\ Acceptable(raw)
  /\ text' = [words |-> Normalize(raw), roads |-> detectRoadContextTokens(raw),
              offroad |-> Normalize(stripRoadContext(raw))]
  /\ stage' = "resolve"
  /\ UNCHANGED <<raw, resolved, cands, explained, winner, answer>>

\* Slip: a word counts again wherever it is repeated.
EveryPosition(words) == {p \in DOMAIN words : words[p] \notin RoadPrefixes \union PostalCodes}
\* ExtractEvidence takes each word once that is neither road prefix nor postal code.
PlacePositions(words) ==
  {p \in DOMAIN words : /\ words[p] \notin RoadPrefixes \union PostalCodes
                        /\ \A q \in DOMAIN words : q < p => words[q] # words[p]}

Evidence(type, value, found, fuzzy) == [type |-> type, value |-> value, found |-> found, fuzzy |-> fuzzy]
Resolve ==
  /\ stage = "resolve"
  /\ LET Coded(code) == {e \in Ids : LevelOf(e) = SUBDISTRICT /\ Rows[e].postal = code}
         postal == IF PostalPositions = {} THEN <<>>
                   ELSE <<Evidence("postal_code", <<PostalCode>>, Coded(PostalCode), FALSE)>>
         order  == InOrder(PlacePositions(text.words))
         Place(w) == Evidence("place_name", <<w>>, PhraseEntities(text.words, w), FALSE)
     IN  resolved' = postal \o [k \in DOMAIN order |-> Place(text.words[order[k]])]
  /\ stage' = "prioritize"
  /\ UNCHANGED <<raw, text, cands, explained, winner, answer>>

\* found is what the turns before have left of the entities.
OtherLocationEvidence(found, i) ==
  \E j \in DOMAIN resolved :
     /\ resolved[j].value # resolved[i].value
     /\ found[j] # {}
     /\ resolved[j].value[1] \notin text.roads
\* One turn of the loop in applyCityPriority: it sees what the turns before it
\* have suppressed.
Suppress(found, i) ==
  IF /\ resolved[i].type = "place_name" /\ CityPriority(resolved[i].value)
     /\ ~OtherLocationEvidence(found, i)
  THEN [found EXCEPT ![i] = At(found[i], CITY)] ELSE found
Prioritize ==
  /\ stage = "prioritize"
  /\ LET left == FoldLeft(Suppress, [i \in DOMAIN resolved |-> resolved[i].found], [i \in DOMAIN resolved |-> i])
     IN  resolved' = [i \in DOMAIN resolved |-> [resolved[i] EXCEPT !.found = left[i]]]
  /\ stage' = "compact"
  /\ UNCHANGED <<raw, text, cands, explained, winner, answer>>

\* Entities that are not found by a postal code only.
Discovered(res) == {e \in Ids : \E i \in DOMAIN res : res[i].type = "place_name" /\ e \in res[i].found}
\* hasHierarchyCompatibleExactSubdistrict
CompatibleSubdistrict(res) ==
  \E s \in At(Discovered(res), SUBDISTRICT) \intersect DOMAIN HierarchyMap :
     \A level \in PROVINCE..DISTRICT :
        At(Discovered(res), level) = {} \/ At(Enrich({s}), level) \subseteq Discovered(res)
CompactFallback ==
  /\ stage = "compact"
  /\ resolved' = IF CompatibleSubdistrict(resolved) THEN resolved
                 ELSE [i \in DOMAIN resolved |->
                         IF resolved[i].type = "place_name"
                         THEN [resolved[i] EXCEPT !.found = @ \union CompactEntities(text.offroad, resolved[i].value[1])]
                         ELSE resolved[i]]
  /\ stage' = "build"
  /\ UNCHANGED <<raw, text, cands, explained, winner, answer>>

-----------------------------------------------------------------------------
\* DiscoverCandidates, DeduplicateCandidates, EnrichCandidates: one candidate
\* for every entity that is not found by a postal code only.
Candidates(res) == {Enrich({e}) : e \in Discovered(res)}
Build ==
  /\ stage = "build"
  /\ cands' = Candidates(resolved)
  /\ stage' = "recover"
  /\ UNCHANGED <<raw, text, resolved, explained, winner, answer>>

\* Coverage of a candidate: evidence it uses, of the evidence that counts.
Counted(res) == {i \in DOMAIN res : res[i].type = "place_name" /\ res[i].value[1] \notin text.roads \union Stopwords}
UsedValues(c, res) == {res[m[1]].value : m \in Matched(c, res)}
Used(c, res) == {i \in Counted(res) : res[i].value \in UsedValues(c, res)}
\* selectExpansionFrontier; every coverage is Used / Counted, the gap 1/20.
Frontier(cs, res) ==
  LET best == Max({Cardinality(Used(c, res)) : c \in cs})
      all  == Cardinality(Counted(res))
  IN  IF cs = {} \/ all = 0 THEN {}
      ELSE IF 2 * best < all THEN {}
      ELSE {c \in cs : /\ Cardinality(Used(c, res)) >= 2
                       /\ 20 * Cardinality(Used(c, res)) >= 20 * best - all}

\* candidateNeighborhood: the entities of the candidate, and the children of
\* its deepest one.
Deepest(c) == CHOOSE e \in c : \A x \in c : LevelOf(x) <= LevelOf(e)
Neighborhood(c) == c \union Children(Deepest(c))
\* buildMatchTargets and bestSpanMatch: entities under the keys most similar to
\* the span; a key is an official name written together or one word of it.
MinKeyLen == 4
MaxSpanTokens == 4
ShortSpans(words) == {s \in Spans(words) : s[2] < s[1] + MaxSpanTokens}
Long(keys) == {k \in keys : Len(k) >= MinKeyLen}
KeysOf == [e \in Ids |-> Long({Compact(Rows[e].official)} \union Range(Rows[e].official))]
Threshold == 800000
\* The spans of all addresses, and all keys.
SpansOf(words) == {Compact(Words(words, s)) : s \in ShortSpans(words)}
AllSpans == Long(UNION {SpansOf(Normalize(t)) : t \in Texts})
AllKeys  == UNION {KeysOf[e] : e \in Ids}
\* An address has at most a thousand letters (MAX_ADDRESS_LENGTH), and a name no
\* more: millionths tell the similarities of such words apart.
ASSUME LengthAssumption == \A w \in AllSpans \union AllKeys : Len(w) \in Nat \ {0} /\ Len(w) <= 1000
\* The keys similar enough to a span.
SimilarKeys ==
  {m \in {[span |-> s, key |-> k, by |-> damerauSimilarity(s, k)] : s \in AllSpans, k \in AllKeys} : m.by >= Threshold}
BestSpanMatch(span, entities) ==
  LET keys == UNION {KeysOf[e] : e \in entities}
      near == {m \in SimilarKeys : m.span = Compact(span) /\ m.key \in keys}
      best == {m.key : m \in {x \in near : \A y \in near : y.by <= x.by}}
  IN  {e \in entities : KeysOf[e] \intersect best # {}}

\* unexplainedRuns: the positions of words that no frontier candidate uses and
\* that are no noise; a run is a sequence of neighbours.
Unexplained(frontier, res) ==
  LET used == UNION {{res[i].value[1] : i \in Used(c, res)} : c \in frontier}
  IN  {p \in DOMAIN text.words : text.words[p] \notin used \union text.roads \union Stopwords \union PostalCodes}
\* The spans inside the runs, and what each matches.
SpanMatches(open, entities) ==
  [s \in {x \in ShortSpans(text.words) : x[1]..x[2] \subseteq open} |-> BestSpanMatch(Words(text.words, s), entities)]
TakenSpans(match) == LongestSpans(1, Len(text.words), {s \in DOMAIN match : match[s] # {}})
\* From left to right, the spans that match entities which nothing has named.
NewEvidence(match, taken, known) ==
  LET Before(s) == known \union UNION {match[x] : x \in {y \in taken : y[1] < s[1]}}
      fresh     == {[span |-> s, found |-> match[s] \ Before(s)] : s \in taken}
      From(p)   == CHOOSE x \in fresh : x.span[1] = p
      order     == InOrder({p \in DOMAIN text.words : \E x \in fresh : x.span[1] = p /\ x.found # {}})
  IN  [k \in DOMAIN order |-> Evidence("place_name", Words(text.words, From(order[k]).span), From(order[k]).found, TRUE)]
\* RecoverContextualEvidence: the longest similar spans of the runs; the words
\* of all of them are used up when one of them tells something new.
Recovery(taken, new) ==
  [new   |-> new,
   words |-> IF new = <<>> THEN {} ELSE UNION {Range(Words(text.words, s)) : s \in taken}]
RecoveryBy(match, taken, known) == Recovery(taken, NewEvidence(match, taken, known))
RecoveryFrom(match, known) == RecoveryBy(match, TakenSpans(match), known)
Context(frontier) == UNION {Neighborhood(c) : c \in frontier}
RecoveryIn(frontier, res) ==
  RecoveryFrom(SpanMatches(Unexplained(frontier, res), Context(frontier)), Discovered(res))
Recovered(cs, res) == RecoveryIn(Frontier(cs, res), res)

\* Slip: the recovered evidence takes the place of the evidence it was found with.
Replace(res, new) == IF new = <<>> THEN res ELSE new
Extend(res, new) == res \o new
Recover ==
  /\ stage = "recover"
  /\ LET recovery == Recovered(cands, resolved)
     IN  /\ resolved' = Extend(resolved, recovery.new)
         /\ explained' = recovery.words
         /\ cands' = IF recovery.new = <<>> THEN cands ELSE Candidates(resolved')
  /\ stage' = "rank"
  /\ UNCHANGED <<raw, text, winner, answer>>

-----------------------------------------------------------------------------
\* Evidence that counts as unused: every token of the text, road names and
\* stopwords too, that is neither matched nor used up by recovery.
Unused(c, res, used) ==
  Cardinality({i \in DOMAIN res : ~res[i].fuzzy /\ res[i].value[1] \notin used
                                    /\ res[i].value \notin UsedValues(c, res)})
ScoreOf(c, res, used) == Score(c, res, Unused(c, res, used))

\* The order of evaluateCandidates, and the order of discovery where it ties.
Better(c, d, res, used) ==
  \/ ScoreOf(c, res, used) > ScoreOf(d, res, used)
  \/ /\ ScoreOf(c, res, used) = ScoreOf(d, res, used)
     /\ \/ Cardinality(c) > Cardinality(d)
        \/ /\ Cardinality(c) = Cardinality(d)
           /\ Cardinality(Conflicts(c, res)) < Cardinality(Conflicts(d, res))
FirstFound(e, res) == Min({i \in DOMAIN res : res[i].type = "place_name" /\ e \in res[i].found})
\* Where the city priority applied, the cities of the preferred form come
\* first and what compact matching added last; else the list has no order that
\* the caches promise.
Listed(e, i, res) ==
  IF ~CityPriority(res[i].value) \/ res[i].found \intersect Named(res[i].value) # At(Named(res[i].value), CITY) THEN 0
  ELSE IF e \notin Named(res[i].value) THEN 3
  ELSE IF IsKota(e) = PreferKota(res[i].value) THEN 1 ELSE 2
FoundBefore(c, d, res) ==
  LET e == Deepest(c)
      f == Deepest(d)
      i == FirstFound(e, res)
  IN  \/ LevelOf(e) < LevelOf(f)
      \/ /\ LevelOf(e) = LevelOf(f)
         /\ i < FirstFound(f, res) \/ (i = FirstFound(f, res) /\ Listed(e, i, res) < Listed(f, i, res))
Winners(cs, res, used) ==
  LET tops == {c \in cs : \A d \in cs : ~Better(d, c, res, used)}
  IN  IF Cardinality(cs) > InsertionMax THEN tops
      ELSE {c \in tops : \A d \in tops : ~FoundBefore(d, c, res)}

\* Slip: the two best candidates are compared only when they differ.
AmbiguousUnlessTied(top, second) == top # second /\ top - second < 10
\* A gap of exactly 0.1 falls on either side of the comparison, as the two
\* scores happen to be rounded.
Ambiguous(top, second) == top - second < 10
MayBeAmbiguous(top, second) == Ambiguous(top, second) \/ top - second = 10
\* The winner has the best score, so it is close to the second if to any.
Statuses(w, res, used) ==
  LET top    == ScoreOf(w, res, used)
      others == cands \ {w}
  IN  IF Quality(w, res) # "VALID" THEN {Quality(w, res)}
      ELSE {q \in {"VALID", "AMBIGUOUS"} :
              IF q = "VALID" THEN \A c \in others : ~Ambiguous(top, ScoreOf(c, res, used))
              ELSE \E c \in others : MayBeAmbiguous(top, ScoreOf(c, res, used))}

Rank ==
  /\ stage = "rank"
  /\ IF cands = {} THEN UNCHANGED <<winner, answer>>
     ELSE \E w \in Winners(cands, resolved, explained) :
          \E s \in Statuses(w, resolved, explained) :
             /\ winner' = w
             /\ answer' = [status |-> s, confidence |-> ScoreOf(w, resolved, explained),
                           location |-> w, code |-> Code(w)]
  /\ stage' = "postal"
  /\ UNCHANGED <<raw, text, resolved, cands, explained>>

-----------------------------------------------------------------------------
\* FindByPostalCode takes the uppers from the kode, not from the hierarchy.
Uppers(s) == {e \in Ids : IsPrefix(Rows[e].kode, Rows[s].kode)}
DistrictName(s) ==
  LET ds == At(Uppers(s), DISTRICT)
  IN  IF ds = {} THEN <<>> ELSE Rows[CHOOSE d \in ds : TRUE].official
DistrictNames == {DistrictName(s) : s \in Ids}
\* The names are strings, which are totally ordered.
ASSUME PrecedesAssumption ==
  /\ NoWinner \notin DistrictNames
  /\ \A a, b \in DistrictNames : a # b => Precedes(a, b) \/ Precedes(b, a)
  /\ \A a, b, c \in DistrictNames : Precedes(a, b) /\ Precedes(b, c) => Precedes(a, c)
  /\ \A a \in DistrictNames : ~Precedes(a, a)
GroupOf(code, district) == {s \in Ids : Rows[s].postal = code /\ DistrictName(s) = district}
\* Slip: the last of the largest groups stays.
TakeLatest(code, best, district) ==
  IF best = NoWinner \/ Cardinality(GroupOf(code, district)) >= Cardinality(GroupOf(code, best))
  THEN district ELSE best
\* The loop over the groups of a map: the larger group, of two as large the one
\* whose district precedes the other.
TakeLarger(code, best, district) ==
  LET n == Cardinality(GroupOf(code, district))
      m == IF best = NoWinner THEN 0 ELSE Cardinality(GroupOf(code, best))
  IN  IF n > m \/ (n = m /\ Precedes(district, best)) THEN district ELSE best
BestDistricts(code) ==
  LET districts == {DistrictName(s) : s \in {x \in Ids : Rows[x].postal = code}}
  IN  {FoldLeft(LAMBDA best, d : TakeLarger(code, best, d), NoWinner, order) : order \in SetToSeqs(districts)}

\* resolveLocationByPostalCode; the status is not computed again.
PostalFallback ==
  /\ stage = "postal"
  /\ IF PostalPositions = {} THEN UNCHANGED answer
     ELSE LET code == PostalCode
          IN  IF Unlocated
              THEN IF \A s \in Ids : Rows[s].postal # code THEN UNCHANGED answer
                   ELSE \E district \in BestDistricts(code) :
                          LET s == Min(GroupOf(code, district))
                          IN  answer' = [answer EXCEPT !.location = Uppers(s), !.code = code]
              ELSE answer' = IF answer.code = NoCode /\ At(answer.location, SUBDISTRICT) = {}
                             THEN [answer EXCEPT !.code = code] ELSE answer
  /\ stage' = "done"
  /\ UNCHANGED <<raw, text, resolved, cands, explained, winner>>

Done == stage \in {"done", "400", "500"} /\ UNCHANGED vars

Next == Refuse \/ Fail \/ Clean \/ Resolve \/ Prioritize \/ CompactFallback \/ Build \/ Recover \/ Rank \/ PostalFallback \/ Done
Spec == Init /\ [][Next]_vars
-----------------------------------------------------------------------------
\* No candidate is in conflict with itself.  detectConflicts compares one entity,
\* the uppers that enrichment gave it and the evidence that found one of these,
\* never what two names of the address mean, or a name and the postal code: so
\* the status CONFLICT is never given, whatever the address says (enrich.go,
\* evaluate.go:102-215).  It is not what STORY.md:108, 150 and ABOUT.md:326, 523 promise.
NoCandidateContradictsItself ==
  /\ stage \in {"rank", "postal", "done"} => \A c \in cands : Conflicts(c, resolved) = {}
  /\ answer.status # "CONFLICT"

\* Contextual recovery never lowers the best score: the evidence it adds counts
\* and the misspelt words stop counting as unused (validate_v1.go:52-61).
Best == Max({ScoreOf(c, resolved, explained) : c \in cands})
RecoveryNeverHurts ==
  [][stage = "recover" /\ cands # {} => cands' # {} /\ Best' >= Best]_vars

\* What recovery takes for a misspelt name is one within a fifth of its letters,
\* and no name of the neighborhood is nearer, by the least number of edits that
\* turn one into the other (fuzzy_context.go:332-434).
Away(span, keys) == {[key |-> k, edits |-> Edits(span, k), of |-> Max({Len(span), Len(k)})] : k \in keys}
Nearest(away) == {x \in away : \A y \in away : x.edits * y.of <= y.edits * x.of}
RecoveryTakesTheNearest ==
  [][stage = "recover" => \A i \in Len(resolved) + 1..Len(resolved') :
       LET around  == Context(Frontier(cands, resolved))
           nearest == Nearest(Away(Compact(resolved'[i].value), UNION {KeysOf[e] : e \in around}))
       IN  \A e \in resolved'[i].found :
             \E x \in nearest : x.key \in KeysOf[e] /\ 5 * x.edits <= x.of]_vars

\* The names of a place and of its uppers, and the words of these names.
NamesOf(s) == {NameOf[u] : u \in Uppers(s)}
WordsOf(s) == UNION {Range(n) : n \in NamesOf(s)}
\* A phrase stands for itself, and for the word of which it is a repetition.
Readings(phrase) == {phrase} \union IF Repeated(phrase) THEN {<<phrase[1]>>} ELSE {}
\* The phrases of the text are the names of s and its uppers, none of their words
\* is a road's name or a prefix, and the postal code is the one of s.
ReadAs(s) ==
  LET phrases == {Words(text.words, t) : t \in PhraseSpans(text.words)} IN
  /\ NamesOf(s) \subseteq UNION {Readings(p) : p \in phrases}
  /\ \A p \in phrases : Readings(p) \intersect NamesOf(s) # {}
  /\ WordsOf(s) \intersect (text.roads \union RoadPrefixes \union PostalCodes) = {}
  /\ \E v, w \in WordsOf(s) : v # w
  /\ PostalPositions # {} => PostalCode = Rows[s].postal
\* Recovery has taken no other word for the name of a place.
Verbatim == \A i \in DOMAIN resolved : ~resolved[i].fuzzy
\* Two words of a name are two pieces of evidence.
Several(name) == \E v, w \in Range(name) : v # w
\* No entity of these levels gets the bonus for two pieces of evidence where the
\* entity that the address means does not.
Unrivalled(s, levels) ==
  \A e \in Ids : LevelOf(e) \in levels /\ NameOf[e] \in NamesOf(s) /\ Several(NameOf[e]) =>
    \E u \in At(Uppers(s), LevelOf(e)) : Several(NameOf[u])
\* No other place and its uppers have all these words in their names.
Alone(s) == \A x \in Ids : Placed(x) /\ WordsOf(s) \subseteq WordsOf(x) => x = s

\* An address that is read as the names of a subdistrict with a postal code and of
\* all its uppers, in whatever order, among whatever other words that recovery
\* leaves alone and with the code or without, is never answered with another place
\* as VALID, INCOMPLETE or UNKNOWN when its uppers are unrivalled: it is that
\* subdistrict, or AMBIGUOUS.  When it is unrivalled itself and no other place has
\* all the words, it is that subdistrict
\* (validate_helper.go:276-362, evaluate.go:37-97, 220-330, validate_v1.go:63-78).
CompleteAddressResolves ==
  stage = "done" /\ Verbatim => \A s \in Ids :
    Placed(s) /\ Rows[s].postal # NoCode /\ Unrivalled(s, PROVINCE..DISTRICT) /\ ReadAs(s) =>
      \/ answer.location = Uppers(s)
      \/ answer.status = "AMBIGUOUS" /\ ~(Alone(s) /\ Unrivalled(s, {SUBDISTRICT}))

\* An address of which only the name of a city is known is that city, though
\* districts and subdistricts bear the same name and score higher, and though
\* other names differ from it in their spaces only; of a city and a regency of
\* the name it is the preferred one (resolve.go:43-52, 104-147).  Known is what
\* the words name: no phrase of the text is another name, no other evidence has
\* found anything, and what this one has found bears the name, up to spaces.
\* Nor does the address have the title of a lower level: the plan for the city
\* priority wants "kecamatan bandung" to stay the subdistrict, which the code has
\* no rule for (plan/benchmark_prio_city_over_other_level_plan.md:363-365, 488).
BelowCity == {"kecamatan", "kec", "kelurahan", "kel", "desa"}
OnlyKnown(i, res) ==
  /\ \A s \in PhraseSpans(text.words) : Words(text.words, s) = res[i].value
  /\ \A j \in DOMAIN res : j # i => res[j].found = {}
SoleCityWins ==
  \A i \in DOMAIN resolved :
    /\ stage = "done" /\ resolved[i].type = "place_name" /\ CityPriority(resolved[i].value)
    /\ OnlyKnown(i, resolved) /\ ~\E p \in DOMAIN raw : raw[p].word \in BelowCity
    /\ resolved[i].found \intersect Named(resolved[i].value) # {}
    /\ resolved[i].found \subseteq NamedTogether(resolved[i].value)
    /\ Cardinality(cands) <= InsertionMax
    => /\ Deepest(winner) \in At(Named(resolved[i].value), CITY)
       /\ IsKota(Deepest(winner)) = PreferKota(resolved[i].value)

\* So it is in the source files.  A name that differs from that of a city in its
\* spaces is neither inside a city of this name, nor around it, nor inside another
\* such name: scores rely on it, as each of the inner ones would outscore the city.
\* And every city has a subdistrict whose uppers are all there.
SpacedNamesakesAreElsewhere ==
  \A c \in At(Ids, CITY) : CityPriority(NameOf[c]) =>
    \A x, y \in {c} \union (NamedTogether(NameOf[c]) \ Named(NameOf[c])) :
       x # y => ~IsPrefix(Rows[x].kode, Rows[y].kode)
CitiesArePlaced == \A c \in At(Ids, CITY) : CityPriority(NameOf[c]) => c \in DOMAIN HierarchyMap

\* When the order of a map or of an unstable sort decides which candidate comes
\* first, the answer is not called VALID (validate_v1.go:63-73, 246-256).
ArbitraryChoiceIsNeverValid ==
  answer.status = "VALID" =>
     \A c \in cands \ {winner} : Better(winner, c, resolved, explained)

\* A location inferred from the postal code alone lies in the district with the
\* most subdistricts of that code, of several such the first by name, whatever
\* order the groups are visited in (validate_helper.go:48-61).
FallbackIsMajority ==
  stage = "done" /\ cands = {} /\ answer.location # {} =>
     LET code == answer.code
         name == DistrictName(Deepest(answer.location))
         size(d) == Cardinality(GroupOf(code, d))
     IN  \A s \in Ids : Rows[s].postal = code /\ DistrictName(s) # name =>
           \/ size(name) > size(DistrictName(s))
           \/ size(name) = size(DistrictName(s)) /\ Precedes(name, DistrictName(s))

\* The postal code never overrides what the names say, and a location that rests
\* on the code alone, complete as it is, has neither a status nor a confidence:
\* they were settled before it was looked up (validate_v1.go:61-92).
CodeNeverOverridesNames ==
  stage = "done" =>
    IF cands = {} THEN answer.status = "UNKNOWN" /\ answer.confidence = 0
    ELSE /\ answer.location = winner
         /\ answer.code # Code(winner) =>
              answer.code = PostalCode /\ Code(winner) = NoCode /\ At(winner, SUBDISTRICT) = {}

\* STORY.md:113, "Confidence is a score from 0 to 1, computed as a weighted sum
\* of matched signals and clamped to the unit interval".
ConfidenceInUnitInterval == answer.confidence \in 0..100

\* resolve.go:108-109, "Tokens that follow a road prefix (jl/jalan/gg) are road
\* names, not location evidence": where another word names a place, the answer
\* does not rest on the road's name alone.
RoadNamesDoNotLocate ==
  (stage = "done" /\ winner # NoWinner
     /\ \E i \in DOMAIN resolved : resolved[i].found # {} /\ resolved[i].value[1] \notin text.roads)
  => \E m \in Matched(winner, resolved) : resolved[m[1]].value[1] \notin text.roads
=============================================================================
