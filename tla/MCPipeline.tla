---------------------------- MODULE MCPipeline ----------------------------
(***************************************************************************)
(* Instances of Pipeline for TLC: a small gazetteer and addresses over it. *)
(***************************************************************************)
EXTENDS Pipeline

Place(kode, official, postal) == [kode |-> kode, official |-> official, postal |-> postal]

\* A city, a regency, a district and a subdistrict of one name; a district and
\* its subdistrict of one name; a name with and without a space; names that two
\* districts have; postal codes in two districts; a name of one word twice; a
\* district and its subdistrict of one name of two words; a subdistrict without
\* uppers.
Places ==
  <<Place(<<1>>, <<"jabar">>, "none"),
    Place(<<1, 1>>, <<"kota", "bandung">>, "none"),
    Place(<<1, 2>>, <<"kabupaten", "bandung">>, "none"),
    Place(<<1, 1, 1>>, <<"cicendo">>, "none"),
    Place(<<1, 1, 1, 1>>, <<"arjuna">>, "40172"),
    Place(<<1, 1, 1, 2>>, <<"pasirkaliki">>, "40171"),
    Place(<<1, 1, 1, 3>>, <<"pamoyanan">>, "40172"),
    Place(<<1, 2, 1>>, <<"lembang">>, "none"),
    Place(<<1, 2, 1, 1>>, <<"lembang">>, "40391"),
    Place(<<1, 3>>, <<"kabupaten", "cimahi">>, "none"),
    Place(<<1, 3, 1>>, <<"cibabat">>, "none"),
    Place(<<1, 3, 1, 2>>, <<"cibabat">>, "40391"),
    Place(<<1, 3, 2>>, <<"cipageran">>, "none"),
    Place(<<1, 3, 2, 1>>, <<"ban", "dung">>, "40171"),
    Place(<<1, 2, 2>>, <<"bandung">>, "none"),
    Place(<<1, 2, 2, 1>>, <<"bandung">>, "40172"),
    Place(<<1, 2, 3>>, <<"cicendo">>, "none"),
    Place(<<1, 2, 3, 1>>, <<"sukasari">>, "none"),
    Place(<<1, 3, 3>>, <<"lembang">>, "none"),
    Place(<<1, 3, 3, 1>>, <<"lembang", "lembang">>, "none"),
    Place(<<1, 9, 1, 1>>, <<"arjuna">>, "none"),
    Place(<<1, 3, 4>>, <<"pasir", "putih">>, "none"),
    Place(<<1, 3, 4, 1>>, <<"pasir", "putih">>, "40391"),
    Place(<<1, 3, 4, 2>>, <<"arjuna">>, "40391")>>

\* The places are as the source files are.
ASSUME PlacesAreReal == SpacedNamesakesAreElsewhere /\ CitiesArePlaced

Codes    == {"40171", "40172", "40391", "40399"}
Nrs      == {"5"}
Alphabet ==
  << <<>>, <<"bandung">>, <<"cibabat">>, <<"cicendo">>, <<"cipageran">>, <<"lembang">>, <<"pasir", "putih">> >>
\* The order of the district names.
Earlier(a, b) == \E i, j \in DOMAIN Alphabet : i < j /\ Alphabet[i] = a /\ Alphabet[j] = b

Item(word, sep) == [word |-> word, sep |-> sep]
\* Words with spaces between them, and with a comma that may end a road.
Apart(words, commas) ==
  [k \in DOMAIN words |-> Item(words[k], IF k \in commas THEN ", " ELSE " ")]
Addresses(spoken) ==
  UNION {{Apart(w, commas) : commas \in {{}} \union IF "jl" \in Range(w) THEN {{k} : k \in 2..Len(w) - 1} ELSE {}} : w \in spoken}
Vocabulary == {"jl", "bandung", "cicendo", "arjnua", "pasir", "kaliki", "lembang", "jabar", "40171", "40172"}
Spoken(n) == UNION {[1..k -> Vocabulary] : k \in 1..n}
\* Words that matter to recovery: one letter too few, two letters exchanged,
\* the same with another letter wrong.
Typos == {"arjnua", "erjnua", "lembng"}
Misspelt ==
  {w \in [1..4 -> {"jl", "bandung", "cicendo", "40172"} \union Typos] :
     /\ w[1] # w[2] /\ w[2] # w[3] /\ w[3] # w[4]
     /\ Range(w) \intersect Typos # {} /\ {"bandung", "cicendo"} \subseteq Range(w)}
\* The beginning of an address: none, a road, a road of the name of a place.
Begin == {<<>>,
          <<Item("jl", ". "), Item("merdeka", " "), Item("no", "."), Item("5", ", ")>>,
          <<Item("gg", " "), Item("bandung", " "), Item("5", " ")>>}
\* Every subdistrict and its uppers by their names, from the bottom to the top or
\* from the top to the bottom, with or without their titles, behind a road or not,
\* with the postal code or without.
Title == <<"prov", "", "kec", "kel">>
Mention(e, titled) ==
  LET name == IF titled THEN Rows[e].official ELSE NameOf[e]
  IN  (IF titled /\ LevelOf(e) # CITY THEN <<[word |-> Title[LevelOf(e)], sep |-> ". "]>> ELSE <<>>)
        \o [k \in DOMAIN name |-> [word |-> name[k], sep |-> IF k = Len(name) THEN ", " ELSE " "]]
Upper(s, level) == CHOOSE e \in Ids : Rows[e].kode = SubSeq(Rows[s].kode, 1, level)
Names(s, levels, titled) == FlattenSeq([k \in DOMAIN levels |-> Mention(Upper(s, levels[k]), titled)])
Ended(t) == [t EXCEPT ![Len(t)].sep = " "]
CompleteAddresses(s) ==
  {Ended(street \o Names(s, levels, titled) \o code) :
     street \in Begin,
     levels \in {<<SUBDISTRICT, DISTRICT, CITY, PROVINCE>>, <<PROVINCE, CITY, DISTRICT, SUBDISTRICT>>},
     titled \in BOOLEAN,
     code   \in {<<>>} \union {<<[word |-> c, sep |-> " "]>> : c \in {Rows[s].postal} \ {NoCode}}}
CompleteTexts == UNION {CompleteAddresses(s) : s \in {x \in Ids : Placed(x)}}
\* Marks without spaces, titles that a comma keeps, roads that a word cuts.
Marked == {
  <<Item("jl", "."), Item("cicendo", ","), Item("bandung", " ")>>,
  <<Item("kota", ","), Item("bandung", " ")>>,
  <<Item("kab", ". "), Item("bandung", ", "), Item("40172", ". "), Item("kota", " ")>>,
  <<Item("pasir", " "), Item("kaliki", ","), Item("gg", ". "), Item("cicendo", ","), Item("bandung", " ")>>,
  <<Item("jl", " "), Item("cicendo", " "), Item("rt", " "), Item("pasir", " "), Item("kaliki", " ")>>,
  <<Item("bandung", " "), Item("jalan", " "), Item("pasir", " "), Item("kaliki", " "), Item("5", " ")>>}
\* Addresses that contradict themselves: a subdistrict with the code of another,
\* one of two cities, and two districts of different cities.
Contradictory == {Apart(w, {}) : w \in {<<"pamoyanan", "cicendo", "bandung", "40171">>,
                                        <<"pasirkaliki", "cicendo", "bandung", "cimahi", "jabar">>,
                                        <<"cipageran", "cicendo", "jabar">>}}
ShortAddresses == {<<>>} \union Addresses(Spoken(3)) \union Addresses(Misspelt) \union Marked
                    \union Contradictory \union CompleteTexts
\* "Jl. Cibabat, Bandung"
RoadAddresses == {<<Item("jl", ". "), Item("cibabat", ", "), Item("bandung", " ")>>}
\* The name of a province after a long street.
Street == <<"jl", "merdeka", "raya", "no", "blok", "rt", "rw", "indah", "permai", "gedung", "lantai", "jabar">>
LongAddresses == {Apart(Street, {3}), Apart(<<"bandung">>, {})}
=============================================================================
