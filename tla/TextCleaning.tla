---------------------------- MODULE TextCleaning ----------------------------
(***************************************************************************)
(* From the sanitized text of an address to the words the pipeline works   *)
(* on: normalizer.Normalize, the road names that detectRoadContextTokens    *)
(* finds, and the text without roads (normalizer.go, evidence.go).          *)
(*                                                                          *)
(* A text is a sequence of items: a word of letters or of digits, in lower  *)
(* case, and what stands between it and the next; what ends the text counts *)
(* as a space.                                                              *)
(***************************************************************************)
EXTENDS Integers, SequencesExt

CONSTANTS PostalCodes,  \* the numbers of five digits
          Numbers       \* other numbers

Separators == {" ", ",", ", ", ".", ". "}
Spaced     == {" ", ", ", ". "}
Digits     == PostalCodes \union Numbers
IsText(t)  == \A p \in DOMAIN t : t[p].sep \in IF p = Len(t) THEN Spaced ELSE Separators
\* The members of a set of positions, from left to right.
InOrder(S) == [k \in 1..Cardinality(S) |-> CHOOSE p \in S : Cardinality({q \in S : q <= p}) = k]
\* Words written together.
Compact(words) == FoldLeft(LAMBDA a, b : a \o b, "", words)

\* adminSet, and those of its words that it has with a full stop too.
AdminSet == {"kabupaten", "kab", "kota", "kecamatan", "kec", "kelurahan", "kel",
             "provinsi", "prov", "administrasi", "kepulauan"}
Abbreviated == {"kab", "kec", "kel", "prov"}

\* The items between two spaces are one field; the last item ends the last one.
FieldStarts(t) == {p \in DOMAIN t : p = 1 \/ t[p - 1].sep \in Spaced}
FieldEnd(t, p) == Min({q \in p..Len(t) : q = Len(t) \/ t[q].sep \in Spaced})
\* A field is dropped when the whole of it is an administrative word: before
\* punctuation goes, so the comma in "kota, " keeps that word.
IsAdmin(t, p) ==
  /\ FieldEnd(t, p) = p
  /\ \/ t[p].word \in AdminSet /\ t[p].sep = " "
     \/ t[p].word \in Abbreviated /\ t[p].sep = ". "

\* The words of a field that are letters.
FieldLetters(t, p) ==
  SelectSeq([q \in 1..FieldEnd(t, p) - p + 1 |-> t[p + q - 1].word], LAMBDA w : w \notin Digits \union {""})

\* Normalize: the letters of each field that is left are one word, digits go,
\* and the postal codes follow at the end.
Normalize(t) ==
  LET kept    == {p \in FieldStarts(t) : ~IsAdmin(t, p)}
      fields  == InOrder({p \in kept : FieldLetters(t, p) # <<>>})
      codes   == InOrder({p \in DOMAIN t : t[p].word \in PostalCodes})
  IN  [k \in DOMAIN fields |-> Compact(FieldLetters(t, fields[k]))] \o [k \in DOMAIN codes |-> t[codes[k]].word]

-----------------------------------------------------------------------------
RoadPrefixes == {"jl", "jalan", "gg", "gang"}
RoadCuts     == {"no", "rt", "rw"}

\* roadContextPattern matches a prefix and the words after it that only spaces
\* separate.
IsRoadPrefix(t, p) ==
  /\ \/ t[p].word \in RoadPrefixes /\ t[p].sep = " "
     \/ t[p].word \in {"jl", "gg"} /\ t[p].sep = ". "
  /\ p < Len(t) /\ t[p + 1].word \notin Digits
PhraseEnd(t, p) ==
  Max({q \in p + 1..Len(t) : \A k \in p + 1..q : t[k].word \notin Digits /\ (k > p + 1 => t[k - 1].sep = " ")})
\* FindAll goes on behind the phrase: a prefix inside it begins nothing.
RoadStarts(t) ==
  LET from[p \in 1..Len(t) + 1] ==
        IF p > Len(t) THEN {}
        ELSE IF IsRoadPrefix(t, p) THEN {p} \union from[PhraseEnd(t, p) + 1] ELSE from[p + 1]
  IN  from[1]
\* roadContextCutPattern: a number ends the road, and so does each of three words.
RoadEnd(t, p) ==
  Max({q \in p..PhraseEnd(t, p) : \A k \in p + 1..q : t[k].word \notin RoadCuts})
RoadPositions(t) == UNION {p + 1..RoadEnd(t, p) : p \in RoadStarts(t)}
\* An administrative word in a road name becomes the empty token.
detectRoadContextTokens(t) == {t[q].word : q \in RoadPositions(t)} \ AdminSet

\* stripRoadContext: of prefix and phrase stays what the cut leaves, and the
\* mark behind the phrase.
stripRoadContext(t) ==
  LET Item(p) ==
        IF p \notin RoadStarts(t) THEN t[p]
        ELSE [word |-> "", sep |-> IF RoadEnd(t, p) < PhraseEnd(t, p) \/ t[PhraseEnd(t, p)].sep = " "
                                   THEN "" ELSE t[PhraseEnd(t, p)].sep]
      kept == InOrder(DOMAIN t \ RoadPositions(t))
  IN  [k \in DOMAIN kept |-> Item(kept[k])]
=============================================================================
