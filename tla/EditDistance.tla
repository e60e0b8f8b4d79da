---------------------------- MODULE EditDistance ----------------------------
(***************************************************************************)
(* The distance between two words that contextual recovery compares with a *)
(* threshold (fuzzy_context.go), row by row as the code fills its three     *)
(* buffers, and the distance it is meant to be.                             *)
(***************************************************************************)
EXTENDS Integers, Sequences, FiniteSetsExt

\* A word is a sequence of letters.
Letter(word, i) == SubSeq(word, i, i)

\* Slip: the row before the last stays the one the loop began with.
KeepOldest(rows, cur) == [rows EXCEPT !.prev = cur]
\* prev2, prev, cur = prev, cur, prev2
Rotate(rows, cur) == [prev2 |-> rows.prev, prev |-> cur]

\* One row: cell j + 1 of a row belongs to the first j letters of b.
Row(a, b, i, rows) ==
  LET swapped(j) == /\ i > 1 /\ j > 1
                    /\ Letter(a, i) = Letter(b, j - 1) /\ Letter(a, i - 1) = Letter(b, j)
      extend(cur, j) == Append(cur,
        Min({cur[j] + 1, rows.prev[j + 1] + 1,
             rows.prev[j] + IF Letter(a, i) = Letter(b, j) THEN 0 ELSE 1}
            \union IF swapped(j) THEN {rows.prev2[j - 1] + 1} ELSE {}))
      cur[j \in 0..Len(b)] == IF j = 0 THEN <<i>> ELSE extend(cur[j - 1], j)
  IN  cur[Len(b)]

damerauLevenshtein(a, b) ==
  LET zeros == [j \in 1..Len(b) + 1 |-> 0]
      first == [j \in 1..Len(b) + 1 |-> j - 1]
      rows[i \in 0..Len(a)] ==
        IF i = 0 THEN [prev2 |-> zeros, prev |-> first]
        ELSE LET last == rows[i - 1] IN Rotate(last, Row(a, b, i, last))
  IN  IF Len(a) = 0 THEN Len(b) ELSE IF Len(b) = 0 THEN Len(a) ELSE rows[Len(a)].prev[Len(b) + 1]

\* damerauSimilarity in millionths, rounded down: that keeps similarities of
\* words of less than a thousand letters apart when they differ, and the
\* threshold of 0.8 exact.
damerauSimilarity(a, b) ==
  LET longest == Max({Len(a), Len(b)})
  IN  IF longest = 0 THEN 1000000 ELSE (1000000 * (longest - damerauLevenshtein(a, b))) \div longest

-----------------------------------------------------------------------------
\* The reference: the least number of edits that turn a into b, where an edit
\* inserts, deletes or replaces one letter, or exchanges two neighbours and
\* leaves them alone afterwards.  Cell <<i, j>> says that the first i letters of
\* a have become the first j of b; equal letters are passed for free.
Cells(a, b) == (0..Len(a)) \X (0..Len(b))
Slide(a, b, c) ==
  {<<c[1] + k, c[2] + k>> : k \in {m \in 0..Len(a) - c[1] :
      c[2] + m <= Len(b) /\ \A l \in 1..m : Letter(a, c[1] + l) = Letter(b, c[2] + l)}}
Swappable(a, b, c) ==
  /\ c[1] + 2 <= Len(a) /\ c[2] + 2 <= Len(b)
  /\ Letter(a, c[1] + 1) = Letter(b, c[2] + 2)
  /\ Letter(a, c[1] + 2) = Letter(b, c[2] + 1)
Edited(a, b, c) ==
  {<<c[1] + 1, c[2]>>, <<c[1], c[2] + 1>>, <<c[1] + 1, c[2] + 1>>}
    \union IF Swappable(a, b, c) THEN {<<c[1] + 2, c[2] + 2>>} ELSE {}
OneMoreEdit(a, b, cells) ==
  UNION {Slide(a, b, c) : c \in (UNION {Edited(a, b, d) : d \in cells}) \intersect Cells(a, b)}
Edits(a, b) ==
  LET most == Len(a) + Len(b)
      least[left \in 0..most] == [cells \in SUBSET Cells(a, b) |->
        IF <<Len(a), Len(b)>> \in cells \/ left = 0 THEN 0
        ELSE 1 + least[left - 1][OneMoreEdit(a, b, cells)]]
  IN  least[most][Slide(a, b, <<0, 0>>)]
=============================================================================
