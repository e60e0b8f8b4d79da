------------------------------ MODULE MCSeeder ------------------------------
(***************************************************************************)
(* Instances of Seeder for TLC.                                            *)
(***************************************************************************)
EXTENDS Seeder, TLC

Region(kode, name) == [kode |-> kode, name |-> name]

Code(kode, postal) == [kode |-> kode, postal |-> postal]

\* A city and a district of the same name; then the district has another name,
\* a subdistrict whose ancestors are missing has gone, and another is given three
\* postal codes, one of them empty.
First  == [regions |-> <<Region(<<1>>, "Jabar"), Region(<<1, 1>>, "Kota Banjar"),
            Region(<<1, 1, 1>>, "Banjar"), Region(<<1, 1, 1, 1>>, "Situ"),
            Region(<<1, 2, 1, 1>>, "Karang")>>,
           postals |-> <<Code(<<1, 1, 1, 1>>, "46301")>>]
Second == [regions |-> <<Region(<<1>>, "Jabar"), Region(<<1, 1>>, "Kota Banjar"),
            Region(<<1, 1, 1>>, "Langen"), Region(<<1, 1, 1, 1>>, "Situ")>>,
           postals |-> <<Code(<<1, 1, 1, 1>>, "46301"), Code(<<1, 1, 1, 1>>, "46302"),
                         Code(<<1, 1, 1, 1>>, "")>>]
TwoDumps == {First, Second}

AllNames == {"Jabar", "Kota Banjar", "Banjar", "Situ", "Karang", "Langen"}
Kota     == {"Kota Banjar"}

\* The first revision does not strip the form of a city, the second one does.
TwoRevisions == << [n \in AllNames |-> n],
                   [n \in AllNames |-> IF n = "Kota Banjar" THEN "Banjar" ELSE n] >>
LastRevision == <<TwoRevisions[2]>>
=============================================================================
