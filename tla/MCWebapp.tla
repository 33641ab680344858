------------------------------ MODULE MCWebapp -------------------------------
(* A small instance of Webapp. *)
EXTENDS Webapp

CONSTANTS r1, r2, r3, c1, c2

\* Two requests for one customer, and one for another.
CustomerOfRequest == r1 :> c1 @@ r2 :> c1 @@ r3 :> c2

\* The two requests of the first customer are alike.
Alike == Permutations({r1, r2})

\* Four cells, and five rows of four columns in which eleven positions of four of
\* the cells pass for a rectangle:  . # # #
\*                                  # # # .
\*                                  . # # #
\*                                  . . . #
\*                                  . . . #
FourCells == <<<<<<1, 1>>, <<1, 1>>>>, <<<<1, 1>>, <<1, 1>>>>>>
FiveRows ==
    << <<<<1, 1>>, <<3, 1>>>>, <<<<3, 1>>, <<1, 1>>>>, <<<<1, 1>>, <<3, 1>>>>, <<<<3, 2>>, <<1, 2>>>>, <<>> >>
\* When the first cell of the second row is deleted, the next one covers a position of
\* the cell that spans both rows:  a b b c c c    a b b c c c
\*                                 d b b e e f    e e b f
TwoRows == << <<<<1, 1>>, <<2, 2>>, <<3, 1>>>>, <<<<1, 1>>, <<2, 1>>, <<1, 1>>>> >>
Documents == {FourCells, FiveRows, TwoRows}
InElements == {<<2, 1>>}
Commands == FourCells :> 3 @@ FiveRows :> 1 @@ TwoRows :> 2

\* a bb a bb a
Spellings == << <<"a">>, <<"b", "b">>, <<"a">>, <<"b", "b">>, <<"a">> >>
Answers == {<<"a">>, <<"b", "b">>, <<"c", "c", "c">>}
=============================================================================
