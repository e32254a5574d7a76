--------------------------- MODULE MCBracketOrder ---------------------------
(* A small instance of BracketOrder for TLC.                               *)
EXTENDS BracketOrder

Cents(s) == {Cent * c : c \in s}

(* Prices around the floor, where rounding is coarse, and less small ones; *)
(* a stale 170 / 185 bracket on a share at 310 is the one of the tests.    *)
SomePrices == Cents({25, 26, 29, 30, 33, 34, 50, 99, 150, 310})

(* Levels inside the bands of those prices, on their edges, and far away.  *)
SomeLevels == Cents({1, 20, 22, 24, 25, 26, 27, 28, 29, 31, 33, 34, 35, 38, 43, 45, 85,
                     97, 105, 115, 130, 170, 185, 309, 320})

SomeEquities == Cents({-100, 0, 1, 2499, 12500, 200000})
=============================================================================
