------------------------------- MODULE MCBookSim -------------------------------
(* Small instance of BookSim: a dollar of four price units, a 10% fee.         *)
EXTENDS BookSim

MCRate == <<1, 10>>
MCLevels == [price : 1..(One - 1), size : {0, 1, 3}]
=============================================================================
