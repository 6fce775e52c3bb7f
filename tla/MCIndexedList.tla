------------------------------ MODULE MCIndexedList ------------------------------
(***************************************************************************)
(* An instance of IndexedList for TLC: two indexes next to each other, one *)
(* between them and one that is made behind the second.                    *)
(***************************************************************************)
EXTENDS IndexedList

FourIndexes == {<<0>>, <<0, 0>>, <<1>>, <<2>>}

===============================================================================
