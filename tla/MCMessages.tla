------------------------------ MODULE MCMessages ------------------------------
(***************************************************************************)
(* Messages with strings of at most two bytes and one number.  The user    *)
(* name alone has two bytes, so that parsing can end inside of it.         *)
(***************************************************************************)
EXTENDS Messages, TLC

CONSTANTS header, other

Objects == {header, other}
Texts == [f \in StringField |->
            IF f = "username" THEN {<< >>, <<98, 99>>} ELSE {<<98>>}]
Numbers == {1}
Symmetry == Permutations(Object)

==============================================================================
