--------------------------- MODULE MCHttpdRequest ---------------------------
(***************************************************************************)
(* HttpdRequest with lines of five characters and words of two: request    *)
(* lines with each kind of character, headers of up to two lines of which  *)
(* some are as long as the buffer, and files of up to six characters.      *)
(***************************************************************************)
EXTENDS HttpdRequest

Newlines == {<<LF>>, <<CR>>, <<CR, LF>>}

Words == UNION {[1 .. n -> {"G", "x", " ", "?"}] : n \in 0 .. 3}
RequestLines ==
  {w \o e : w \in Words \cup {<<"P", " ", "x">>}, e \in {<< >>, <<LF>>}}

HeaderTexts ==
  {<< >>, <<"n">>, <<"x", "x", "x", "x">>, <<"n", "x", "x", "x", "x">>,
   <<"x", "x", "x", "x", "x", "n">>}
HeaderLines == {h \o e : h \in HeaderTexts, e \in Newlines}
Headers == {<< >>} \cup HeaderLines \cup {h \o g : h, g \in HeaderLines}

GetX == <<"G", " ", "x", LF>>
PostX == <<"P", " ", "x", CR, LF>>

Files == UNION {[1 .. n -> {"x", LF, NUL}] : n \in 0 .. 6}

Xs == [k \in 1 .. Size |-> "x"]
Spaces == [k \in 1 .. Size |-> IF k = 4 THEN "x" ELSE " "]

Inputs ==
  [stream : RequestLines \cup {r \o <<LF>> : r \in RequestLines},
   file : {<<"x">>}, garbage : {Xs, Spaces}]
    \cup [stream : {r \o h \o <<CR, LF, "x">> : r \in {GetX, PostX}, h \in Headers},
          file : {<<"x">>}, garbage : {Xs}]
    \cup [stream : {GetX \o <<LF>>}, file : Files, garbage : {Xs}]

==============================================================================
