------------------------------ MODULE MCRepack ------------------------------
(* Instances of Repack: texts that are empty, plain, with a space or just  *)
(* one, with a character a shell must not see or a quote, and of the full  *)
(* length of their field.                                                  *)
EXTENDS Repack

MCTexts == {<<>>, <<"a">>, <<" ">>, <<"a", " ", "b">>, <<"(">>, <<"'">>, <<"a", "b", "a">>}
MCImages ==
    [version : {"3"}, cmdline : MCTexts, board : MCTexts, names : {<<>>}, pages : {1}]
    \cup [version : {"4"}, cmdline : MCTexts, board : MCTexts,
          names : {<<x>> : x \in MCTexts} \cup {<<x, y>> : x, y \in MCTexts}, pages : {1}]

=============================================================================
