------------------------------ MODULE MCFrontEnd ----------------------------
(* Texts of five alphabets; one document and three modules that import one *)
(* another in a cycle.                                                     *)
EXTENDS FrontEnd

MCFamilies ==
  {[chars |-> {"=", "+", "-", "!", "*", "%", "<", ">", "&", "|", ".", "?", ";", "#", "a"}, length |-> 3],
   [chars |-> {"0", "x", "e", "m", "b", ".", "+", "_"}, length |-> 4],
   [chars |-> {"dq", "{", "}", "\\"}, length |-> 6],
   [chars |-> {"'", "dq", "r", "nl", "nul", "a"}, length |-> 4],
   [chars |-> {"/", "*", "nl", "nul", "a"}, length |-> 5],
   [chars |-> {"a", "b", "e", "0"}, length |-> 4]}

MCImports == [d |-> <<<<"m1">>, <<"m1", "m3">>>>,
              m1 |-> <<<<"m2">>, <<"m3", "m2">>>>,
              m2 |-> <<<<"m1">>, <<>>>>,
              m3 |-> <<<<>>, <<>>>>]

MCMissing == {<<"m3", 2>>}
=============================================================================
