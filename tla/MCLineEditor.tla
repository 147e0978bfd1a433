---------------------------- MODULE MCLineEditor ----------------------------
(* A panel of five rows and four columns, one letter, a keyboard of two    *)
(* rows and two columns, and commands that print nothing, empty lines      *)
(* first, or more than a row. What the interface prints begins with text.  *)
EXTENDS LineEditor

MCLetters == {"x"}
MCOutputs == {<<>>, <<NL, NL, "x", NL>>, <<"x", "x", "x", "x", "x", NL>>}
MCMessages == {<<>>, <<"x", NL, "x", "x", NL>>}
MCPromptLens == {2, 5}
MCKeyCols == 1 .. 2
=============================================================================
