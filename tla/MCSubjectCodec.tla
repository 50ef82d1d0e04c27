--------------------------- MODULE MCSubjectCodec ---------------------------
(***************************************************************************)
(* Instances of SubjectCodec for TLC: names of one or two characters, with *)
(* every delimiter that a clean name may have.                             *)
(***************************************************************************)
EXTENDS SubjectCodec

CONSTANT a

MCLetter == {a}
MCTable == <<a>>
MCNamespace == {<<a>>, <<a, a>>}
MCObject == {<<a>>, <<a, a>>, <<"@">>}
MCRelation == {<<a>>, <<a, a>>, <<":", a>>}
MCId == {<<a>>, <<":">>, <<a, ":">>, <<"@">>}
=============================================================================
