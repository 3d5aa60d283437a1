----------------------------- MODULE MCBinsonApi -----------------------------
(***************************************************************************)
(* Small instances of BinsonApi: which buffers are loaded and which paths  *)
(* are looked up in them.                                                  *)
(***************************************************************************)
EXTENDS BinsonApi, BsonSamples

LoadedProper == WithDamaged(TypeDocs \o ShapeDocs \o <<Deep>>) \o <<SecondDamaged(Deep)>>
AllProper == LoadedProper

Loaded == LoadedProper \o EmptyDocs \o OtherFiles
AllImages == Loaded

\* Every shape of a document, whole and damaged.
LoadedShapes == WithDamaged(ShapeDocs \o <<Deep>>) \o <<SecondDamaged(Deep)>>
ShapeImages == LoadedShapes

AllPaths ==
  {<<s>> : s \in {a, b, ab, <<>>}} \cup
  {<<s, t>> : s \in {a, ab, <<>>}, t \in {a, b, <<>>}} \cup
  {<<a, b, t>> : t \in {a, ab, <<>>}}

\* One document and one path for the disagreement with the documentation.
OneNumber == <<Doc(Number(ab))>>
PathA == {<<a>>}
=============================================================================
