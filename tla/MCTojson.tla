------------------------------- MODULE MCTojson -------------------------------
(***************************************************************************)
(* Small instances of Tojson: which files testbinson is run on.            *)
(***************************************************************************)
EXTENDS Tojson, BsonSamples

Loaded ==
  WithDamaged(TypeDocs \o ShapeDocs \o <<Deep>> \o EmptyDocs) \o
  <<SecondDamaged(Deep)>> \o OtherFiles
AllFiles == Loaded
===============================================================================
