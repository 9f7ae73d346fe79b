----------------------------- MODULE MCXmlCache -----------------------------
(* Instances of XmlCache for TLC. *)
EXTENDS XmlCache

AllCaches == (TopNodes \X Paths) \union OtherCaches
=============================================================================
