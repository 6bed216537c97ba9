----------------------------- MODULE MCDatabase -----------------------------
(* Three contents, three levels of nesting and six frames: enough for        *)
(* several leftover frames with one name below and above those in use.       *)
EXTENDS Database

MCContents == {"empty", "a", "b"}
MCNewDatabase == "empty"
=============================================================================
