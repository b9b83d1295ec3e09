----------------------------- MODULE MCRagRefresh -----------------------------
(* Instances of RagRefresh for TLC: two sources of one collection.         *)
EXTENDS RagRefresh, TLC

CONSTANTS r1, r2

MCConfigured == <<"laws">>

MCManifest == <<"eu", "es">>

MCCollectionOf == [s \in {"eu", "es"} |-> "laws"]

MCFamilies == <<"guides", "norms">>

MCFamilyOf == [s \in {"eu", "es"} |-> IF s = "es" THEN "guides" ELSE "norms"]

(* A file of each source; then one of them removed, the other replaced, and *)
(* beside it one without text.                                             *)
MCFolders ==
  LET folder(eu, es, more) ==
        [s \in {"eu", "es"} |->
           [f \in Stems |-> IF s = "eu" THEN IF f = "a" THEN eu ELSE None
                            ELSE IF f = "a" THEN es ELSE more]]
  IN  {folder("old", "old", None), folder(None, "new", "scan")}
=============================================================================
