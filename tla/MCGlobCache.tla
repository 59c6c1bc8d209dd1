----------------------------- MODULE MCGlobCache -----------------------------
(***************************************************************************)
(* A small glob cache: patterns that overflow the byte bound in pairs and  *)
(* the entry bound in threes, a literal, and patterns at and over the      *)
(* length limit.                                                           *)
(***************************************************************************)
EXTENDS GlobCache, TLC

MCSyntax == {"/a*", "/b*", "/dd*", "/at*limit", "/over*limit"}
MCPath == MCSyntax \cup {"/literal"}
MCLength == ("/a*" :> 1) @@ ("/b*" :> 1) @@ ("/dd*" :> 3)
              @@ ("/at*limit" :> 6) @@ ("/over*limit" :> 7) @@ ("/literal" :> 1)
=============================================================================
