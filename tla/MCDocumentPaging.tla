--------------------------- MODULE MCDocumentPaging ---------------------------
(***************************************************************************)
(* DocumentPaging with four documents in pages of two: two full pages and  *)
(* an empty one, or one that is not full.                                  *)
(***************************************************************************)
EXTENDS DocumentPaging
=============================================================================
