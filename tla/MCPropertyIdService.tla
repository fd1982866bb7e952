------------------------ MODULE MCPropertyIdService ------------------------
(* Three properties in up to three pages, some of them empty or repeated.  *)
EXTENDS PropertyIdService
=============================================================================
