------------------------- MODULE MCDirectorySearch -------------------------
(* Two levels of two ranges and leaves of two logs; the last file number   *)
(* leaves the last leaf without any.                                       *)
EXTENDS DirectorySearch
=============================================================================
