----------------------------- MODULE PythonNone -----------------------------
(***************************************************************************)
(* Python's None: no value, a missing key.                                 *)
(***************************************************************************)
CONSTANT None
=============================================================================
