------------------------------ MODULE PythonNone ------------------------------
(* Python's None, which the reference models of sim/ use for "absent". *)
CONSTANT None
=============================================================================
