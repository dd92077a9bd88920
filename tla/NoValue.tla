-------------------------------- MODULE NoValue --------------------------------
(* Python's None: the value of what is not there.  It is declared once for *)
(* the modules that a common instance extends.                             *)
CONSTANT None
===============================================================================
