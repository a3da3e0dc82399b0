---------------------------- MODULE MCController ----------------------------
(* Model-checking instances of Controller. *)
EXTENDS Controller
=============================================================================
