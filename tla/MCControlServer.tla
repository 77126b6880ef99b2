-------------------------- MODULE MCControlServer --------------------------
(* Constants for model checking ControlServer.                               *)
EXTENDS ControlServer

CONSTANT ip
=============================================================================
