--------------------------- MODULE MCServerThreads ---------------------------
(***************************************************************************)
(* An instance of ServerThreads for TLC: what the settings file may say.    *)
(***************************************************************************)
EXTENDS ServerThreads

\* A server with a password and a port of its own, and one without a password
\* whose port is 0; Init adds the one without a settings file.
FileSettings == {[port |-> 4, password |-> "secret"], [port |-> 0, password |-> "nopassword"]}
=============================================================================
