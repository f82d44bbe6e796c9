------------------------------ MODULE MCThreads ------------------------------
(* An instance of EEThreads: a game whose threads never start at once. *)
EXTENDS EEThreads

CONSTANTS h1, h2

MCHost == {Main, h1, h2}
MCDisciplines == {{"serial_create"}}
==============================================================================
