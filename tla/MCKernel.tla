------------------------------ MODULE MCKernel ------------------------------
(* Instances of EEKernel: games that start several threads at once and use no *)
(* semaphores, and quiet games that do.                                       *)
EXTENDS EEKernel, TLC

CONSTANTS h1, h2, h3

MCHost == {Main, h1, h2, h3}
MCDisciplines ==
    {{"serial_create", "each_once", "few"},
     {"serial_create", "each_once", "in_order", "few"},
     {"serial_create", "in_order", "few", "serial_start", "quiet"}}

\* Games under a fair scheduler stay within the table.
MCFitting == {d \cup {"fits"} : d \in MCDisciplines}
==============================================================================
