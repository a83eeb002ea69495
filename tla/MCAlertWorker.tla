--------------------------- MODULE MCAlertWorker ---------------------------
(* Instances of AlertWorker for TLC.                                       *)
EXTENDS AlertWorker

\* Beyond both limits from the start.
LoudRows == {[packets |-> 3, ports |-> 2, ips |-> 2]}
=============================================================================
