--------------------------- MODULE MCModProcess ---------------------------
(* Two thresholds and three hang episodes; the taskbars of two monitors and *)
(* a list of two delegates; three processes that start at once; two process *)
(* ids of the host.                                                         *)
EXTENDS ModProcess

CONSTANTS primary, secondary,   \* root grids
          pid1, pid2

Taskbars == {primary, secondary}
Pids == {pid1, pid2}
=============================================================================
