---------------------------- MODULE MCCameraTake ----------------------------
(* Two links, a clock of a few ticks: a dwell of one, a window of two.     *)
EXTENDS CameraTake

CONSTANT LastLink

MCLinks == 1..LastLink

=============================================================================
