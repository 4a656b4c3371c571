------------------------------ MODULE MCSources ------------------------------
(* Sources for TLC, by itself. *)
EXTENDS Sources

Spec == SrcSpec
==============================================================================
