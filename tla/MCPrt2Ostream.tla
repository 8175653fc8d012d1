---------------------------- MODULE MCPrt2Ostream ----------------------------
(* Instances of Prt2Ostream for TLC.                                        *)
EXTENDS Prt2Ostream
=============================================================================
