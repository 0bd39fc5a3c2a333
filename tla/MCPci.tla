------------------------------- MODULE MCPci --------------------------------
(* Instance of Pci for TLC: beside the bridges every place is filled, or   *)
(* none is, or those that only a device with several functions shows; no    *)
(* device has several functions, all have, or those of two buses have.     *)
EXTENDS Pci

MCPopulations == {{}, Addresses, {p \in Addresses : p.func = 1}}
MCMultiples == {{}, Addresses, {p \in Addresses : p.bus \in {0, 3}}}

=============================================================================
