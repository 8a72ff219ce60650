----------------------------- MODULE MCUserland -----------------------------
(* Two disks, the first with a partition.                                  *)
EXTENDS Userland

MCOrder == <<"sda1", "sdb1">>
=============================================================================
