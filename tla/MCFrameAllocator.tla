-------------------------- MODULE MCFrameAllocator --------------------------
(* The frame allocator on two words of three bits and a partial third one. *)
EXTENDS FrameAllocator
=============================================================================
