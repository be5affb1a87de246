--------------------------- MODULE MCDmaAllocator ---------------------------
(* DmaAllocator with two callers over three pages of two bytes, sizes that are rounded up within
   a page and across pages, and a pool that a few freed allocations make look full. *)
EXTENDS DmaAllocator

=============================================================================
