------------------------------- MODULE MCHeap -------------------------------
(* Model checking Heap: three frames of twelve bytes with headers of two.  *)
EXTENDS Heap

\* One size for each case of the code: two that are rounded up and leave a
\* rest to split off or not, one that fills a frame, one that needs two
\* frames, and two that overflow, in create_arena and in align_size.
MCSize == {1, 3, 8, 9, 34, 40}
=============================================================================
