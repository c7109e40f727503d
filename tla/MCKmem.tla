------------------------------ MODULE MCKmem --------------------------------
(* Zones of the kernel, sizes at the boundary of a page, and arguments     *)
(* that are refused; a zone for two stacks.                                *)
EXTENDS Kmem

MCRequest == {<<24, 48>>, <<3, 700>>, <<64, 10>>, <<0, 8>>}
MCStackRequest == <<24, 48>>
=============================================================================
