----------------------------- MODULE MCLibkern ------------------------------
(* The parts of the kernel that stand alone: the lists, the C library and  *)
(* libfdt of libkern, and a zone, which is built on the lists.  They share *)
(* no state, so a behaviour uses one of them and leaves the others alone.  *)
EXTENDS ListLib, TinyLibc, Zalloc, MCFdtBlob

VARIABLE uses

(* NUL, '-', '0', '2', 'x' *)
MCMemory == {Append(m, NUL) : m \in [1..5 -> {NUL, 45, 48, 50, 120}]}

NoBlob == Start(fdt_create_with_flags(112, 0).fdt, <<>>, 0)

LibkernInit ==
  /\ Init /\ ListInit /\ mem = <<NUL>>
  /\ \/ uses \in {"lists", "zone", "libc"} /\ FdtInit({NoBlob})
     \/ uses = "libfdt" /\ FdtInit(Blobs)

UseLists  == uses = "lists" /\ ListNext /\ UNCHANGED <<vars, mem, fdtVars, uses>>
UseZone   == uses = "zone" /\ Next /\ UNCHANGED <<listVars, mem, fdtVars, uses>>
UseLibc   == uses = "libc" /\ mem = <<NUL>> /\ mem' \in MCMemory /\ UNCHANGED <<listVars, vars, fdtVars, uses>>
UseLibfdt == uses = "libfdt" /\ FdtNext /\ UNCHANGED <<listVars, vars, mem, uses>>

LibkernSpec ==
  LibkernInit /\ [][UseLists \/ UseZone \/ UseLibc \/ UseLibfdt]_<<listVars, vars, mem, fdtVars, uses>>
=============================================================================
