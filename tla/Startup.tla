------------------------------ MODULE Startup -------------------------------
(***************************************************************************)
(* From the first instruction to the first thread: kernel_init (module     *)
(* Boot) with the translation tables it runs on (module Pmap), in the      *)
(* order of arch/start.S and kern/main.c.  vm_configure and zone_init,     *)
(* between the topology and the interrupt controller, are module Kmem.     *)
(***************************************************************************)
EXTENDS Boot, Pmap

CONSTANT Machine     \* boards with their memories and peripherals

startupVars == <<vars, pmapVars>>

StartupInit == Init /\ PmapInit /\ <<board, config>> \in Machine

(* Mutant: the interrupt controller is started before it is mapped. *)
MapsNow_late ==
  \/ stage \in {"identity", "second", "kernel", "mmu"}
  \/ pc = "cpus" /\ stage \in {"init", "map_kernel", "map_console", "switch"}
  \/ pc = "redist" /\ stage \in {"map_gicd", "map_gicr"}

(* start.S makes its tables and then calls kernel_init; arm_vm_init        *)
(* follows platform_get_memory; machine_init_interrupts maps the           *)
(* controller and calls gic_interface_init.                                *)
MapsNow ==
  \/ stage \in {"identity", "second", "kernel", "mmu"}
  \/ pc = "cpus" /\ stage \in {"init", "map_kernel", "map_console", "switch"}
  \/ pc = "dist" /\ stage \in {"map_gicd", "map_gicr"}

Tables     == MapsNow /\ PmapNext /\ UNCHANGED vars
KernelInit == ~ MapsNow /\ Next /\ UNCHANGED pmapVars

(* One cpu, no interrupt before the timer's: each call returns.  GICR_WAKER *)
(* answers.                                                                *)
StartupFairness ==
  /\ WF_startupVars(Tables) /\ WF_startupVars(KernelInit /\ Step)
  /\ WF_startupVars(KernelInit /\ RedistWakes)

StartupSpec == StartupInit /\ [][Tables \/ KernelInit]_startupVars /\ StartupFairness
-----------------------------------------------------------------------------
Mapped(region) == Mapping(ttbr1, region) \in mapped

(* A driver finds its registers mapped in the tables in force: the console *)
(* from the first line that machine_parse_cpu_topology can log, the        *)
(* interrupt controller from the first write of gic_dist_init, and neither *)
(* is lost when later mappings are made.                                   *)
DevicesMapped ==
  /\ Parsed \/ pc \in {"map", "clusters", "cores"} => Mapped(config.console)
  /\ gic.dist => Mapped(config.gicd) /\ Mapped(config.gicr)
=============================================================================
