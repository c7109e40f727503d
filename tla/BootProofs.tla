----------------------------- MODULE BootProofs -----------------------------
(***************************************************************************)
(* For every board, device tree and number of cpus: no interrupt is        *)
(* enabled before everything it needs has been set up.                     *)
(*                                                                         *)
(* kernel_init is a sequence of calls, so the inductive invariant says     *)
(* what has been established by each stage pc names.  What later stages    *)
(* rely on comes from far apart: that the record the scheduler finds is    *)
(* this cpu's needs the logical id given by machine_parse_cpu_topology to  *)
(* be the number in MPIDR_EL1 (TopoInv), and that the redistributor polled *)
(* is this cpu's needs the search to stop at the least match (Least).      *)
(***************************************************************************)
EXTENDS Boot, WellFoundedInduction, TLAPS

(* The stages from each call of kernel_init on. *)
FromTimers    == {"timers", "running"}
FromMain      == {"main"} \cup FromTimers
FromTail      == {"tail"} \cup FromMain
FromThread    == {"thread"} \cup FromTail
FromTask      == {"task"} \cup FromThread
FromProcessor == {"processor"} \cup FromTask
FromCpuif     == {"cpuif"} \cup FromProcessor
FromRedist    == {"redist", "poll"} \cup FromCpuif
FromDist      == {"dist"} \cup FromRedist

Cpu    == 0 .. CPU_NUMBER_MAX - 1
Record == [num : Nat, threading : BOOLEAN, thread : BOOLEAN, processor : Int]
CpuType == [cpu_id : Nat, cluster : Nat, cpu_phys_id : Nat]

(* Cpus are numbered in the order they are found, and the boot cpu's       *)
(* index is its number.                                                    *)
TopoInv ==
  /\ topo \in [cpus : Seq(CpuType), clusters : Seq([id : Nat, num : Nat]), max_cpu_id : Nat,
               boot_cpu : Int]
  /\ cluster \in [id : Nat, num : Nat]
  /\ \A i \in DOMAIN topo.cpus : topo.cpus[i].cpu_id = i - 1
  /\ topo.boot_cpu # NONE => topo.boot_cpu = board.mpidr /\ board.mpidr < Len(topo.cpus)
  /\ pc \in {"register"} \cup FromDist => topo.boot_cpu # NONE

(* The redistributors with this cpu's affinity. *)
Own(id) == board.redist[id + 1] = board.mpidr

GicInv ==
  /\ gic \in [max : Nat, dist : BOOLEAN, woken : SUBSET Nat, awake : SUBSET Nat,
              cpuif : BOOLEAN, group1 : SUBSET Nat, enabled : SUBSET Nat]
  /\ gic.awake \subseteq gic.woken /\ \A id \in gic.woken : Own(id)
  /\ gic.enabled \subseteq gic.group1 /\ (gic.enabled # {} => pc = "running")
  /\ pc \in FromRedist => gic.dist
  /\ pc \in FromCpuif => gic.awake # {}
  /\ pc \in FromProcessor => gic.cpuif

CpuInv ==
  /\ entry \in [Cpu -> Record]
  /\ boot_cpu \in Record
  /\ pc \in FromDist => /\ board.mpidr \in Cpu /\ boot_cpu.num = board.mpidr
                        /\ entry[board.mpidr].num = board.mpidr
  /\ pc \in FromTask => processors = <<0>> /\ entry[0].processor = 0
  /\ pc \notin FromTask \cup {"panic"} => processors = <<>>
  /\ pc \in FromThread => tasks = <<0>>
  /\ pc \notin FromThread \cup {"panic"} => tasks = <<>>
  /\ pc \in FromTail => kthread
  /\ pc \in FromMain => board.mpidr = 0 /\ entry[0].thread
  /\ pc \in FromTimers => entry[0].threading

BootInv == board \in Board /\ TopoInv /\ GicInv /\ CpuInv

(* A set of numbers that is not empty has a least one, so the search of    *)
(* gic_get_redist_id has a result.                                         *)
LEMMA Least ==
  ASSUME NEW T, T \subseteq Nat, T # {}
  PROVE  \E x \in T : \A y \in T : x <= y
<1>1. PICK x \in T : \A y \in T : ~ (<<y, x>> \in OpToRel(<, Nat))
  BY Zenon, WFMin, NatLessThanWellFounded
<1>2. \A y \in T : <<y, x>> \in Nat \X Nat /\ x \in Nat /\ y \in Nat
  BY Zenon
<1>3. \A y \in T : ~ (y < x)
  BY Zenon, <1>1, <1>2 DEF OpToRel
<1>4. QED
  BY <1>2, <1>3

(* What gic_get_redist_id returns is no redistributor, or this cpu's.      *)
LEMMA RedistOwn ==
  ASSUME NEW max \in Nat, gic_get_redist_id(max) # NONE
  PROVE  gic_get_redist_id(max) \in Nat /\ Own(gic_get_redist_id(max))
<1> DEFINE found == {i \in 0 .. max : i < Len(board.redist)
                                    /\ board.redist[i + 1] = board.mpidr}
<1>1. found # {}
  BY Zenon DEF gic_get_redist_id
<1>2. found \subseteq Nat
  OBVIOUS
<1>3. \E i \in found : \A j \in found : i <= j
  <2> HIDE DEF found
  <2>1. QED
    BY Zenon, <1>1, <1>2, Least
<1>4. gic_get_redist_id(max) \in found
  BY Zenon, <1>1, <1>3 DEF gic_get_redist_id
<1>5. QED
  BY Zenon, <1>2, <1>4 DEF Own

(* The numbers of a board.                                                 *)
LEMMA BoardFacts ==
  ASSUME BootInv
  PROVE  board.mpidr \in Nat /\ Timer \in Nat /\ IntId \subseteq Nat /\ 0 \in Cpu
BY BootAssumption DEF BootInv, Cpu

(* cpu_register stores the record of a cpu with a valid number.            *)
LEMMA Registered ==
  ASSUME CpuInv, NEW cpu \in Record, cpu_register(cpu)
  PROVE  entry' \in [Cpu -> Record] /\ (Valid(cpu) => cpu.num \in Cpu /\ entry'[cpu.num] = cpu)
<1>1. entry \in [Cpu -> Record] /\ cpu.num \in Nat
  BY Zenon DEF CpuInv, Record
<1>2. Valid(cpu) => cpu.num \in Cpu
  BY <1>1, BootAssumption DEF Valid, Cpu
<1>3. QED
  BY Zenon, <1>1, <1>2 DEF cpu_register

(* The logical id of the boot cpu is its number in MPIDR_EL1.              *)
LEMMA BootCpuNum ==
  ASSUME BootInv, pc = "register"
  PROVE  machine_get_boot_cpu_num = board.mpidr
<1>1. /\ topo.boot_cpu = board.mpidr /\ board.mpidr < Len(topo.cpus) /\ topo.cpus \in Seq(CpuType)
      /\ \A i \in DOMAIN topo.cpus : topo.cpus[i].cpu_id = i - 1
  BY Zenon DEF BootInv, TopoInv
<1>2. board.mpidr + 1 \in DOMAIN topo.cpus /\ (board.mpidr + 1) - 1 = board.mpidr
  BY <1>1, BoardFacts
<1>3. QED
  BY Zenon, <1>1, <1>2 DEF machine_get_boot_cpu_num

(* gic_irq_register and machine_init_timers: the interrupt is in group 1   *)
(* if it is enabled.                                                       *)
LEMMA RegisterGic ==
  ASSUME BootInv, NEW intid \in Nat, Register(intid), board' = board, pc' = "running",
         pc \in FromTimers
  PROVE  GicInv'
<1> DEFINE new == [gic EXCEPT !.group1 = @ \cup {intid}, !.enabled = @ \cup {intid}]
<1>1. gic' = gic \/ gic' = new
  BY Zenon DEF Register
<1>2. GicInv
  BY Zenon DEF BootInv
<1> USE DEF FromTimers, FromMain, FromTail, FromThread, FromTask, FromProcessor, FromCpuif,
            FromRedist
<1>3. CASE gic' = gic
  BY Zenon, <1>2, <1>3 DEF GicInv, Own
<1>4. CASE gic' = new
  BY Zenon, <1>2, <1>4 DEF GicInv, Own
<1>5. QED
  BY Zenon, <1>1, <1>3, <1>4

(* A step of kernel_init, of the hardware or of a later call keeps the     *)
(* invariant.                                                              *)
LEMMA BootStep ==
  ASSUME BootInv, [Next]_vars
  PROVE  BootInv'
<1> USE DEF FromTimers, FromMain, FromTail, FromThread, FromTask, FromProcessor, FromCpuif,
            FromRedist, FromDist, Goto, Check, rest, cpuVars, topoVars
<1>0. board' = board /\ board' \in Board
  BY Zenon DEF BootInv, Next, Step, vars,
         cpu_create, CheckArgs, platform_get_memory, FindCpus, FindMap, NextCluster,
         NextCore, EndCluster, EndTopology, RegisterBootCpu, gic_dist_init,
         gic_redist_init, PollWaker, gic_cpuif_init, processor_init, task_init,
         kernel_thread_create, sched_tail, MainFlag, machine_init_timers,
         RedistWakes, PollAsleep, machine_register_interrupt, gic_irq_disable, Halted
<1>1. CASE cpu_create
  <2> DEFINE cpu == [NoCpu EXCEPT !.num = board.mpidr]
  <2>1. cpu \in Record
    <3>1. NoCpu \in Record
      BY DEF NoCpu, NONE, Record
    <3>2. QED
      BY Zenon, <3>1, BoardFacts DEF Record
  <2>2. entry' \in [Cpu -> Record]
    BY Zenon, <1>1, <2>1, Registered DEF cpu_create, machine_get_cpu_num, BootInv
  <2>3. boot_cpu' = cpu
    BY Zenon, <1>1 DEF cpu_create, machine_get_cpu_num
  <2> HIDE DEF cpu
  <2>4. CpuInv'
    BY Zenon, <1>1, <2>1, <2>2, <2>3 DEF cpu_create, BootInv, CpuInv
  <2>5. TopoInv' /\ GicInv'
    BY Zenon, <1>1, <1>0 DEF cpu_create, BootInv, TopoInv, GicInv, Own
  <2>6. QED
    BY Zenon, <1>0, <2>4, <2>5 DEF BootInv
<1>2. CASE CheckArgs
  <2>1. TopoInv' /\ GicInv' /\ CpuInv'
    BY Zenon, <1>2, <1>0 DEF CheckArgs, BootInv, TopoInv, GicInv, Own, CpuInv
  <2>2. QED
    BY Zenon, <1>0, <2>1 DEF BootInv
<1>3. CASE platform_get_memory
  <2>1. TopoInv' /\ GicInv' /\ CpuInv'
    BY Zenon, <1>3, <1>0 DEF platform_get_memory, BootInv, TopoInv, GicInv, Own, CpuInv
  <2>2. QED
    BY Zenon, <1>0, <2>1 DEF BootInv
<1>4. CASE FindCpus
  <2>1. TopoInv' /\ GicInv' /\ CpuInv'
    BY Zenon, <1>4, <1>0 DEF FindCpus, BootInv, TopoInv, GicInv, Own, CpuInv
  <2>2. QED
    BY Zenon, <1>0, <2>1 DEF BootInv
<1>5. CASE FindMap
  <2>1. TopoInv' /\ GicInv' /\ CpuInv'
    BY Zenon, <1>5, <1>0 DEF FindMap, BootInv, TopoInv, GicInv, Own, CpuInv
  <2>2. QED
    BY Zenon, <1>0, <2>1 DEF BootInv
<1>6. CASE NextCluster
  <2>1. TopoInv' /\ GicInv' /\ CpuInv'
    BY <1>6, <1>0 DEF NextCluster, BootInv, TopoInv, GicInv, Own, CpuInv
  <2>2. QED
    BY Zenon, <1>0, <2>1 DEF BootInv
<1>7. CASE NextCore
  <2>1. CASE StrayEntry
    <3>1. TopoInv' /\ GicInv' /\ CpuInv'
      BY Zenon, <1>7, <1>0, <2>1 DEF NextCore, StrayEntry, BootInv, TopoInv, GicInv, Own, CpuInv
    <3>2. QED
      BY Zenon, <1>0, <3>1 DEF BootInv
  <2>2. CASE pc' = pc /\ AddCpu(Len(topo.cpus)) /\ cluster' = [cluster EXCEPT !.num = @ + 1]
    <3> DEFINE n == Len(topo.cpus)
               c == [cpu_id |-> n, cluster |-> cluster.id, cpu_phys_id |-> 0]
               new == Append(topo.cpus, c)
               max == IF n > topo.max_cpu_id THEN n ELSE topo.max_cpu_id
               boot == IF n = board.mpidr THEN n ELSE topo.boot_cpu
    <3>1. /\ topo' = [topo EXCEPT !.cpus = new, !.max_cpu_id = max, !.boot_cpu = boot]
          /\ cluster' = [cluster EXCEPT !.num = @ + 1] /\ pc' = "cores"
      BY Zenon, <1>7, <2>2 DEF NextCore, AddCpu, machine_read_prop
    <3>2. TopoInv /\ board.mpidr \in Nat
      BY Zenon, BoardFacts DEF BootInv
    <3>3. topo.cpus \in Seq(CpuType) /\ n \in Nat /\ c \in CpuType /\ cluster' \in [id : Nat, num : Nat]
      BY <3>1, <3>2 DEF TopoInv, CpuType
    <3>4. /\ new \in Seq(CpuType) /\ Len(new) = n + 1
          /\ \A i \in 1 .. n + 1 : new[i].cpu_id = i - 1
      BY <3>2, <3>3 DEF TopoInv
    <3>5. /\ max \in Nat /\ boot \in Int
          /\ boot # NONE => boot = board.mpidr /\ board.mpidr < n + 1
      BY <3>2, <3>3 DEF TopoInv
    <3> HIDE DEF c, new, max, boot
    <3>6. /\ topo'.cpus = new /\ topo'.boot_cpu = boot
          /\ topo' \in [cpus : Seq(CpuType), clusters : Seq([id : Nat, num : Nat]),
                        max_cpu_id : Nat, boot_cpu : Int]
      BY Zenon, <3>1, <3>2, <3>4, <3>5 DEF TopoInv
    <3>7. TopoInv'
      BY <1>0, <3>1, <3>3, <3>4, <3>5, <3>6 DEF TopoInv
    <3>8. GicInv' /\ CpuInv'
      BY Zenon, <1>7, <1>0, <2>2 DEF NextCore, BootInv, GicInv, Own, CpuInv
    <3>9. QED
      BY Zenon, <1>0, <3>7, <3>8 DEF BootInv
  <2>3. QED
    BY Zenon, <1>7, <2>1, <2>2 DEF NextCore
<1>8. CASE EndCluster
  <2>1. topo.clusters \in Seq([id : Nat, num : Nat]) /\ cluster \in [id : Nat, num : Nat]
    BY Zenon DEF BootInv, TopoInv
  <2>2. Append(topo.clusters, cluster) \in Seq([id : Nat, num : Nat])
    BY <2>1
  <2>3. TopoInv'
    BY Zenon, <1>8, <1>0, <2>2 DEF EndCluster, BootInv, TopoInv
  <2>4. GicInv' /\ CpuInv'
    BY Zenon, <1>8, <1>0 DEF EndCluster, BootInv, GicInv, Own, CpuInv
  <2>5. QED
    BY Zenon, <1>0, <2>3, <2>4 DEF BootInv
<1>9. CASE EndTopology
  <2>1. TopoInv' /\ GicInv' /\ CpuInv'
    BY Zenon, <1>9, <1>0 DEF EndTopology, BootInv, TopoInv, GicInv, Own, CpuInv
  <2>2. QED
    BY Zenon, <1>0, <2>1 DEF BootInv
<1>10. CASE RegisterBootCpu
  <2> DEFINE cpu == [boot_cpu EXCEPT !.num = board.mpidr]
  <2>1. pc = "register" /\ boot_cpu' = cpu /\ cpu_register(cpu)
        /\ pc' \in {"dist", "panic"} /\ (pc' = "dist" => Valid(cpu))
    BY Zenon, <1>10, BootCpuNum DEF RegisterBootCpu
  <2>2. cpu \in Record /\ cpu.num = board.mpidr
    BY Zenon, BoardFacts DEF BootInv, CpuInv, Record
  <2>3. entry' \in [Cpu -> Record] /\ (pc' = "dist" => cpu.num \in Cpu /\ entry'[cpu.num] = cpu)
    BY Zenon, <2>1, <2>2, Registered DEF BootInv
  <2> HIDE DEF cpu
  <2>4. CpuInv'
    BY Zenon, <1>10, <1>0, <2>1, <2>2, <2>3 DEF RegisterBootCpu, BootInv, CpuInv
  <2>5. TopoInv' /\ GicInv'
    BY Zenon, <1>10, <1>0, <2>1 DEF RegisterBootCpu, BootInv, TopoInv, GicInv, Own
  <2>6. QED
    BY Zenon, <1>0, <2>4, <2>5 DEF BootInv
<1>11. CASE gic_dist_init
  <2>1. TopoInv' /\ GicInv' /\ CpuInv'
    BY Zenon, <1>11, <1>0 DEF gic_dist_init, BootInv, TopoInv, GicInv, Own, CpuInv
  <2>2. QED
    BY Zenon, <1>0, <2>1 DEF BootInv
<1>12. CASE gic_redist_init
  <2> DEFINE id == gic_get_redist_id(topo.max_cpu_id)
  <2>1. topo.max_cpu_id \in Nat /\ GicInv
    BY Zenon DEF BootInv, TopoInv
  <2>2. id # NONE => id \in Nat /\ Own(id)
    BY Zenon, <2>1, RedistOwn
  <2>3. /\ pc = "redist" /\ pc' \in {"poll", "panic"}
        /\ gic' = [gic EXCEPT !.max = topo.max_cpu_id,
                              !.woken = IF id = NONE THEN @ ELSE @ \cup {id}]
    BY Zenon, <1>12 DEF gic_redist_init
  <2> HIDE DEF id
  <2>4. GicInv'
    BY Zenon, <1>0, <2>1, <2>2, <2>3 DEF GicInv, Own
  <2>5. TopoInv' /\ CpuInv'
    BY Zenon, <1>12, <1>0, <2>3 DEF gic_redist_init, BootInv, TopoInv, CpuInv
  <2>6. QED
    BY Zenon, <1>0, <2>4, <2>5 DEF BootInv
<1>13. CASE PollWaker
  <2>1. gic.awake # {}
    BY Zenon, <1>13 DEF PollWaker
  <2>2. TopoInv' /\ GicInv' /\ CpuInv'
    BY Zenon, <1>13, <1>0, <2>1 DEF PollWaker, BootInv, TopoInv, GicInv, Own, CpuInv
  <2>3. QED
    BY Zenon, <1>0, <2>2 DEF BootInv
<1>14. CASE gic_cpuif_init
  <2>1. TopoInv' /\ GicInv' /\ CpuInv'
    BY Zenon, <1>14, <1>0 DEF gic_cpuif_init, BootInv, TopoInv, GicInv, Own, CpuInv
  <2>2. QED
    BY Zenon, <1>0, <2>1 DEF BootInv
<1>15. CASE processor_init
  <2>1. /\ pc = "processor" /\ pc' = "task" /\ processors' = <<0>>
        /\ entry' = [entry EXCEPT ![0].processor = 0]
    BY <1>15 DEF processor_init, primary_cpu_id, ValidId, cpu_count, BootInv, CpuInv
  <2>2. entry \in [Cpu -> Record] /\ 0 \in Cpu
    BY Zenon, BoardFacts DEF BootInv, CpuInv
  <2>3. entry' \in [Cpu -> Record] /\ \A n \in Cpu : entry'[n].num = entry[n].num
        /\ entry'[0].processor = 0
    BY <2>1, <2>2 DEF Record
  <2>4. CpuInv'
    BY Zenon, <1>15, <1>0, <2>1, <2>3 DEF processor_init, BootInv, CpuInv
  <2>5. TopoInv' /\ GicInv'
    BY Zenon, <1>15, <1>0, <2>1 DEF processor_init, BootInv, TopoInv, GicInv, Own
  <2>6. QED
    BY Zenon, <1>0, <2>4, <2>5 DEF BootInv
<1>16. CASE task_init
  <2>1. TopoInv' /\ GicInv' /\ CpuInv'
    BY <1>16, <1>0 DEF task_init, BootInv, TopoInv, GicInv, Own, CpuInv
  <2>2. QED
    BY Zenon, <1>0, <2>1 DEF BootInv
<1>17. CASE kernel_thread_create
  <2>1. TopoInv' /\ GicInv' /\ CpuInv'
    BY Zenon, <1>17, <1>0 DEF kernel_thread_create, BootInv, TopoInv, GicInv, Own, CpuInv
  <2>2. QED
    BY Zenon, <1>0, <2>1 DEF BootInv
<1>18. CASE sched_tail
  <2>1. /\ pc = "tail" /\ pc' \in {"main", "panic"} /\ (pc' = "main" => board.mpidr <= 0)
        /\ kthread /\ board.mpidr \in Cpu
        /\ entry' = IF board.mpidr <= 0 THEN [entry EXCEPT ![board.mpidr].thread = TRUE] ELSE entry
    BY Zenon, <1>18 DEF sched_tail, machine_get_cpu_num, ValidId, cpu_count, BootInv, CpuInv
  <2>2. entry \in [Cpu -> Record] /\ 0 \in Cpu /\ board.mpidr \in Nat
    BY Zenon, BoardFacts DEF BootInv, CpuInv
  <2>3. /\ entry' \in [Cpu -> Record]
        /\ \A n \in Cpu : entry'[n].num = entry[n].num /\ entry'[n].processor = entry[n].processor
        /\ pc' = "main" => board.mpidr = 0 /\ entry'[0].thread
    <3>1. CASE board.mpidr = 0
      <4>1. entry' = [entry EXCEPT ![0] = [@ EXCEPT !.thread = TRUE]]
        BY <2>1, <3>1
      <4>2. QED
        BY Zenon, <2>2, <3>1, <4>1 DEF Record
    <3>2. CASE board.mpidr # 0
      BY <2>1, <2>2, <3>2
    <3>3. QED
      BY Zenon, <3>1, <3>2
  <2>4. CpuInv'
    BY Zenon, <1>18, <1>0, <2>1, <2>2, <2>3 DEF sched_tail, BootInv, CpuInv
  <2>5. TopoInv' /\ GicInv'
    BY Zenon, <1>18, <1>0, <2>1 DEF sched_tail, BootInv, TopoInv, GicInv, Own
  <2>6. QED
    BY Zenon, <1>0, <2>4, <2>5 DEF BootInv
<1>19. CASE MainFlag
  <2>1. /\ pc = "main" /\ pc' \in {"timers", "panic"} /\ board.mpidr = 0 /\ boot_cpu.num = 0
        /\ entry' = [entry EXCEPT ![0].threading = TRUE]
    BY Zenon, <1>19 DEF MainFlag, BootInv, CpuInv
  <2>2. entry \in [Cpu -> Record] /\ 0 \in Cpu
    BY Zenon, BoardFacts DEF BootInv, CpuInv
  <2>3. /\ entry' \in [Cpu -> Record] /\ entry'[0].threading
        /\ entry'[0].num = entry[0].num /\ entry'[0].processor = entry[0].processor
        /\ entry'[0].thread = entry[0].thread
    BY Zenon, <2>1, <2>2 DEF Record
  <2>4. CpuInv'
    BY Zenon, <1>19, <1>0, <2>1, <2>2, <2>3 DEF MainFlag, BootInv, CpuInv
  <2>5. TopoInv' /\ GicInv'
    BY Zenon, <1>19, <1>0, <2>1 DEF MainFlag, BootInv, TopoInv, GicInv, Own
  <2>6. QED
    BY Zenon, <1>0, <2>4, <2>5 DEF BootInv
<1>20. CASE machine_init_timers
  <2>1. GicInv'
    BY Zenon, <1>20, <1>0, BoardFacts, RegisterGic DEF machine_init_timers
  <2>2. TopoInv' /\ CpuInv'
    BY Zenon, <1>20, <1>0 DEF machine_init_timers, BootInv, TopoInv, CpuInv
  <2>3. QED
    BY Zenon, <1>0, <2>1, <2>2 DEF BootInv
<1>21. CASE RedistWakes
  <2>1. PICK id \in gic.woken : gic' = [gic EXCEPT !.awake = @ \cup {id}]
    BY Zenon, <1>21 DEF RedistWakes
  <2>2. pc' = pc /\ UNCHANGED <<cpuVars, topoVars, rest>>
    BY Zenon, <1>21 DEF RedistWakes
  <2>3. GicInv'
    BY Zenon, <1>0, <2>1, <2>2 DEF BootInv, GicInv, Own
  <2>4. TopoInv' /\ CpuInv'
    BY Zenon, <1>0, <2>2 DEF BootInv, TopoInv, CpuInv
  <2>5. QED
    BY Zenon, <1>0, <2>3, <2>4 DEF BootInv
<1>22. CASE machine_register_interrupt
  <2>1. GicInv'
    BY Zenon, <1>22, <1>0, BoardFacts, RegisterGic DEF machine_register_interrupt
  <2>2. pc' = pc /\ UNCHANGED <<cpuVars, topoVars, rest>>
    BY Zenon, <1>22 DEF machine_register_interrupt
  <2>3. TopoInv' /\ CpuInv'
    BY Zenon, <1>0, <2>2 DEF BootInv, TopoInv, CpuInv
  <2>4. QED
    BY Zenon, <1>0, <2>1, <2>3 DEF BootInv
<1>23. CASE gic_irq_disable
  <2>1. PICK intid \in IntId : Disable(intid)
    BY Zenon, <1>23 DEF gic_irq_disable
  <2>2. pc' = pc /\ UNCHANGED <<cpuVars, topoVars, rest>>
    BY Zenon, <1>23 DEF gic_irq_disable
  <2>3. TopoInv' /\ CpuInv'
    BY Zenon, <1>0, <2>2 DEF BootInv, TopoInv, CpuInv
  <2>4. GicInv'
    <3>1. CASE gic' = gic
      BY Zenon, <1>0, <2>2, <3>1 DEF BootInv, GicInv, Own
    <3>2. CASE gic' = [gic EXCEPT !.enabled = @ \ (gic.enabled \cup {intid})]
      BY Zenon, <1>0, <2>2, <3>2 DEF BootInv, GicInv, Own
    <3>3. QED
      BY Zenon, <2>1, <3>1, <3>2 DEF Disable
  <2>5. QED
    BY Zenon, <1>0, <2>3, <2>4 DEF BootInv
<1>24. CASE UNCHANGED vars
  BY Zenon, <1>24 DEF vars, BootInv, TopoInv, GicInv, Own, CpuInv
<1>25. QED
  BY Zenon, <1>1, <1>2, <1>3, <1>4, <1>5, <1>6, <1>7, <1>8, <1>9, <1>10, <1>11,
     <1>12, <1>13, <1>14, <1>15, <1>16, <1>17, <1>18, <1>19, <1>20, <1>21, <1>22,
     <1>23, <1>24
     DEF Next, Step, PollAsleep, Halted

(* kernel_init is entered with nothing set up and nothing enabled.         *)
LEMMA BootInit == Init => BootInv
<1> SUFFICES ASSUME Init PROVE BootInv
  BY Zenon
<1> USE DEF FromTimers, FromMain, FromTail, FromThread, FromTask, FromProcessor, FromCpuif,
            FromRedist, FromDist
<1>1. TopoInv
  BY DEF Init, TopoInv, NONE
<1>2. GicInv
  BY Zenon DEF Init, GicInv
<1>3. NoCpu \in Record
  BY DEF NoCpu, Record, NONE
<1>4. CpuInv
  BY Zenon, <1>3 DEF Init, CpuInv, Cpu
<1>5. QED
  BY Zenon, <1>1, <1>2, <1>4 DEF Init, BootInv

(* kernel_init has established what each stage needs when it reaches it.   *)
THEOREM BootInductive == Spec => []BootInv
<1>1. BootInv /\ [Next]_vars => BootInv'
  BY Zenon, BootStep
<1>2. QED
  BY <1>1, BootInit, PTL DEF Spec

(* The invariant gives the record cpu_get_current finds, field by field.   *)
LEMMA BootConfigured ==
  ASSUME BootInv PROVE InterruptsConfigured
<1> SUFFICES ASSUME gic.enabled # {}
             PROVE  /\ gic.dist /\ gic.cpuif /\ gic.enabled \subseteq gic.group1
                    /\ \E id \in gic.awake : board.redist[id + 1] = board.mpidr
                    /\ entry[board.mpidr] = [num |-> board.mpidr, threading |-> TRUE,
                                             thread |-> TRUE, processor |-> board.mpidr]
                    /\ processors = <<board.mpidr>> /\ tasks = <<0>>
  BY Zenon DEF InterruptsConfigured, machine_get_cpu_num
<1> USE DEF FromTimers, FromMain, FromTail, FromThread, FromTask, FromProcessor, FromCpuif,
            FromRedist, FromDist
<1>1. pc = "running" /\ GicInv /\ CpuInv
  BY Zenon DEF BootInv, GicInv
<1>2. /\ gic.dist /\ gic.cpuif /\ gic.enabled \subseteq gic.group1
      /\ \E id \in gic.awake : board.redist[id + 1] = board.mpidr
  BY Zenon, <1>1 DEF GicInv, Own
<1>3. /\ board.mpidr = 0 /\ entry[0].num = 0 /\ entry[0].thread /\ entry[0].threading
      /\ entry[0].processor = 0 /\ processors = <<0>> /\ tasks = <<0>> /\ entry[0] \in Record
  BY Zenon, <1>1, BoardFacts DEF CpuInv
<1>4. entry[0] = [num |-> 0, threading |-> TRUE, thread |-> TRUE, processor |-> 0]
  BY Zenon, <1>3 DEF Record
<1>5. QED
  BY Zenon, <1>2, <1>3, <1>4

(* An enabled interrupt can be taken and handled: on every board,          *)
(* machine_init_timers and gic_irq_register enable one only after          *)
(* gic_interface_init has set up the distributor, this cpu's               *)
(* redistributor and the cpu interface, and after the record of this cpu   *)
(* has its processor, its running thread and its threading flag.           *)
THEOREM BootInterrupts == Spec => []InterruptsConfigured
<1>1. BootInv => InterruptsConfigured
  BY Zenon, BootConfigured
<1>2. QED
  BY <1>1, BootInductive, PTL
=============================================================================
