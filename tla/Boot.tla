-------------------------------- MODULE Boot --------------------------------
(***************************************************************************)
(* kernel_init of kern/main.c up to the first thread, and the head of that *)
(* thread: the boot cpu's record (kern/cpu.c), the cpu topology read from  *)
(* the device tree (kern/machine.c), the GICv3 (drivers/irq/irq-gicv3.c),  *)
(* the primary processor and the kernel task.  One action is one call.     *)
(* Memory set-up is modules Pmap, VmPage, VmMap and Zone.                  *)
(***************************************************************************)
EXTENDS DeviceTree, Integers, FiniteSets

CONSTANTS
  Board,            \* what the kernel may be started on
  CPU_NUMBER_MAX,   \* entries of CpuDataEntries and of cpus
  IntId,            \* interrupt numbers later calls are made with
  Timer             \* MACHINE_TIMER_EL1PHYS_IRQ_ID

(* A board: is the boot_args version right, is the blob's header right,    *)
(* its tree, the nodes that have a "cpu" property, this cpu's number in    *)
(* MPIDR_EL1, and GICR_TYPER's affinity of each redistributor.             *)
ASSUME BootAssumption ==
  /\ Timer \in IntId /\ IntId \subseteq Nat /\ CPU_NUMBER_MAX \in Nat \ {0}
  /\ \A b \in Board : /\ b.args \in BOOLEAN /\ b.header \in BOOLEAN
                      /\ b.mpidr \in Nat /\ b.redist \in Seq(Nat)

VARIABLES
  board, pc,
  entry,       \* CpuDataEntries
  boot_cpu,    \* kernel_init's local cpu_t
  bootData,    \* BootCpuData
  topo,        \* topology_info with its arrays
  parent, iter, subiter, cluster,     \* locals of machine_parse_cpu_topology
  gic,         \* the GIC's registers and gic_data
  processors,  \* idle_processors, by cpu_id
  tasks,       \* the task list, by pid
  kthread      \* the kernel's first thread exists

cpuVars  == <<entry, boot_cpu, bootData>>
topoVars == <<topo, parent, iter, subiter, cluster>>
rest     == <<processors, tasks, kthread>>
vars == <<board, pc, cpuVars, topoVars, gic, rest>>

NONE == -1
NoCpu == [num |-> 0, threading |-> FALSE, thread |-> FALSE, processor |-> NONE]

Init ==
  /\ board \in Board /\ pc = "start"
  /\ entry = [n \in 0 .. CPU_NUMBER_MAX - 1 |-> NoCpu]
  /\ boot_cpu = NoCpu /\ bootData = NoCpu
  /\ topo = [cpus |-> <<>>, clusters |-> <<>>, max_cpu_id |-> 0, boot_cpu |-> NONE]
  /\ parent = <<>> /\ cluster = [id |-> 0, num |-> 0]
  /\ iter = [cur |-> <<>>, count |-> 0, index |-> 0] /\ subiter = iter
  /\ gic = [max |-> 0, dist |-> FALSE, woken |-> {}, awake |-> {}, cpuif |-> FALSE,
            group1 |-> {}, enabled |-> {}]
  /\ processors = <<>> /\ tasks = <<>> /\ kthread = FALSE

(* panic and a failed assert end in a halted cpu. *)
Goto(from, to) == pc = from /\ pc' = to
Check(from, ok, to) == Goto(from, IF ok THEN to ELSE "panic")

(* The search of the topology never changes what MPIDR_EL1 says. *)
machine_get_cpu_num == board.mpidr

(* CPU_ASSERT_VALID_ID: cpu_count is 0 and nothing counts it up. *)
cpu_count == 0
ValidId(id) == id <= cpu_count
Valid(cpu)  == cpu.num < CPU_NUMBER_MAX

cpu_register(cpu) == entry' = IF Valid(cpu) THEN [entry EXCEPT ![cpu.num] = cpu] ELSE entry

cpu_create ==
  LET cpu == [NoCpu EXCEPT !.num = machine_get_cpu_num] IN
  /\ Check("start", Valid(cpu), "args")
  /\ boot_cpu' = cpu /\ cpu_register(cpu)
  /\ UNCHANGED <<board, bootData, topoVars, gic, rest>>

CheckArgs == /\ Check("args", board.args, "memory")
             /\ UNCHANGED <<board, cpuVars, topoVars, gic, rest>>

(* DeviceTreeInit's result is ignored; a blob with a bad header has no     *)
(* nodes for the lookup of /memory to find.                                *)
Lookup(path) == board.header /\ DeviceTreeNodeExists(board.tree, path)

platform_get_memory ==
  /\ Check("memory", Lookup(<<"memory">>), "cpus")
  /\ UNCHANGED <<board, cpuVars, topoVars, gic, rest>>
-----------------------------------------------------------------------------
(* machine_parse_cpu_topology *)
FindCpus ==
  LET found == Lookup(<<"cpus">>) IN
  /\ Check("cpus", found, "map")
  /\ parent' = IF found THEN <<"cpus">> ELSE parent
  /\ iter' = IF found THEN DeviceTreeIteratorInit(board.tree, <<"cpus">>) ELSE iter
  /\ UNCHANGED <<board, cpuVars, topo, subiter, cluster, gic, rest>>

(* Mutant: every subnode of /cpus is taken for the cpu-map. *)
FindMap_any ==
  /\ pc = "map"
  /\ IF More(iter)
     THEN /\ iter' = DeviceTreeIterateNodes(board.tree, iter)
          /\ parent' = iter'.cur
          /\ pc' = pc
     ELSE /\ iter' = DeviceTreeIteratorInit(board.tree, parent)
          /\ pc' = "clusters" /\ UNCHANGED parent
  /\ UNCHANGED <<board, cpuVars, topo, subiter, cluster, gic, rest>>

(* The last subnode named cpu-map.  Without one parent is still /cpus, and *)
(* nothing checks.                                                         *)
FindMap ==
  /\ pc = "map"
  /\ IF More(iter)
     THEN /\ iter' = DeviceTreeIterateNodes(board.tree, iter)
          /\ parent' = IF Last(iter'.cur) = "cpu-map" THEN iter'.cur ELSE parent
          /\ pc' = pc
     ELSE /\ iter' = DeviceTreeIteratorInit(board.tree, parent)
          /\ pc' = "clusters" /\ UNCHANGED parent
  /\ UNCHANGED <<board, cpuVars, topo, subiter, cluster, gic, rest>>

NextCluster ==
  /\ pc = "clusters" /\ More(iter)
  /\ iter' = DeviceTreeIterateNodes(board.tree, iter)
  /\ cluster' = [id |-> Len(topo.clusters), num |-> 0]
  /\ subiter' = DeviceTreeIteratorInit(board.tree, iter'.cur)
  /\ pc' = "cores"
  /\ UNCHANGED <<board, cpuVars, topo, parent, gic, rest>>

(* machine_read_prop returns 0: every cpu_phys_id is 0. *)
machine_read_prop == 0

AddCpu(cpu_id) ==
  topo' = [topo EXCEPT
    !.cpus = Append(@, [cpu_id |-> cpu_id, cluster |-> cluster.id,
                        cpu_phys_id |-> machine_read_prop]),
    !.max_cpu_id = IF cpu_id > @ THEN cpu_id ELSE @,
    !.boot_cpu = IF cpu_id = board.mpidr THEN Len(topo.cpus) ELSE @]

(* The lookup of "cpu" is not checked: without the property the pointer    *)
(* entry is not initialised, and loading through it may be an abort, which *)
(* panics, or give a number.  The node found by that phandle is only read  *)
(* by machine_read_prop.                                                   *)
StrayEntry ==
  /\ subiter'.cur \notin board.linked
  /\ pc' = "panic" /\ UNCHANGED <<topo, cluster>>


NextCore ==
  /\ pc = "cores" /\ More(subiter)
  /\ subiter' = DeviceTreeIterateNodes(board.tree, subiter)
  /\ \/ pc' = pc /\ AddCpu(Len(topo.cpus)) /\ cluster' = [cluster EXCEPT !.num = @ + 1]
     \/ StrayEntry
  /\ UNCHANGED <<board, cpuVars, parent, iter, gic, rest>>

EndCluster ==
  /\ ~ More(subiter) /\ Goto("cores", "clusters")
  /\ topo' = [topo EXCEPT !.clusters = Append(@, cluster)]
  /\ UNCHANGED <<board, cpuVars, parent, iter, subiter, cluster, gic, rest>>

EndTopology ==
  /\ ~ More(iter) /\ Check("clusters", topo.boot_cpu # NONE, "register")
  /\ UNCHANGED <<board, cpuVars, topoVars, gic, rest>>

machine_get_boot_cpu_num == topo.cpus[topo.boot_cpu + 1].cpu_id

(* The boot cpu's record gets the logical id and is registered again. *)
RegisterBootCpu ==
  LET cpu == [boot_cpu EXCEPT !.num = machine_get_boot_cpu_num] IN
  /\ Check("register", cpu.num <= topo.max_cpu_id /\ Valid(cpu), "dist")
  /\ boot_cpu' = cpu /\ cpu_register(cpu) /\ bootData' = cpu
  /\ UNCHANGED <<board, topoVars, gic, rest>>
-----------------------------------------------------------------------------
(* gic_interface_init *)
gic_dist_init ==
  /\ Goto("dist", "redist")
  /\ gic' = [gic EXCEPT !.dist = TRUE]
  /\ UNCHANGED <<board, cpuVars, topoVars, rest>>

(* The first redistributor with this cpu's affinity, of 0 .. max. *)
gic_get_redist_id(max) ==
  LET found == {i \in 0 .. max : i < Len(board.redist)
                              /\ board.redist[i + 1] = board.mpidr}
  IN  IF found = {} THEN NONE ELSE CHOOSE i \in found : \A j \in found : i <= j

(* Mutant: ProcessorSleep is left set. *)
gic_redist_init_asleep ==
  LET id == gic_get_redist_id(topo.max_cpu_id) IN
  /\ Check("redist", id # NONE, "poll")
  /\ gic' = [gic EXCEPT !.max = topo.max_cpu_id]
  /\ UNCHANGED <<board, cpuVars, topoVars, rest>>

(* The index is not checked: 0xffffffff is an address nothing is mapped    *)
(* at, and the store is an abort that panics.                              *)
gic_redist_init ==
  LET id == gic_get_redist_id(topo.max_cpu_id) IN
  /\ Check("redist", id # NONE, "poll")
  /\ gic' = [gic EXCEPT !.max = topo.max_cpu_id,
                        !.woken = IF id = NONE THEN @ ELSE @ \cup {id}]
  /\ UNCHANGED <<board, cpuVars, topoVars, rest>>

(* The hardware clears ChildrenAsleep of a redistributor told to wake. *)
RedistWakes == \E id \in gic.woken \ gic.awake :
  /\ gic' = [gic EXCEPT !.awake = @ \cup {id}]
  /\ UNCHANGED <<board, pc, cpuVars, topoVars, rest>>

PollWaker ==
  /\ gic_get_redist_id(gic.max) \in gic.awake /\ Goto("poll", "cpuif")
  /\ UNCHANGED <<board, cpuVars, topoVars, gic, rest>>

(* The poll reads the register again. *)
PollAsleep ==
  /\ pc = "poll" /\ gic_get_redist_id(gic.max) \notin gic.awake /\ UNCHANGED vars

gic_cpuif_init ==
  /\ Goto("cpuif", "processor")
  /\ gic' = [gic EXCEPT !.cpuif = TRUE]
  /\ UNCHANGED <<board, cpuVars, topoVars, rest>>

(* Mutant: the interrupt is enabled but stays in group 0. *)
Register_group0(intid) ==
  gic' = IF intid < 31 /\ gic_get_redist_id(gic.max) # NONE
         THEN [gic EXCEPT !.enabled = @ \cup {intid}]
         ELSE gic

(* gic_irq_register: an SGI or PPI is put in group 1 and enabled at this   *)
(* cpu's redistributor; other numbers are refused.                         *)
Register(intid) ==
  gic' = IF intid < 31 /\ gic_get_redist_id(gic.max) # NONE
         THEN [gic EXCEPT !.group1 = @ \cup {intid}, !.enabled = @ \cup {intid}]
         ELSE gic

(* The read-modify-write of icenabler reads the enabled interrupts and     *)
(* writes them all back, which disables each of them.                      *)
Disable(intid) ==
  gic' = IF intid < 31
         THEN [gic EXCEPT !.enabled = @ \ (gic.enabled \cup {intid})]
         ELSE gic
-----------------------------------------------------------------------------
primary_cpu_id == 0

processor_init ==
  /\ Check("processor", ValidId(primary_cpu_id), "task")
  /\ processors' = Append(processors, primary_cpu_id)
  /\ entry' = [entry EXCEPT ![primary_cpu_id].processor = primary_cpu_id]
  /\ UNCHANGED <<board, boot_cpu, bootData, topoVars, gic, tasks, kthread>>

task_init ==
  /\ Goto("task", "thread")
  /\ tasks' = Append(tasks, Len(tasks))
  /\ UNCHANGED <<board, cpuVars, topoVars, gic, processors, kthread>>

kernel_thread_create ==
  /\ Goto("thread", "tail") /\ kthread' = TRUE
  /\ UNCHANGED <<board, cpuVars, topoVars, gic, processors, tasks>>

(* thread_load_context ends in sched_tail. *)
sched_tail ==
  LET n == machine_get_cpu_num IN
  /\ Check("tail", ValidId(n) /\ kthread, "main")
  /\ entry' = IF ValidId(n) THEN [entry EXCEPT ![n].thread = kthread] ELSE entry
  /\ UNCHANGED <<board, boot_cpu, bootData, topoVars, gic, rest>>

(* kernel_thread_main up to machine_init_timers; boot_cpu_id is boot_cpu.num. *)
MainFlag ==
  /\ Check("main", ValidId(boot_cpu.num), "timers")
  /\ entry' = [entry EXCEPT ![boot_cpu.num].threading = TRUE]
  /\ UNCHANGED <<board, boot_cpu, bootData, topoVars, gic, rest>>

machine_init_timers ==
  /\ Goto("timers", "running") /\ Register(Timer)
  /\ UNCHANGED <<board, cpuVars, topoVars, rest>>

(* The interrupt interface, used by whatever runs later. *)
machine_register_interrupt == \E intid \in IntId :
  /\ pc = "running" /\ Register(intid)
  /\ UNCHANGED <<board, pc, cpuVars, topoVars, rest>>

gic_irq_disable == \E intid \in IntId :
  /\ pc = "running" /\ Disable(intid)
  /\ UNCHANGED <<board, pc, cpuVars, topoVars, rest>>

Halted == pc = "panic" /\ UNCHANGED vars

Step ==
  \/ cpu_create \/ CheckArgs \/ platform_get_memory
  \/ FindCpus \/ FindMap \/ NextCluster \/ NextCore \/ EndCluster \/ EndTopology
  \/ RegisterBootCpu \/ gic_dist_init \/ gic_redist_init \/ PollWaker
  \/ gic_cpuif_init \/ processor_init \/ task_init \/ kernel_thread_create
  \/ sched_tail \/ MainFlag \/ machine_init_timers

Next == \/ Step \/ RedistWakes \/ PollAsleep
        \/ machine_register_interrupt \/ gic_irq_disable \/ Halted

(* kernel_init runs alone: no interrupt is enabled before the timer's.     *)
(* GICR_WAKER answers.                                                     *)
Spec == Init /\ [][Next]_vars /\ WF_vars(Step) /\ WF_vars(RedistWakes)
-----------------------------------------------------------------------------
(* The tree's own account: the cores below the cpu-map in document order.  *)
(* Without a cpu-map the clusters are the subnodes of /cpus.               *)
CpuMap == <<"cpus", "cpu-map">>

Clusters == LET root == IF CpuMap \in DOMAIN board.tree THEN CpuMap ELSE <<"cpus">>
            IN  IF root \in DOMAIN board.tree THEN board.tree[root] ELSE <<>>

CoresOf(c) == board.tree[Clusters[c]]

Cores == FlattenSeq([c \in DOMAIN Clusters |-> CoresOf(c)])

Parsed == pc \notin {"start", "args", "memory", "cpus", "map", "clusters", "cores", "panic"}


(* An enabled interrupt can be taken: the distributor forwards group 1,    *)
(* the interrupt is in it, this cpu's redistributor is awake and the cpu   *)
(* interface is on.  And it can be handled: the record cpu_get_current     *)
(* finds is this cpu's, has a running thread for __schedule to save, is    *)
(* marked threading for panic, and its processor is the one processor_init *)
(* made.                                                                   *)
InterruptsConfigured == gic.enabled # {} =>
  /\ gic.dist /\ gic.cpuif /\ gic.enabled \subseteq gic.group1
  /\ \E id \in gic.awake : board.redist[id + 1] = board.mpidr
  /\ entry[machine_get_cpu_num] = [num |-> board.mpidr, threading |-> TRUE,
                                   thread |-> TRUE, processor |-> board.mpidr]
  /\ processors = <<board.mpidr>> /\ tasks = <<0>>

(* What kernel_init needs to reach its first thread.  That the boot cpu is *)
(* cpu 0 comes from cpu_count, which stays 0.  A cpu-map is not needed.    *)
Bootable ==
  /\ board.args /\ board.header /\ <<"memory">> \in DOMAIN board.tree
  /\ <<"cpus">> \in DOMAIN board.tree /\ Cores # <<>> /\ board.mpidr = 0
  /\ \E i \in 1 .. Len(Cores) : i <= Len(board.redist) /\ board.redist[i] = board.mpidr

(* kernel_init panics on no board it can boot, unless a core of the tree   *)
(* has no "cpu" property, and the timer never starts on a board it cannot. *)
BootVerdict ==
  /\ pc = "panic" => ~ Bootable \/ ~ ToSet(Cores) \subseteq board.linked
  /\ pc = "running" => Bootable

(* kernel_init does not hang: it reaches the first thread or panics.       *)
BootEnds == <>(pc \in {"running", "panic"})
=============================================================================
