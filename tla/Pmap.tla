-------------------------------- MODULE Pmap --------------------------------
(***************************************************************************)
(* Translation tables from the first instruction to the interrupt          *)
(* controller: the bootstrap tables arch/start.S builds before it enables  *)
(* the MMU, arm_vm_init and pmap_tt_create_tte that replace them           *)
(* (kern/vm/vm.c, kern/vm/pmap.c), and the peripherals that                *)
(* machine_init_interrupts maps afterwards.                                *)
(*                                                                         *)
(* Addresses count pages.  A table is found at its physical address; the   *)
(* kernel reaches it through the tables in force, as the hardware makes    *)
(* it.  High addresses (TTBR1) are given by their low bits.  The kernel is *)
(* on one CPU and nothing else writes tables, so a turn of a loop is one   *)
(* step.                                                                   *)
(***************************************************************************)
EXTENDS Integers, FiniteSetsExt

CONSTANTS
  BLOCK,        \* pages in a level 2 block, TT_L2_SIZE: 512 in the source
  ENTRIES,      \* entries of a table, TTE_PAGE_ENTRIES: 512 in the source
  BOOT_TABLES,  \* pages of bootstrap_pagetables, at the start of the image
  PT_TABLES,    \* pages of the pagetables region, after them: 16 in the source
  VIRT_BASE,    \* DEFAULTS_KERNEL_VM_VIRT_BASE, above every physical address
  Config        \* boot arguments and peripheral addresses

L1_SIZE == BLOCK * ENTRIES
Index   == 0..(ENTRIES - 1)

(* A region the program maps. *)
Region(va, pa, size) == [va |-> va, pa |-> pa, size |-> size]

(* What the boot loader and the board promise: whole blocks of memory, the *)
(* image at its start and large enough for the tables, and regions for     *)
(* pmap_tt_create_tte that are Regular.                                    *)
Regular(r) ==
  /\ r.size > 0 /\ r.va % BLOCK = r.pa % BLOCK
  /\ r.va % BLOCK = 0 \/ (r.va + r.size) % BLOCK = 0 \/ (r.va % BLOCK) + r.size <= BLOCK
  /\ r.va % L1_SIZE = 0 \/ (r.va % L1_SIZE) + r.size <= L1_SIZE

Whole(pages) == (pages \div BLOCK) * BLOCK
Kernel(c) == Region(c.virtbase, c.physbase, c.kernsize)

ASSUME PmapAssumption ==
  /\ BLOCK \in Nat \ {0} /\ ENTRIES \in Nat \ {0}
  /\ \A c \in Config :
       /\ c.virtbase % BLOCK = 0 /\ c.physbase % BLOCK = 0 /\ c.memsize >= BLOCK
       /\ c.kernsize \in (BOOT_TABLES + PT_TABLES)..Whole(c.memsize)
       /\ \A r \in {Kernel(c), c.console, c.gicd, c.gicr} : Regular(r) /\ r.pa <= VIRT_BASE

VARIABLES
  config,       \* the boot arguments of this boot
  mem,          \* the tables, by physical address
  ttbr0, ttbr1, \* the translation base registers
  boot,         \* registers of create_bootstrap_region
  cursor,       \* pagetables_region_cursor, a virtual address
  kernel_tte,   \* virtual address of the kernel's level 1 table
  map_address,  \* local variable of the pmap_tt_create_tte in progress
  stage,
  mapped        \* history: [ttbr, region] of every mapping made so far

pmapVars == <<config, mem, ttbr0, ttbr1, boot, cursor, kernel_tte, map_address, stage, mapped>>

UNSET    == 0
INVALID == [type |-> "invalid", out |-> 0]
Table(pa) == [type |-> "table", out |-> pa]
Block(pa) == [type |-> "block", out |-> pa]
L1Index(va) == (va \div L1_SIZE) % ENTRIES
L2Index(va) == (va \div BLOCK) % ENTRIES

(* The hardware's table walk, and the AT instruction of mmu_translate_kvtop *)
(* on the tables in force.  A block's low address bits are ignored.        *)
FAULT == -1
Walk(m, ttbr, va) ==
  LET l1 == m[ttbr][L1Index(va)]
      l2 == m[l1.out][L2Index(va)] IN
  IF l1.type # "table" \/ l2.type # "block" THEN FAULT
  ELSE (l2.out \div BLOCK) * BLOCK + (va % BLOCK)

mmu_translate_kvtop(va) == Walk(mem, ttbr1, va)
ptokva(pa) == pa - config.physbase + config.virtbase
-----------------------------------------------------------------------------
(* create_bootstrap_region is about to build tables from page l1 on. *)
BootRegion(va, pa, pages, l1) ==
  [va |-> va, pa |-> pa, left |-> pages \div BLOCK, room |-> ENTRIES - L2Index(va),
   l1 |-> l1, l2 |-> l1]

(* _start, up to the mapping of memory onto itself. *)
PmapInit ==
  /\ config \in Config
  /\ mem = [p \in config.physbase..(config.physbase + BOOT_TABLES + PT_TABLES - 1) |->
              [i \in Index |-> INVALID]]
  /\ ttbr0 = UNSET /\ ttbr1 = UNSET /\ cursor = UNSET /\ kernel_tte = UNSET /\ map_address = 0
  /\ boot = BootRegion(config.physbase, config.physbase, config.memsize, config.physbase)
  /\ stage = "identity" /\ mapped = {}

BootAdvance(b, n) ==
  [b EXCEPT !.va = @ + n * BLOCK, !.pa = @ + n * BLOCK, !.left = @ - n,
            !.room = ENTRIES, !.l2 = @ + 1]

(* One turn of create_bootstrap_region: a level 2 table, its entry in the  *)
(* level 1 table, and as many blocks as it has room for.                   *)
BootTable(next, b) ==
  LET n  == Min({b.left, b.room})
      i0 == L2Index(b.va) IN
  /\ mem' = [mem EXCEPT ![b.l1][L1Index(b.va)] = Table(b.l2 + 1),
                        ![b.l2 + 1] = [i \in Index |->
                          IF i \in i0..(i0 + n - 1) THEN Block(b.pa + (i - i0) * BLOCK) ELSE @[i]]]
  /\ boot' = BootAdvance(b, n)
  /\ stage' = IF b.left = n THEN next ELSE stage

BootIdentity ==
  /\ stage = "identity" /\ BootTable("second", boot)
  /\ UNCHANGED <<config, ttbr0, ttbr1, cursor, kernel_tte, map_address, mapped>>

(* The second level 1 table follows the last table of the first mapping. *)
BootSecond ==
  /\ stage = "second" /\ stage' = "kernel"
  /\ boot' = BootRegion(config.virtbase, config.physbase, config.memsize, boot.l2 + 1)
  /\ UNCHANGED <<config, mem, ttbr0, ttbr1, cursor, kernel_tte, map_address, mapped>>

BootKernel ==
  /\ stage = "kernel" /\ BootTable("mmu", boot)
  /\ UNCHANGED <<config, ttbr0, ttbr1, cursor, kernel_tte, map_address, mapped>>

Mapping(ttbr, r) == [ttbr |-> ttbr, region |-> r]

(* The base registers are set and the MMU is enabled. *)
EnableMmu ==
  /\ stage = "mmu" /\ stage' = "init"
  /\ ttbr0' = config.physbase /\ ttbr1' = boot.l1
  /\ mapped' = {Mapping(ttbr0', Region(config.physbase, config.physbase, Whole(config.memsize))),
                Mapping(ttbr1', Region(config.virtbase, config.physbase, Whole(config.memsize)))}
  /\ UNCHANGED <<config, mem, boot, cursor, kernel_tte, map_address>>
-----------------------------------------------------------------------------
(* pmap_ptregion_create sets the cursor to the start of the region.  The   *)
(* assertion in pmap_ptregion_alloc compares the result with the contents  *)
(* of the word after the region and bounds nothing.                        *)
ptregion_base == ptokva(config.physbase + BOOT_TABLES)

(* Mutant: the cursor is not incremented. *)
pmap_ptregion_alloc_stay(at) == at

pmap_ptregion_alloc(at) == at + 1

(* arm_vm_init, up to the mappings: tables for kernel_tte and invalid_tte. *)
arm_vm_init ==
  /\ stage = "init" /\ stage' = "map_kernel"
  /\ kernel_tte' = ptregion_base
  /\ cursor' = pmap_ptregion_alloc(pmap_ptregion_alloc(ptregion_base))
  /\ map_address' = config.virtbase
  /\ UNCHANGED <<config, mem, ttbr0, ttbr1, boot, mapped>>

(* The values map_address_l2 takes in the inner loop of pmap_tt_create_tte. *)
l2_addresses(r) ==
  {a \in map_address..(r.va + r.size - 1) : a < map_address + L1_SIZE /\ (a - map_address) % BLOCK = 0}

(* Mutant: the offset is counted from the start of the table. *)
block_entry_table(r, a) == Block(r.pa + (a - map_address))

block_entry(r, a) == Block(r.pa + (a - r.va))

(* One turn of the outer loop of pmap_tt_create_tte for region r: find or  *)
(* make the level 2 table, then run the inner loop.                        *)
pmap_tt_create_tte(r) ==
  LET l1   == mmu_translate_kvtop(kernel_tte)
      old  == mem[l1][L1Index(map_address)]
      has  == old.type = "table"
      l2   == mmu_translate_kvtop(IF has THEN ptokva(old.out) ELSE cursor)
      at(i) == {a \in l2_addresses(r) : L2Index(a) = i}
  IN
  /\ r.pa <= VIRT_BASE
  /\ map_address < r.va + r.size /\ map_address' = map_address + L1_SIZE
  /\ cursor' = IF has THEN cursor ELSE pmap_ptregion_alloc(cursor)
  /\ mem' = [mem EXCEPT ![l1][L1Index(map_address)] = IF has THEN old ELSE Table(l2),
                        ![l2] = [i \in Index |->
                          IF at(i) = {} THEN @[i] ELSE block_entry(r, CHOOSE a \in at(i) : TRUE)]]
  /\ UNCHANGED <<config, ttbr0, ttbr1, boot, kernel_tte, stage, mapped>>

(* It returns, with nothing mapped if it refused the physical address,     *)
(* and the call that follows it starts at va; no caller reads the result.  *)
MapDone(r, next, va) ==
  /\ r.pa > VIRT_BASE \/ map_address >= r.va + r.size
  /\ map_address' = va /\ stage' = next
  /\ mapped' = IF r.pa > VIRT_BASE THEN mapped
               ELSE mapped \cup {Mapping(mmu_translate_kvtop(kernel_tte), r)}
  /\ UNCHANGED <<config, mem, ttbr0, ttbr1, boot, cursor, kernel_tte>>

MapKernel ==
  /\ stage = "map_kernel"
  /\ \/ pmap_tt_create_tte(Kernel(config))
     \/ MapDone(Kernel(config), "map_console", config.console.va)

MapConsole ==
  /\ stage = "map_console"
  /\ \/ pmap_tt_create_tte(config.console)
     \/ MapDone(config.console, "switch", config.gicd.va)

(* Mutant: the two tables are swapped. *)
SwitchTables_swapped ==
  /\ stage = "switch" /\ stage' = "map_gicd"
  /\ ttbr1' = mmu_translate_kvtop(kernel_tte + 1)
  /\ ttbr0' = mmu_translate_kvtop(kernel_tte)
  /\ UNCHANGED <<config, mem, boot, cursor, kernel_tte, map_address, mapped>>

(* arm_vm_init ends: mmu_set_tt_base_alt, then mmu_set_tt_base. *)
SwitchTables ==
  /\ stage = "switch" /\ stage' = "map_gicd"
  /\ ttbr1' = mmu_translate_kvtop(kernel_tte)
  /\ ttbr0' = mmu_translate_kvtop(kernel_tte + 1)
  /\ UNCHANGED <<config, mem, boot, cursor, kernel_tte, map_address, mapped>>

(* machine_init_interrupts. *)
MapGicd ==
  /\ stage = "map_gicd"
  /\ \/ pmap_tt_create_tte(config.gicd)
     \/ MapDone(config.gicd, "map_gicr", config.gicr.va)

MapGicr ==
  /\ stage = "map_gicr"
  /\ \/ pmap_tt_create_tte(config.gicr)
     \/ MapDone(config.gicr, "done", 0)

PmapNext == \/ BootIdentity \/ BootSecond \/ BootKernel \/ EnableMmu
        \/ arm_vm_init \/ MapKernel \/ MapConsole \/ SwitchTables
        \/ MapGicd \/ MapGicr
-----------------------------------------------------------------------------
Pages(r) == r.va..(r.va + r.size - 1)

(* Every page of every region mapped so far, in the bootstrap tables and   *)
(* in the kernel's, translates to its own physical page: later calls of    *)
(* create_bootstrap_region and pmap_tt_create_tte, in the same tables or   *)
(* in the same block, do not disturb it.  And between calls the tables in  *)
(* force map nothing beyond the blocks of what was mapped in them: no      *)
(* entry is left over, and the tables arm_vm_init puts in TTBR0 map        *)
(* nothing at all.                                                         *)
TranslationExact ==
  /\ \A m \in mapped : \A va \in Pages(m.region) :
       Walk(mem, m.ttbr, va) = m.region.pa + (va - m.region.va)
  /\ \A ttbr \in {ttbr0, ttbr1} \ {UNSET} : \A va \in 0..(L1_SIZE * ENTRIES - 1) :
       (\A m \in mapped : m.ttbr = ttbr =>
          va \div BLOCK \notin {p \div BLOCK : p \in Pages(m.region)})
       => stage \in {"map_gicd", "map_gicr"} \/ Walk(mem, ttbr, va) = FAULT

(* No table serves two purposes: level 1 entries point to different level  *)
(* 2 tables, none of which is a level 1 table, and pmap_ptregion_alloc     *)
(* stays within the region.                                                *)
TablesApart ==
  LET l1   == {config.physbase, boot.l1}
              \cup (IF kernel_tte = UNSET THEN {} ELSE {config.physbase + BOOT_TABLES})
      uses == {u \in (DOMAIN mem) \X Index : mem[u[1]][u[2]].type = "table"}
      l2(u) == mem[u[1]][u[2]].out IN
  /\ \A u, v \in uses : l2(u) = l2(v) => u = v
  /\ \A u \in uses : u[1] \in l1 /\ l2(u) \in (DOMAIN mem) \ l1
  /\ kernel_tte # UNSET => cursor <= ptregion_base + PT_TABLES

(* When arm_vm_init changes TTBR1 under the running kernel, every address  *)
(* of the kernel image, the next instruction and the stack among them,     *)
(* still means the same physical page.                                     *)
SwitchKeepsKernel ==
  [][ttbr1 # UNSET /\ ttbr1' # ttbr1 =>
       \A va \in Pages(Kernel(config)) : Walk(mem', ttbr1', va) = Walk(mem, ttbr1, va)]_pmapVars
=============================================================================
