----------------------------- MODULE MCStartup ------------------------------
(***************************************************************************)
(* Boards: device trees with and without /memory, /cpus and a cpu-map of   *)
(* up to three clusters of up to two cores, the cpu-map before or after    *)
(* the cpu nodes, cpu nodes with and without a node for their cache, a     *)
(* core without its "cpu" property, and redistributors in and out of       *)
(* order.                                                                  *)
(*                                                                         *)
(* Memories: small tables of four entries and blocks of eight pages, 32    *)
(* pages to a level 1 entry.  The kernel starts on a level 1 boundary and  *)
(* may fill one entry and a part of the next, or starts on any block and   *)
(* ends in the same level 1 entry; memory may cross up to three entries.   *)
(* Console and interrupt controller share a level 1 entry, and the         *)
(* redistributors start in the distributor's block, as they do on the      *)
(* board.                                                                  *)
(***************************************************************************)
EXTENDS Startup


Core(c, n) == <<"cpus", "cpu-map", c, n>>

Map(sizes) ==
  [n \in {CpuMap} |-> [c \in DOMAIN sizes |-> <<"cpus", "cpu-map", c>>]]
  @@ [n \in {<<"cpus", "cpu-map", c>> : c \in DOMAIN sizes} |->
        [i \in 1 .. sizes[n[3]] |-> Core(n[3], i)]]
  @@ [n \in {Core(c, i) : c \in DOMAIN sizes, i \in 1 .. 2} |-> <<>>]

Cpus(children) ==
  [n \in {<<"cpus">>} |-> children]
  @@ [n \in ToSet(children) \ {CpuMap} |-> <<>>]

Memory == [n \in {<<"memory">>} |-> <<>>]

CpuNode == <<"cpus", "cpu">>
Cache   == <<"cpus", "cpu", "cache">>
Caches  == [n \in {CpuNode} |-> <<Cache>>] @@ [n \in {Cache} |-> <<>>]

Trees ==
  {Map(s) @@ Cpus(k) @@ Memory :
      s \in {<<2>>, <<1, 2>>, <<2, 2>>, <<0, 1, 2>>, <<>>},
      k \in {<<CpuMap>>, <<CpuMap, CpuNode>>, <<CpuNode, CpuMap>>}}
  \cup {Map(<<1, 2>>) @@ Caches @@ Cpus(<<CpuNode, CpuMap>>) @@ Memory,
        Caches @@ Cpus(<<CpuNode>>) @@ Memory,
        Cpus(<<CpuNode>>) @@ Memory, Memory, Map(<<2>>) @@ Cpus(<<CpuMap>>)}

AllCores == {Core(c, i) : c \in 1 .. 3, i \in 1 .. 2}

MCBoard ==
  [args : {TRUE}, header : {TRUE}, tree : Trees, linked : {AllCores, AllCores \ {Core(1, 2)}},
   mpidr : {0, 1, 3, 4}, redist : {<<0, 1, 2, 3>>, <<3, 2, 1, 0>>, <<1, 0>>}]
  \cup [args : BOOLEAN, header : BOOLEAN, tree : {Map(<<1, 2>>) @@ Cpus(<<CpuMap>>) @@ Memory},
        linked : {AllCores}, mpidr : {0}, redist : {<<0, 1, 2, 3>>}]
-----------------------------------------------------------------------------

MCBlock   == 8
MCEntries == 4

Peripheral(at) ==
  [console |-> [va |-> at, pa |-> 8, size |-> 1],
   gicd    |-> [va |-> at + 8, pa |-> 16, size |-> 2],
   gicr    |-> [va |-> at + 11, pa |-> 19, size |-> 13]]

MCConfig ==
  {[physbase |-> p, virtbase |-> v, memsize |-> m, kernsize |-> k,
    console |-> Peripheral(96).console, gicd |-> Peripheral(96).gicd, gicr |-> Peripheral(96).gicr] :
     p \in {32, 40, 56}, v \in {0, 32}, m \in {40, 48, 64}, k \in {14, 32, 35, 40}}
  \cup
  {[physbase |-> p, virtbase |-> v, memsize |-> m, kernsize |-> k,
    console |-> Peripheral(64).console, gicd |-> Peripheral(64).gicd, gicr |-> Peripheral(64).gicr] :
     p \in {32, 48}, v \in {8, 40}, m \in {16, 23, 40}, k \in {14, 16}}

(* Every board with one memory, every memory with one board. *)
OneBoard  == [args |-> TRUE, header |-> TRUE, tree |-> Map(<<1, 2>>) @@ Cpus(<<CpuMap>>) @@ Memory,
              linked |-> AllCores, mpidr |-> 0, redist |-> <<1, 0>>]
OneConfig == CHOOSE c \in MCConfig : c.physbase = 48 /\ c.virtbase = 8 /\ c.memsize = 23

MCMachine == (MCBoard \X {OneConfig}) \cup ({OneBoard} \X MCConfig)
=============================================================================
