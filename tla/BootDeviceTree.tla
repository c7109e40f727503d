--------------------------- MODULE BootDeviceTree ---------------------------
(***************************************************************************)
(* platform/devicetree.c, the kernel's view of the blob the loader passes: *)
(* lookups of nodes, their iterator and the reading of a "reg" property.   *)
(* The functions are called with BootDeviceTree.base, the blob, and return *)
(* their result with the structure they fill in.                           *)
(***************************************************************************)
EXTENDS FdtRw

CONSTANT kPropNameLength   \* size of a DTNode's array for the name

ASSUME NameAssumption == kPropNameLength \in Nat \ {0}

kDeviceTreeSuccess == 0
kDeviceTreeFailure == 1

REG == <<213>>   \* "reg"

node_offset_count_children(fdt, node_offset)   == Len(Subnodes(fdt, node_offset))
node_offset_count_properties(fdt, node_offset) == Len(Properties(fdt, node_offset))

(* The name and its NUL are copied after the offset is stored behind the   *)
(* array: the NUL of a name that fills the array clears the offset's low   *)
(* byte.  Longer names, which the kernel warns of, are left out.           *)
DTNode(fdt, name, res) ==
  LET offset == IF Len(name) < kPropNameLength THEN res ELSE res - (res % 256) IN
  [name |-> name, offset |-> offset,
   nChildren   |-> node_offset_count_children(fdt, offset),
   nProperties |-> node_offset_count_properties(fdt, offset)]

DeviceTreeLookupNodeByOffset(fdt, offset, node) ==
  LET name == fdt_get_name(fdt, offset) IN
  IF name.len < 0 THEN [ret |-> kDeviceTreeFailure, node |-> [node EXCEPT !.offset = offset]]
  ELSE [ret |-> kDeviceTreeSuccess, node |-> DTNode(fdt, name.s, offset)]

(* DeviceTreeLookupNode and DeviceTreeLookupNodeByPhandle, given what      *)
(* libfdt found: an error leaves the caller's node alone.                  *)
Found(fdt, res, node) ==
  IF res < 0 \/ fdt_get_name(fdt, res).len < 0 THEN [ret |-> kDeviceTreeFailure, node |-> node]
  ELSE [ret |-> kDeviceTreeSuccess, node |-> DTNode(fdt, fdt_get_name(fdt, res).s, res)]

DeviceTreeLookupNode(fdt, lookup, node) == Found(fdt, fdt_path_offset(fdt, lookup), node)

DeviceTreeLookupNodeByPhandle(fdt, phandle, node) ==
  Found(fdt, fdt_node_offset_by_phandle(fdt, phandle), node)

DeviceTreeNodeExists(fdt, name) ==
  IF fdt_path_offset(fdt, name) < 0 THEN kDeviceTreeFailure ELSE kDeviceTreeSuccess

(* The first subnode, or the next one, given its offset. *)
Subnode(fdt, res, node) ==
  IF res = - FDT_ERR_NOTFOUND THEN [ret |-> kDeviceTreeFailure, node |-> node]
  ELSE DeviceTreeLookupNodeByOffset(fdt, res, node)

DeviceTreeNodeFirstSubnode(fdt, node, first) == Subnode(fdt, fdt_first_subnode(fdt, node.offset), first)
DeviceTreeNodeNextSubnode(fdt, node, next)   == Subnode(fdt, fdt_next_subnode(fdt, node.offset), next)

(* DeviceTreeInit, for a structure in .bss: the root stays empty unless    *)
(* the header is right.                                                    *)
NoNode == [name |-> <<>>, offset |-> 0, nChildren |-> 0, nProperties |-> 0]

DeviceTreeInit(fdt) ==
  LET r == DeviceTreeLookupNode(fdt, <<SLASH>>, NoNode) IN
  IF fdt_check_header(fdt) # 0 THEN [initialised |-> FALSE, root |-> NoNode]
  ELSE [initialised |-> r.ret = kDeviceTreeSuccess, root |-> r.node]

DeviceTreeVerify(tree) == IF tree.initialised THEN kDeviceTreeSuccess ELSE kDeviceTreeFailure

DeviceTreeIteratorInit(start) == [currentNode |-> start, count |-> start.nChildren, index |-> 0]

(* Mutant: the second step goes down as the first one does. *)
IterateNodes_down(fdt, iter) ==
  LET cur  == iter.currentNode
      step == IF iter.index <= 1 THEN DeviceTreeNodeFirstSubnode(fdt, cur, cur)
              ELSE DeviceTreeNodeNextSubnode(fdt, cur, cur) IN
  [iter EXCEPT !.index = @ + 1, !.currentNode = step.node]

(* The result of the step to the next node is ignored. *)
DeviceTreeIterateNodes(fdt, iter) ==
  LET cur  == iter.currentNode
      step == IF iter.index = 0 THEN DeviceTreeNodeFirstSubnode(fdt, cur, cur)
              ELSE DeviceTreeNodeNextSubnode(fdt, cur, cur) IN
  [iter EXCEPT !.index = @ + 1, !.currentNode = step.node]

(* The nodes a while loop around DeviceTreeIterateNodes is given. *)
RECURSIVE Iterated(_, _)
Iterated(fdt, iter) ==
  IF iter.index >= iter.count THEN <<>>
  ELSE LET next == DeviceTreeIterateNodes(fdt, iter) IN <<next.currentNode>> \o Iterated(fdt, next)

DeviceTreeLookupPropertyValue(fdt, node, propName) == fdt_getprop(fdt, node.offset, propName)
-----------------------------------------------------------------------------
(* bswap_32 of the word at an offset reverses its bytes.  A word a cpu of  *)
(* the other byte order has stored, read by this one: the number it sees.  *)
CELL_SIZE == 2     \* DEFAULTS_PLAT_DEVICETREE_CELL_SIZE

Native(word) == word[4] + 16777216 * word[1]

RECURSIVE SwapCells(_, _, _)
SwapCells(fdt, offset, n) ==
  IF n = 0 THEN fdt
  ELSE SwapCells(StoreStruct(fdt, offset, Reverse(StructBytes(fdt, offset, FDT_TAGSIZE))),
                 offset + FDT_TAGSIZE, n - 1)

(* The cells are swapped where they are, in the blob.  An address or a     *)
(* size is its two cells, the higher one first.  With them the function    *)
(* falls off its end: it returns what is in the register, w0.              *)
DeviceTreeLookupRegValue(fdt, node, w0) ==
  LET reg  == fdt_getprop(fdt, node.offset, REG)
      swap == SwapCells(fdt, reg.off, 2 * CELL_SIZE)
      Cell(i) == Native(StructBytes(swap, reg.off + FDT_TAGSIZE * i, FDT_TAGSIZE)) IN
  IF reg.len < 0 THEN [fdt |-> fdt, ret |-> kDeviceTreeFailure, addr |-> <<>>, size |-> <<>>]
  ELSE [fdt |-> swap, ret |-> w0, addr |-> <<Cell(0), Cell(1)>>, size |-> <<Cell(2), Cell(3)>>]
=============================================================================
