----------------------------- MODULE DeviceTree -----------------------------
(***************************************************************************)
(* The walks over the flattened device tree of platform/devicetree.c.  A   *)
(* node is the sequence of names on its path, and a tree maps each node to *)
(* the sequence of its subnodes; the blob and libfdt's parsing of it are   *)
(* left out.                                                               *)
(***************************************************************************)
EXTENDS Naturals, SequencesExt

Absent == <<"FDT_ERR_NOTFOUND">>

fdt_first_subnode(tree, node) ==
  IF tree[node] = <<>> THEN Absent ELSE Head(tree[node])

fdt_next_subnode(tree, node) ==
  LET siblings == tree[Front(node)]
      i == CHOOSE j \in DOMAIN siblings : siblings[j] = node
  IN  IF i = Len(siblings) THEN Absent ELSE siblings[i + 1]

DeviceTreeNodeExists(tree, path) == path \in DOMAIN tree

(* iter->count is the nChildren that the lookup of the node counted. *)
DeviceTreeIteratorInit(tree, start) ==
  [cur |-> start, count |-> Len(tree[start]), index |-> 0]

More(iter) == iter.index < iter.count

(* Advance to the next subnode; a failed lookup leaves currentNode alone,  *)
(* and its result is ignored.                                              *)
DeviceTreeIterateNodes(tree, iter) ==
  LET index == iter.index + 1
      node  == IF index = 1 THEN fdt_first_subnode(tree, iter.cur)
                            ELSE fdt_next_subnode(tree, iter.cur)
  IN  [iter EXCEPT !.index = index, !.cur = IF node = Absent THEN @ ELSE node]
=============================================================================
