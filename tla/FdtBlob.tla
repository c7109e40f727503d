------------------------------ MODULE FdtBlob -------------------------------
(***************************************************************************)
(* A client of libkern/libfdt and its blob: a tree written from beginning  *)
(* to end, or one that was written before, read and edited in its buffer.  *)
(* Every call of fdt_sw.c, fdt_rw.c, fdt_wip.c and fdt_addresses.c is an   *)
(* action, and so is the one of platform/devicetree.c that writes to the   *)
(* blob; the calls of fdt.c, fdt_ro.c and the rest of devicetree.c, which  *)
(* change nothing, are what the properties ask of the blob between two     *)
(* calls.                                                                  *)
(*                                                                         *)
(* The client nests the nodes it writes, has one root, and gives no two    *)
(* children of a node one name: the library does not check these.          *)
(***************************************************************************)
EXTENDS FdtOverlay, BootDeviceTree

CONSTANTS
  Blobs,      \* what to start from: a blob, the path of the node being written
              \* and the number of calls to make
  NodeName, PropName, PropVal, Reserve, AddrRange,   \* what the client passes
  BufSize,    \* sizes of the buffers it moves a blob to
  Overlay,    \* overlays it applies: the blob, and what it was compiled from
  Shift       \* where a resized buffer begins, relative to the old one

VARIABLES
  fdt,    \* the blob
  view,   \* what it says: a function of fdt, kept so that it is read once
  open,   \* the path of the node being written
  call,   \* the last call: op, arguments, the offset it was made on, result
  left    \* how many calls the client will still make

fdtVars == <<fdt, view, open, call, left>>
-----------------------------------------------------------------------------
(* What a blob says, read without the library: its nodes in the order they *)
(* lie in it, each with its offset, its path and its properties in order.  *)
PropAt(f, o) ==
  LET off  == StructWord(f, o + 8)
      name == Str(f.m, f.off_dt_strings + off) IN
  [name |-> name, val |-> StructBytes(f, o + PROPERTY, StructWord(f, o + 4)), off |-> o]

RECURSIVE ReadNodes(_, _, _, _)
ReadNodes(f, o, path, nodes) ==
  LET w    == StructWord(f, o)
      name == Str(f.m, f.off_dt_struct + o + FDT_TAGSIZE)
      path_ == Append(path, name)
      mine == CHOOSE i \in DOMAIN nodes : nodes[i].path = path IN
  IF o >= f.size_dt_struct \/ w = FDT_END THEN nodes
  ELSE CASE w = FDT_NOP -> ReadNodes(f, o + FDT_TAGSIZE, path, nodes)
         [] w = FDT_END_NODE /\ path # <<>> -> ReadNodes(f, o + FDT_TAGSIZE, Front(path), nodes)
         [] w = FDT_BEGIN_NODE ->
              ReadNodes(f, o + FDT_TAGSIZE + FDT_TAGALIGN(Len(name) + 1), path_,
                        Append(nodes, [off |-> o, path |-> path_, props |-> <<>>]))
         [] w = FDT_PROP /\ path # <<>> ->
              ReadNodes(f, o + PROPERTY + FDT_TAGALIGN(StructWord(f, o + 4)), path,
                        [nodes EXCEPT ![mine].props = Append(@, PropAt(f, o))])
         [] OTHER -> nodes

Nodes(f) == IF f.magic = FDT_SW_MAGIC /\ f.off_dt_strings = 0 THEN <<>>
            ELSE ReadNodes(IF f.version < 17 THEN [f EXCEPT !.size_dt_struct = Len(f.m)] ELSE f,
                           0, <<>>, <<>>)

NodeAt(nodes, path) == nodes[CHOOSE i \in DOMAIN nodes : nodes[i].path = path]

Props(node) == [n \in {node.props[i].name : i \in DOMAIN node.props} |->
                  node.props[CHOOSE i \in DOMAIN node.props : node.props[i].name = n].val]

TreeOf(nodes) == [p \in {nodes[i].path : i \in DOMAIN nodes} |-> Props(NodeAt(nodes, p))]

RsvOf(f) ==
  LET Entry(i) == [address |-> f.m[f.off_mem_rsvmap + i * RESERVE + 1],
                   size    |-> f.m[f.off_mem_rsvmap + i * RESERVE + 9]]
      inmap == f.magic = FDT_SW_MAGIC /\ f.off_dt_strings = 0
      n == IF inmap THEN (f.off_dt_struct - f.off_mem_rsvmap) \div RESERVE
           ELSE CHOOSE k \in 0..Len(f.m) : Entry(k).size = 0 /\ \A j \in 0..(k - 1) : Entry(j).size # 0
  IN  [i \in 1..n |-> Entry(i - 1)]

(* Blocks one after another, and version 17: what an edit may change. *)
LaidOut(f) ==
  /\ f.version >= 17 /\ HEADER <= f.off_mem_rsvmap
  /\ f.off_mem_rsvmap + RESERVE * (Len(RsvOf(f)) + 1) <= f.off_dt_struct
  /\ f.off_dt_struct + f.size_dt_struct <= f.off_dt_strings
  /\ f.off_dt_strings + f.size_dt_strings <= f.totalsize

PhaseOf(f) == CASE f.magic = FDT_SW_MAGIC /\ f.off_dt_strings = 0 -> "memrsv"
                [] f.magic = FDT_SW_MAGIC /\ f.off_dt_strings # 0 -> "struct"
                [] f.magic = FDT_MAGIC -> IF LaidOut(f) THEN "complete" ELSE "foreign"

(* A blob without its magic is read by nobody. *)
View(f) == IF f.magic \notin {FDT_MAGIC, FDT_SW_MAGIC}
           THEN [nodes |-> <<>>, tree |-> <<>>, rsv |-> <<>>, phase |-> "damaged"]
           ELSE [nodes |-> Nodes(f), tree |-> TreeOf(Nodes(f)), rsv |-> RsvOf(f), phase |-> PhaseOf(f)]

(* The tree specification the blob implements. *)
T == INSTANCE FdtTree WITH phase <- view.phase, tree <- view.tree, rsv <- view.rsv
-----------------------------------------------------------------------------
FdtInit(blobs) ==
  \E b \in blobs : /\ fdt = b.fdt /\ view = View(fdt) /\ left = b.calls
                   /\ open = b.open /\ call = [op |-> "create", ret |-> 0]

(* A call made, its result and the blob it leaves. *)
Returns(r, c) == /\ left > 0 /\ left' = left - 1
                 /\ fdt' = r.fdt /\ view' = View(r.fdt)
                 /\ call' = c @@ [ret |-> r.ret]
Call(r, c) == Returns(r, c) /\ open' = open

add_reservemap_entry ==
  \E e \in Reserve : Call(fdt_add_reservemap_entry(fdt, e.address, e.size),
                          [op |-> "add_reservemap_entry", val |-> e])

finish_reservemap == Call(fdt_finish_reservemap(fdt), [op |-> "finish_reservemap"])

Building == fdt.magic = FDT_SW_MAGIC

(* The first node is the root; after it has ended nothing is written. *)
begin_node ==
  \E n \in IF view.nodes = <<>> THEN {<<>>} ELSE NodeName :
    LET r == fdt_begin_node(fdt, n) IN
    /\ Building => view.nodes = <<>> \/ open # <<>>
    /\ Building => Append(open, n) \notin DOMAIN view.tree
    /\ Returns(r, [op |-> "begin_node", path |-> open, name |-> n])
    /\ open' = IF r.ret < 0 THEN open ELSE Append(open, n)

(* Properties come before the subnodes, as every reader expects. *)
property ==
  \E n \in PropName, v \in PropVal :
    /\ Building => open # <<>> /\ Last(view.nodes).path = open /\ n \notin DOMAIN view.tree[open]
    /\ Call(fdt_property(fdt, n, v), [op |-> "property", path |-> open, name |-> n, val |-> v])

end_node ==
  LET r == fdt_end_node(fdt) IN
  /\ Building => open # <<>>
  /\ Returns(r, [op |-> "end_node"])
  /\ open' = IF r.ret < 0 THEN open ELSE Front(open)

finish == /\ Building => view.nodes # <<>> /\ open = <<>>
          /\ Call(fdt_finish(fdt), [op |-> "finish"])

resize == \E s \in Shift, n \in BufSize : Call(fdt_resize(fdt, s, n), [op |-> "resize"])
-----------------------------------------------------------------------------
Complete == fdt.magic = FDT_MAGIC

(* The nodes the client can name. *)
Known == ToSet(view.nodes)

OnNode(r, op, node, c) ==
  Complete /\ Call(r, [op |-> op, path |-> node.path, at |-> node.off] @@ c)

add_subnode == Complete /\ \E x \in Known, n \in NodeName :
  OnNode(fdt_add_subnode(fdt, x.off, n), "add_subnode", x, [name |-> n])

del_node == Complete /\ \E x \in Known : OnNode(fdt_del_node(fdt, x.off), "del_node", x, <<>>)

nop_node == Complete /\ \E x \in Known : OnNode(fdt_nop_node(fdt, x.off), "nop_node", x, <<>>)

set_name == Complete /\ \E x \in Known, n \in NodeName :
  /\ Len(x.path) > 1 /\ Append(Front(x.path), n) \notin DOMAIN view.tree
  /\ OnNode(fdt_set_name(fdt, x.off, n), "set_name", x, [name |-> n])

setprop == Complete /\ \E x \in Known, n \in PropName, v \in PropVal :
  OnNode(fdt_setprop(fdt, x.off, n, v), "setprop", x, [name |-> n, val |-> v])

appendprop == Complete /\ \E x \in Known, n \in PropName, v \in PropVal :
  OnNode(fdt_appendprop(fdt, x.off, n, v), "appendprop", x, [name |-> n, val |-> v])

appendprop_addrrange == Complete /\ \E x \in Known, n \in PropName, e \in AddrRange :
  LET parent == IF Len(x.path) = 1 THEN x ELSE NodeAt(view.nodes, Front(x.path)) IN
  OnNode(fdt_appendprop_addrrange(fdt, parent.off, x.off, n, e.address, e.size),
         "appendprop_addrrange", x, [name |-> n, addr |-> e.address, size |-> e.size])

setprop_inplace == Complete /\ \E x \in Known, n \in PropName, v \in PropVal :
  OnNode(fdt_setprop_inplace(fdt, x.off, n, v), "setprop_inplace", x, [name |-> n, val |-> v])

setprop_inplace_partial == Complete /\ \E x \in Known, n \in PropName, v \in PropVal, i \in {2} :
  OnNode(fdt_setprop_inplace_partial(fdt, x.off, n, i, v), "setprop_inplace_partial", x,
         [name |-> n, val |-> v, idx |-> i])

delprop == Complete /\ \E x \in Known, n \in PropName :
  OnNode(fdt_delprop(fdt, x.off, n), "delprop", x, [name |-> n])

nop_property == Complete /\ \E x \in Known, n \in PropName :
  OnNode(fdt_nop_property(fdt, x.off, n), "nop_property", x, [name |-> n])

add_mem_rsv == Complete /\ \E e \in Reserve :
  Call(fdt_add_mem_rsv(fdt, e.address, e.size), [op |-> "add_mem_rsv", val |-> e])

del_mem_rsv == Complete /\ \E i \in 0..1 :
  Call(fdt_del_mem_rsv(fdt, i), [op |-> "del_mem_rsv", idx |-> i])

open_into == Complete /\ \E n \in BufSize, inplace \in BOOLEAN :
  Call(fdt_open_into(fdt, n, inplace), [op |-> "open_into"])

pack == Complete /\ Call(fdt_pack(fdt), [op |-> "pack"])

(* The overlay's blob is the caller's; it is not used again.  No child's   *)
(* name in the tree matches that of another: which one a lookup finds then *)
(* depends on their order, which the tree does not have.                   *)
OverlayCall(r, o) == Call(r, [op |-> "overlay_apply", over |-> o.over, fdto |-> r.fdto.magic])

overlay_apply == Complete /\ \E o \in Overlay :
  /\ \A p \in DOMAIN view.tree : \A q \in T!Children(view.tree, Front(p)) :
       T!Matches(Last(p), Last(q)) => p = q
  /\ OverlayCall(fdt_overlay_apply(fdt, o.blob), o)

(* The kernel reads the memory's address and size, of two cells each: all  *)
(* the property has, as the fixed cell size expects.                       *)
lookup_reg_value == Complete /\ \E x \in Known, w0 \in {kDeviceTreeSuccess, kDeviceTreeFailure} :
  LET r == DeviceTreeLookupRegValue(fdt, DTNode(fdt, Last(x.path), x.off), w0) IN
  /\ Len(Last(x.path)) < kPropNameLength
  /\ REG \in DOMAIN view.tree[x.path] => Len(view.tree[x.path][REG]) = 2 * CELL_SIZE * FDT_TAGSIZE
  /\ Call(r, [op |-> "lookup_reg_value", path |-> x.path, addr |-> r.addr, size |-> r.size])

FdtNext ==
  \/ add_reservemap_entry \/ finish_reservemap \/ begin_node \/ property \/ end_node
  \/ finish \/ resize
  \/ add_subnode \/ del_node \/ nop_node \/ set_name \/ setprop \/ appendprop
  \/ appendprop_addrrange \/ setprop_inplace \/ setprop_inplace_partial \/ delprop
  \/ nop_property \/ add_mem_rsv \/ del_mem_rsv \/ open_into \/ pack
  \/ overlay_apply \/ lookup_reg_value

FdtSpec == FdtInit(Blobs) /\ [][FdtNext]_fdtVars
-----------------------------------------------------------------------------

(* A finished blob the last call may have changed. *)
Changed == Complete /\ call.ret >= 0

First(S) == IF S = {} THEN - FDT_ERR_NOTFOUND ELSE Smallest(S)
Children(nodes, path) == SelectSeq(nodes, LAMBDA n : Len(n.path) = Len(path) + 1 /\ IsPrefix(path, n.path))
Offsets(nodes) == [i \in DOMAIN nodes |-> nodes[i].off]
Matching(nodes, path, name) ==
  First({n.off : n \in {k \in ToSet(Children(nodes, path)) : T!Matches(name, Last(k.path))}})

(* Whatever was built and edited, fdt_getprop and fdt_subnode_offset find  *)
(* what is there and nothing else, and the iterators over properties and   *)
(* subnodes yield each once, in order: no edit leaves a value, a name or a *)
(* NOP where a walk would stumble over it.                                 *)
LookupsExact ==
  Changed => LET nodes == view.nodes IN \A n \in ToSet(nodes) :
    /\ \A name \in PropName :
         LET p == fdt_getprop(fdt, n.off, name) IN
         IF name \in DOMAIN view.tree[n.path] THEN p.len >= 0 /\ Value(fdt, p) = view.tree[n.path][name]
         ELSE p.len = - FDT_ERR_NOTFOUND
    /\ \A name \in NodeName : fdt_subnode_offset(fdt, n.off, name) = Matching(nodes, n.path, name)
    /\ Properties(fdt, n.off) = Offsets(n.props)
    /\ Subnodes(fdt, n.off) = Offsets(Children(nodes, n.path))

(* The node a path leads to when at each step the first matching child is  *)
(* taken.                                                                  *)
RECURSIVE Resolve(_, _, _)
Resolve(nodes, node, names) ==
  IF names = <<>> \/ node < 0 THEN node
  ELSE LET path == (CHOOSE n \in ToSet(nodes) : n.off = node).path IN
       Resolve(nodes, Matching(nodes, path, Head(names)), Tail(names))

(* fdt_get_path gives the path of a node exactly when the buffer holds it  *)
(* and its NUL; fdt_path_offset leads back; fdt_parent_offset,             *)
(* fdt_node_depth and fdt_supernode_atdepth_offset agree with the tree,    *)
(* and refuse an offset that is not a node's.                              *)
NavigationExact ==
  Changed => LET nodes == view.nodes IN \A n \in ToSet(nodes) :
    LET s == T!PathString(n.path)
        Super(d) == NodeAt(nodes, SubSeq(n.path, 1, d + 1)).off
        depth == Len(n.path) - 1 IN
    /\ fdt_get_path(fdt, n.off, Len(s) + 1) = [ret |-> 0, buf |-> s]
    /\ fdt_get_path(fdt, n.off, Len(s)).ret = - FDT_ERR_NOSPACE
    /\ fdt_path_offset(fdt, s) = Resolve(nodes, 0, Tail(n.path))
    /\ fdt_node_depth(fdt, n.off) = depth
    /\ \A d \in 0..depth : fdt_supernode_atdepth_offset(fdt, n.off, d).ret = Super(d)
    /\ fdt_parent_offset(fdt, n.off) = IF depth = 0 THEN - FDT_ERR_NOTFOUND ELSE Super(depth - 1)
    /\ fdt_node_depth(fdt, n.off + FDT_TAGSIZE) < 0

PhandleOf(n) == T!PhandleOf(view.tree[n.path])

(* The ordered tree of module DeviceTree, on which the boot is modelled,   *)
(* and the nodes its iterator takes below one of them.                     *)
D == INSTANCE DeviceTree

Ordered(nodes) ==
  [p \in {n.path : n \in ToSet(nodes)} |->
     [i \in DOMAIN Children(nodes, p) |-> Children(nodes, p)[i].path]]

RECURSIVE Taken(_, _)
Taken(tree, iter) ==
  IF ~ D!More(iter) THEN <<>>
  ELSE LET next == D!DeviceTreeIterateNodes(tree, iter) IN <<next.cur>> \o Taken(tree, next)

(* The kernel's lookups and its iterator over the blob give the nodes the  *)
(* boot model's give over the tree, with the right name and counts, after  *)
(* any calls, if every name is shorter than the array that takes it.       *)
KernelWalksAgree ==
  Changed /\ (\A n \in Known : Len(Last(n.path)) < kPropNameLength) =>
    LET nodes == view.nodes
        tree  == Ordered(nodes) IN
    /\ nodes # <<>> <=> DeviceTreeVerify(DeviceTreeInit(fdt)) = kDeviceTreeSuccess
    /\ \A n \in ToSet(nodes) :
         LET s    == T!PathString(n.path)
             node == DeviceTreeLookupNodeByOffset(fdt, n.off, NoNode).node
             walk == Iterated(fdt, DeviceTreeIteratorInit(node))
             told == Taken(tree, D!DeviceTreeIteratorInit(tree, n.path))
             met  == Resolve(nodes, 0, Tail(n.path))
             up   == DeviceTreeLookupNode(fdt, s, NoNode) IN
         /\ node = [name |-> Last(n.path), offset |-> n.off,
                    nChildren |-> Len(tree[n.path]), nProperties |-> Len(n.props)]
         /\ [i \in DOMAIN walk |-> walk[i].offset] = [i \in DOMAIN told |-> NodeAt(nodes, told[i]).off]
         /\ DeviceTreeNodeExists(fdt, s) = up.ret /\ (met >= 0 <=> up.ret = kDeviceTreeSuccess)
         /\ met = n.off => up.node = node
         /\ PhandleOf(n) # 0 => DeviceTreeLookupNodeByPhandle(fdt, PhandleOf(n), NoNode).node = node

(* The strings of a list, each ended by a NUL. *)
RECURSIVE Split(_, _)
Split(val, word) ==
  IF val = <<>> THEN <<>>
  ELSE IF Head(val) = NUL THEN <<word>> \o Split(Tail(val), <<>>)
  ELSE Split(Tail(val), Append(word, Head(val)))

ListOf(n) == IF COMPATIBLE \in DOMAIN view.tree[n.path]
             THEN Split(view.tree[n.path][COMPATIBLE], <<>>) ELSE <<>>

(* The searches over the whole tree return the first node after the one    *)
(* they start from that has the phandle, the value or the compatible       *)
(* string, and fdt_generate_phandle gives a handle no node has.            *)
SearchesExact ==
  Changed => LET nodes == ToSet(view.nodes)
                 all   == {PhandleOf(n) : n \in nodes}
                 lists == [n \in nodes |-> ListOf(n)]
                 given == fdt_generate_phandle(fdt) IN
    /\ \A h \in 1..3 : fdt_node_offset_by_phandle(fdt, h) = First({n.off : n \in {k \in nodes : PhandleOf(k) = h}})
    /\ IF FDT_MAX_PHANDLE \in all THEN given.ret = - FDT_ERR_NOPHANDLES
       ELSE given.ret = 0 /\ \A h \in all : h < given.phandle
    /\ \A start \in {-1} \union {n.off : n \in {k \in nodes : Len(k.path) = 1}} :
         LET later == {n \in nodes : n.off > start} IN
         /\ \A s \in NodeName : fdt_node_offset_by_compatible(fdt, start, s)
              = First({n.off : n \in {k \in later : s \in ToSet(lists[k])}})
         /\ \A p \in PropName, v \in PropVal : fdt_node_offset_by_prop_value(fdt, start, p, v)
              = First({n.off : n \in {k \in later : p \in DOMAIN view.tree[k.path] /\ view.tree[k.path][p] = v}})

(* After every call a finished blob passes fdt_check_full, its blocks lie  *)
(* one after another within totalsize, and while it is being written the   *)
(* structure growing up never meets the strings growing down.              *)
WellFormed ==
  IF Complete THEN /\ fdt_check_full(fdt, Len(fdt.m)) = 0
                   /\ fdt.version >= 17 => LaidOut(fdt)
  ELSE Building => fdt.off_dt_struct + fdt.size_dt_struct + fdt.size_dt_strings <= fdt.totalsize

(* The documentation of fdt_stringlist_count, fdt_stringlist_search and    *)
(* fdt_stringlist_get: the number of strings in a list, the index of one   *)
(* and the one at an index.                                                *)
StringlistsExact ==
  Changed => \A n \in {k \in Known : COMPATIBLE \in DOMAIN view.tree[k.path]} :
    LET l == ListOf(n) IN
    /\ fdt_stringlist_count(fdt, n.off, COMPATIBLE) = Len(l)
    /\ \A s \in NodeName : fdt_stringlist_search(fdt, n.off, COMPATIBLE, s)
         = First({i - 1 : i \in {j \in DOMAIN l : l[j] = s}})
    /\ \A i \in DOMAIN l : fdt_stringlist_get(fdt, n.off, COMPATIBLE, i - 1).s = l[i]

(* No two nodes have one phandle, whatever overlays are applied one after  *)
(* another: each brings handles that were chosen without knowing the base. *)
PhandlesUnique ==
  Complete => \A m, n \in Known : PhandleOf(m) = PhandleOf(n) /\ PhandleOf(m) # 0 => m = n

(* fdt_overlay_apply that fails half way leaves no tree that can be read   *)
(* as if it were whole, and an overlay whose phandles it has changed is    *)
(* never accepted a second time.                                           *)
HalfAppliedUnreadable ==
  [][call'.op = "overlay_apply" =>
       /\ call'.ret < 0 => fdt_ro_probe_(fdt') < 0
       /\ call'.fdto # FDT_MAGIC]_fdtVars

(* A call that fails leaves the header as it was, and every byte of every  *)
(* block: in particular fdt_property and fdt_setprop take back the name    *)
(* they have added when the value does not fit.                            *)
FailedCallKeeps ==
  [][call'.ret < 0 /\ call'.op # "overlay_apply" =>
       /\ [fdt' EXCEPT !.m = <<>>] = [fdt EXCEPT !.m = <<>>]
       /\ view' = view]_fdtVars

(* An edit moves nothing that lies before the node it is made on, nor the  *)
(* node itself: an offset a caller holds of that node or of one before it  *)
(* is still that node's, as the overlay code relies on.                    *)
EarlierOffsetsStay ==
  [][Complete /\ "at" \in DOMAIN call' =>
       \A n \in ToSet(view.nodes) :
         n.off < call'.at \/ (n.off = call'.at /\ call'.op \notin {"del_node", "nop_node", "set_name"})
           => \E k \in ToSet(view'.nodes) : k.off = n.off /\ k.path = n.path]_fdtVars
=============================================================================
