----------------------------- MODULE MCFdtBlob ------------------------------
(***************************************************************************)
(* FdtBlob for TLC.  One-letter names, one with a unit address, one that   *)
(* fills two words; property names of which one is the end of another;     *)
(* values of no, one, four and five bytes.                                 *)
(***************************************************************************)
EXTENDS FdtBlob

x  == <<120>>
x1 == <<120, AT, 49>>
wxyz == <<119, 120, 121, 122>>
a  == <<97>>
ba == <<98, 97>>

y  == <<121>>
l  == <<108>>
k  == <<107>>
f  == <<102>>
g  == <<103>>

NodeOf(path, props) == [path |-> << <<>> >> \o path, props |-> props]
Prop(n, v) == [name |-> n, val |-> v]

(* F of a value that is computed first, so that a fold does not nest. *)
Of(v, F(_)) == CHOOSE w \in {F(u) : u \in {v}} : TRUE

(* The nodes in preorder, written one after another and finished. *)
Written(nodes, rsv, size) ==
  LET Entry(b, e) == Of(b, LAMBDA c : fdt_add_reservemap_entry(c, e.address, e.size).fdt)
      map         == FoldLeft(Entry, fdt_create_with_flags(size, 0).fdt, rsv)
      Ended(b, n) == FoldLeft(LAMBDA c, i : Of(c, LAMBDA d : fdt_end_node(d).fdt), b, [i \in 1..n |-> i])
      Put(b, p)   == Of(b, LAMBDA c : fdt_property(c, p.name, p.val).fdt)
      Add(r, n)   == FoldLeft(Put, fdt_begin_node(Ended(r.b, r.depth - Len(n.path) + 1), Last(n.path)).fdt,
                              n.props)
      Step(r, n)  == Of(r, LAMBDA q : [b |-> Add(q, n), depth |-> Len(n.path)])
      all         == FoldLeft(Step, [b |-> fdt_finish_reservemap(map).fdt, depth |-> 0], nodes) IN
  fdt_finish(Ended(all.b, all.depth)).fdt

Rsv == [address |-> 3, size |-> 2]

Small == Written(<<NodeOf(<<>>, <<Prop(ba, <<9>>)>>),
                   NodeOf(<<x>>, <<Prop(a, Word(7)),
                                 Prop(COMPATIBLE, x \o <<NUL>> \o wxyz \o <<NUL>>)>>)>>, <<Rsv>>, 200)

Deep == Written(<<NodeOf(<<>>, <<>>), NodeOf(<<x1>>, <<Prop(a, <<>>), Prop(PHANDLE, Word(2))>>),
                  NodeOf(<<x1, wxyz>>, <<Prop(LINUX_PHANDLE, Word(3))>>),
                  NodeOf(<<x>>, <<Prop(COMPATIBLE, wxyz \o <<NUL>>)>>)>>, <<>>, 250)

(* A tree with a label, and the same with hardly a phandle left. *)
Board(h) == Written(<<NodeOf(<<>>, <<>>), NodeOf(<<x1>>, <<Prop(PHANDLE, Word(h)), Prop(a, <<1>>)>>),
                      NodeOf(<<SYMBOLS>>, <<Prop(l, <<SLASH>> \o x1 \o <<NUL>>)>>)>>, <<>>, 250)
(* The memory's address and size. *)
MemoryNode == Written(<<NodeOf(<<>>, <<>>), NodeOf(<<x1>>, <<Prop(REG, Word(1) \o Word(2) \o Word(3) \o Word(4)),
                                                     Prop(a, <<1>>)>>), NodeOf(<<x1, x>>, <<>>)>>, <<>>, 200)
MemoryRead ==
  DeviceTreeLookupRegValue(MemoryNode, DTNode(MemoryNode, x1, fdt_path_offset(MemoryNode, <<SLASH>> \o x1)), 0).fdt

(* A root that says how many cells its children's addresses and sizes have. *)
Ranges(address, size) ==
  Written(<<NodeOf(<<>>, <<Prop(ADDRESS_CELLS, address), Prop(SIZE_CELLS, size)>>), NodeOf(<<x>>, <<>>)>>, <<>>, 200)
-----------------------------------------------------------------------------
O == INSTANCE OverlayTree

(* An overlay, and what a compiler makes of it: the places to patch and    *)
(* the labels in nodes of their own.                                       *)
Ref(path, name, off)           == [path |-> << <<>> >> \o path, name |-> name, off |-> off]
Outer(path, name, off, label)  == Ref(path, name, off) @@ [label |-> label]
Symbol(label, path)            == [label |-> label, path |-> << <<>> >> \o path]

Over(nodes, local, external, symbols) ==
  [nodes |-> nodes, local |-> local, external |-> external, symbols |-> symbols,
   hassymbols |-> symbols # <<>>]

Concat(seqs) == FoldLeft(LAMBDA s, t : s \o t, <<>>, seqs)

LocalNode(over, n) ==
  LET here(name) == SetToSeq({e.off : e \in {d \in over.local : d.path = n.path /\ d.name = name}})
      names      == SetToSeq({d.name : d \in {e \in over.local : e.path = n.path}})
      Places(name) == Concat([i \in DOMAIN here(name) |-> Word(here(name)[i])]) IN
  [path |-> << <<>>, LOCAL_FIXUPS >> \o Tail(n.path),
   props |-> [i \in DOMAIN names |-> Prop(names[i], Places(names[i]))]]

Fixup(e) == O!PathString(e.path) \o <<COLON>> \o e.name \o <<COLON, 48 + e.off, NUL>>

Compiled(over) ==
  LET locals == SelectSeq(over.nodes, LAMBDA n : \E e \in over.local : IsPrefix(n.path, e.path))
      labels == SetToSeq({e.label : e \in over.external})
      Uses(label) == SetToSeq({e \in over.external : e.label = label})
      Fixups(label) == Concat([i \in DOMAIN Uses(label) |-> Fixup(Uses(label)[i])])
      fixups  == [i \in DOMAIN labels |-> Prop(labels[i], Fixups(labels[i]))]
      symbols == [i \in DOMAIN over.symbols |->
                    Prop(over.symbols[i].label, O!PathString(over.symbols[i].path) \o <<NUL>>)]
      Opt(c, node) == IF c THEN <<node>> ELSE <<>> IN
  Written(over.nodes \o [i \in DOMAIN locals |-> LocalNode(over, locals[i])]
          \o Opt(labels # <<>>, NodeOf(<<FIXUPS>>, fixups))
          \o Opt(over.hassymbols, NodeOf(<<SYMBOLS>>, symbols)), <<>>, 600)

(* A node with a phandle, a reference to it and one to the base, below a   *)
(* labelled node of the base; a fragment for the node the first one adds.  *)
Labelled(label) ==
  Over(<<NodeOf(<<>>, <<>>), NodeOf(<<f>>, <<Prop(TARGET, Word(15))>>), NodeOf(<<f, OVERLAY>>, <<Prop(a, <<9>>)>>),
         NodeOf(<<f, OVERLAY, y>>, <<Prop(PHANDLE, Word(1)), Prop(ba, Word(1) \o Word(15))>>),
         NodeOf(<<g>>, <<Prop(TARGET, Word(1))>>), NodeOf(<<g, OVERLAY>>, <<Prop(a, <<>>)>>)>>,
       {Ref(<<f, OVERLAY, y>>, ba, 0), Ref(<<g>>, TARGET, 0)},
       {Outer(<<f>>, TARGET, 0, label), Outer(<<f, OVERLAY, y>>, ba, 4, label)},
       <<Symbol(k, <<f, OVERLAY, y>>), Symbol(x, <<f>>)>>)

(* Two fragments of which the second has its target given by a path. *)
Pathed(path) ==
  Over(<<NodeOf(<<>>, <<>>), NodeOf(<<f>>, <<Prop(TARGET_PATH, <<SLASH, NUL>>)>>),
         NodeOf(<<f, OVERLAY>>, <<>>), NodeOf(<<f, OVERLAY, wxyz>>, <<Prop(LINUX_PHANDLE, Word(1))>>),
         NodeOf(<<g>>, <<Prop(TARGET_PATH, path \o <<NUL>>)>>),
         NodeOf(<<g, OVERLAY>>, <<Prop(ba, <<1, 2, 3, 4, 5>>)>>)>>,
       {}, {}, <<Symbol(k, <<g, OVERLAY>>)>>)

MCOverlay == {[over |-> o, blob |-> Compiled(o)] :
                o \in {Labelled(l), Labelled(k), Pathed(<<SLASH>> \o x), Pathed(<<SLASH>> \o y)}}
-----------------------------------------------------------------------------
(* A root and one property written so far, and a node begun below it. *)
Begun(flags) ==
  LET map == fdt_finish_reservemap(fdt_create_with_flags(112, flags).fdt).fdt IN
  fdt_property(fdt_begin_node(map, <<>>).fdt, ba, <<5>>).fdt

(* The same with the strings first, as another tool may lay it out, and of *)
(* the version before the structure block's size was in the header.        *)
Foreign(b) ==
  LET str == Bytes(b, b.off_dt_strings, b.size_dt_strings)
      map == Bytes(b, b.off_mem_rsvmap, b.off_dt_struct - b.off_mem_rsvmap)
      st  == Bytes(b, b.off_dt_struct, b.size_dt_struct) IN
  [b EXCEPT !.m = Zeros(HEADER) \o map \o str \o st, !.version = 16, !.size_dt_struct = 0,
            !.totalsize = HEADER + Len(map \o str \o st),
            !.off_mem_rsvmap = HEADER, !.off_dt_strings = HEADER + Len(map),
            !.off_dt_struct = HEADER + Len(map \o str)]

Spare(b, n) == fdt_open_into(b, b.totalsize + n, FALSE).fdt

Start(b, path, n) == [fdt |-> b, open |-> path, calls |-> n]

(* The board with an overlay applied, ready for the next one. *)
Applied(over) == fdt_overlay_apply(Spare(Board(2), 290), Compiled(over)).fdt

MCBlobs ==
  {Start(fdt_create_with_flags(112, fl).fdt, <<>>, 4 - fl) : fl \in {0, 1}}
  \union {Start(Begun(fl), << <<>> >>, 4 - fl) : fl \in {0, 1}}
  \union {Start(fdt_begin_node(Begun(0), x).fdt, << <<>>, x >>, 4)}
  \union {Start(b, <<>>, 2) : b \in {fdt_create_empty_tree(160).fdt, Spare(Small, 24)}}
  \union {Start(b, <<>>, 1) : b \in {Foreign(Small), Spare(Deep, 20), Spare(Board(2), 290), Spare(Board(14), 140),
                                     MemoryNode, MemoryRead, Applied(Labelled(l)), Applied(Pathed(<<SLASH>> \o x))}}
  \union {Start(Spare(Ranges(c[1], c[2]), 40), <<>>, 1) :
            c \in {<<Word(1), Word(2)>>, <<Word(1), Word(3)>>, <<Word(0), Word(1)>>, <<Word(2), Word(0)>>,
                   <<Word(5), Word(1)>>, <<Word(3), Word(1)>>, <<Word(1), <<1>>>>}}

MCNodeName == {x, x1, wxyz}
MCPropName == {a, ba}
MCPropVal  == {<<>>, <<9>>, <<1, 2, 3, 4, 5>>}
MCReserve == {Rsv}
MCAddrRange == {[address |-> 0, size |-> 2], [address |-> 3, size |-> 2],
                [address |-> 17, size |-> 2], [address |-> 3, size |-> 17]}
MCBufSize  == {112, 160, 240}
MCShift    == {-8, 8}
=============================================================================
