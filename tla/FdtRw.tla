------------------------------- MODULE FdtRw --------------------------------
(***************************************************************************)
(* Editing a flattened device tree in its buffer: fdt_rw.c, the edits that *)
(* keep every size (fdt_wip.c) and address ranges (fdt_addresses.c).  A    *)
(* call returns its result and the blob.                                   *)
(***************************************************************************)
EXTENDS FdtRo

Failed(fdt, err) == [ret |-> - err, fdt |-> fdt]
Done(fdt)        == [ret |-> 0, fdt |-> fdt]

(* The call k made on the blob of a result, unless that is an error. *)
Then(r, k(_)) == IF r.ret < 0 THEN r ELSE k(r.fdt)

ReserveEntry(addr, size) == <<addr>> \o Zeros(7) \o <<size>> \o Zeros(7)

fdt_blocks_misordered_(fdt, mem_rsv_size, struct_size) ==
  \/ fdt.off_mem_rsvmap < FDT_ALIGN(HEADER, 8)
  \/ fdt.off_dt_struct < fdt.off_mem_rsvmap + mem_rsv_size
  \/ fdt.off_dt_strings < fdt.off_dt_struct + struct_size
  \/ fdt.totalsize < fdt.off_dt_strings + fdt.size_dt_strings

fdt_rw_probe_(fdt) ==
  IF fdt_ro_probe_(fdt) < 0 THEN fdt_ro_probe_(fdt)
  ELSE IF fdt.version < 17 THEN - FDT_ERR_BADVERSION
  ELSE IF fdt_blocks_misordered_(fdt, RESERVE, fdt.size_dt_struct)
  THEN - FDT_ERR_BADLAYOUT ELSE 0

(* FDT_RW_PROBE: what a call does once the blob is known to be editable. *)
Probed(fdt, r) == IF fdt_rw_probe_(fdt) < 0 THEN Failed(fdt, - fdt_rw_probe_(fdt)) ELSE r

fdt_data_size_(fdt) == fdt.off_dt_strings + fdt.size_dt_strings

(* newlen bytes instead of oldlen at p. *)
fdt_splice_(fdt, p, oldlen, newlen) ==
  LET end == fdt_data_size_(fdt) IN
  IF p + oldlen > end THEN Failed(fdt, FDT_ERR_BADOFFSET)
  ELSE IF end - oldlen + newlen > fdt.totalsize THEN Failed(fdt, FDT_ERR_NOSPACE)
  ELSE Done([fdt EXCEPT !.m = Memmove(@, p + newlen, p + oldlen, end - p - oldlen)])

fdt_splice_mem_rsv_(fdt, n, oldn, newn) ==
  LET delta == (newn - oldn) * RESERVE
      Move(f) == Done([f EXCEPT !.off_dt_struct = @ + delta, !.off_dt_strings = @ + delta]) IN
  Then(fdt_splice_(fdt, fdt.off_mem_rsvmap + n * RESERVE, oldn * RESERVE, newn * RESERVE), Move)

(* The same for the structure block; offset counts from its beginning. *)
fdt_splice_struct_(fdt, offset, oldlen, newlen) ==
  LET delta == newlen - oldlen
      Move(f) == Done([f EXCEPT !.size_dt_struct = @ + delta, !.off_dt_strings = @ + delta]) IN
  Then(fdt_splice_(fdt, fdt.off_dt_struct + offset, oldlen, newlen), Move)

fdt_splice_string_(fdt, newlen) ==
  LET Grow(f) == Done([f EXCEPT !.size_dt_strings = @ + newlen]) IN
  Then(fdt_splice_(fdt, fdt_data_size_(fdt), 0, newlen), Grow)

fdt_del_last_string_(fdt, s) == [fdt EXCEPT !.size_dt_strings = @ - (Len(s) + 1)]

(* The offset of a string in the table, and whether it was added. *)
fdt_find_add_string_(fdt, s) ==
  LET found == fdt_find_string_(fdt.m, fdt.off_dt_strings, fdt.size_dt_strings, s)
      added == fdt_splice_string_(fdt, Len(s) + 1) IN
  IF found >= 0 THEN [ret |-> found, fdt |-> fdt, allocated |-> FALSE]
  ELSE IF added.ret < 0 THEN added @@ [allocated |-> FALSE]
  ELSE [ret |-> fdt.size_dt_strings, allocated |-> TRUE,
        fdt |-> Store(added.fdt, fdt_data_size_(fdt), Append(s, NUL))]

(* Bytes stored in the structure block. *)
StoreStruct(fdt, offset, bytes) == Store(fdt, fdt.off_dt_struct + offset, bytes)
-----------------------------------------------------------------------------
fdt_add_mem_rsv(fdt, address, size) ==
  LET n == fdt_num_mem_rsv(fdt)
      Fill(f) == Done(Store(f, f.off_mem_rsvmap + n * RESERVE, ReserveEntry(address, size))) IN
  Probed(fdt, Then(fdt_splice_mem_rsv_(fdt, n, 0, 1), Fill))

fdt_del_mem_rsv(fdt, n) ==
  Probed(fdt, IF n >= fdt_num_mem_rsv(fdt) THEN Failed(fdt, FDT_ERR_NOTFOUND)
              ELSE fdt_splice_mem_rsv_(fdt, n, 1, 0))

(* A property of len bytes where one of another length is; its value is    *)
(* val as far as the caller writes it.                                     *)
Resized(fdt, p, val) ==
  LET Fill(f) == Done(StoreStruct(StoreStruct(f, p.off + 4, Word(Len(val))), p.off + PROPERTY, val)) IN
  IF p.len < 0 THEN Failed(fdt, - p.len)
  ELSE Then(fdt_splice_struct_(fdt, p.off + PROPERTY, FDT_TAGALIGN(p.len), FDT_TAGALIGN(Len(val))), Fill)

fdt_resize_property_(fdt, nodeoffset, name, val) ==
  Resized(fdt, fdt_get_property(fdt, nodeoffset, name), val)

(* Mutant: the name added for the property stays when there is no space. *)
AddNoRollback(fdt, nodeoffset, name, val) ==
  LET next == fdt_check_node_offset_(fdt, nodeoffset)
      str  == fdt_find_add_string_(fdt, name)
      r    == fdt_splice_struct_(str.fdt, next, 0, PROPERTY + FDT_TAGALIGN(Len(val))) IN
  IF next < 0 THEN Failed(fdt, - next)
  ELSE IF str.ret < 0 THEN Failed(fdt, - str.ret)
  ELSE IF r.ret < 0 THEN r
  ELSE Done(StoreStruct(r.fdt, next, Word(FDT_PROP) \o Word(Len(val)) \o Word(str.ret) \o val))

(* A new property, the first of its node: next is where it goes, str what  *)
(* became of its name.                                                     *)
AddedAt(fdt, next, str, name, val) ==
  LET r == fdt_splice_struct_(str.fdt, next, 0, PROPERTY + FDT_TAGALIGN(Len(val))) IN
  IF next < 0 THEN Failed(fdt, - next)
  ELSE IF str.ret < 0 THEN Failed(fdt, - str.ret)
  ELSE IF r.ret < 0
  THEN Failed(IF str.allocated THEN fdt_del_last_string_(str.fdt, name) ELSE str.fdt, - r.ret)
  ELSE Done(StoreStruct(r.fdt, next, Word(FDT_PROP) \o Word(Len(val)) \o Word(str.ret) \o val))

fdt_add_property_(fdt, nodeoffset, name, val) ==
  AddedAt(fdt, fdt_check_node_offset_(fdt, nodeoffset), fdt_find_add_string_(fdt, name), name, val)

Renamed(fdt, nodeoffset, old, name) ==
  LET Fill(f) == Done(StoreStruct(f, nodeoffset + FDT_TAGSIZE, Append(name, NUL))) IN
  IF old.len < 0 THEN Failed(fdt, - old.len)
  ELSE Then(fdt_splice_struct_(fdt, nodeoffset + FDT_TAGSIZE, FDT_TAGALIGN(old.len + 1),
                               FDT_TAGALIGN(Len(name) + 1)), Fill)

fdt_set_name(fdt, nodeoffset, name) ==
  Probed(fdt, Renamed(fdt, nodeoffset, fdt_get_name(fdt, nodeoffset), name))

(* What resizing a property gave, or a new one if there was none. *)
OrAdded(r, fdt, nodeoffset, name, val) ==
  IF r.ret = - FDT_ERR_NOTFOUND THEN fdt_add_property_(fdt, nodeoffset, name, val) ELSE r

fdt_setprop(fdt, nodeoffset, name, val) ==
  Probed(fdt, OrAdded(fdt_resize_property_(fdt, nodeoffset, name, val), fdt, nodeoffset, name, val))

Appended(fdt, nodeoffset, p, name, val) ==
  LET newlen  == Len(val) + p.len
      Fill(f) == Done(StoreStruct(StoreStruct(f, p.off + 4, Word(newlen)),
                                  p.off + PROPERTY + p.len, val)) IN
  IF p.len < 0 THEN fdt_add_property_(fdt, nodeoffset, name, val)
  ELSE Then(fdt_splice_struct_(fdt, p.off + PROPERTY, FDT_TAGALIGN(p.len), FDT_TAGALIGN(newlen)), Fill)

fdt_appendprop(fdt, nodeoffset, name, val) ==
  Probed(fdt, Appended(fdt, nodeoffset, fdt_get_property(fdt, nodeoffset, name), name, val))

(* What F does with a property that was found. *)
WithProp(fdt, p, F(_)) == IF p.len < 0 THEN Failed(fdt, - p.len) ELSE F(p)

fdt_delprop(fdt, nodeoffset, name) ==
  Probed(fdt, WithProp(fdt, fdt_get_property(fdt, nodeoffset, name), LAMBDA p :
    fdt_splice_struct_(fdt, p.off, PROPERTY + FDT_TAGALIGN(p.len), 0)))

(* Where the properties of a node, with the NOPs among them, end. *)
RECURSIVE PropsEnd(_, _)
PropsEnd(fdt, offset) ==
  Given(fdt_next_tag(fdt, offset), LAMBDA t :
    IF t.tag \in {FDT_PROP, FDT_NOP} THEN PropsEnd(fdt, t.next) ELSE offset)

(* Mutant: the new node is put in front of its parent. *)
AddBefore(fdt, parentoffset, name) ==
  LET node    == Word(FDT_BEGIN_NODE) \o name \o Zeros(FDT_TAGALIGN(Len(name) + 1) - Len(name))
                 \o Word(FDT_END_NODE)
      Fill(f) == [ret |-> parentoffset, fdt |-> StoreStruct(f, parentoffset, node)] IN
  Probed(fdt, IF fdt_subnode_offset(fdt, parentoffset, name) >= 0 THEN Failed(fdt, FDT_ERR_EXISTS)
              ELSE Then(fdt_splice_struct_(fdt, parentoffset, 0, Len(node)), Fill))

(* A node at an offset, unless it is there; the result is the offset. *)
NodeAdded(fdt, there, offset, name) ==
  LET namelen == FDT_TAGALIGN(Len(name) + 1)
      node    == Word(FDT_BEGIN_NODE) \o name \o Zeros(namelen - Len(name)) \o Word(FDT_END_NODE)
      Fill(f) == [ret |-> offset, fdt |-> StoreStruct(f, offset, node)] IN
  IF there >= 0 THEN Failed(fdt, FDT_ERR_EXISTS)
  ELSE IF there # - FDT_ERR_NOTFOUND THEN Failed(fdt, - there)
  ELSE Then(fdt_splice_struct_(fdt, offset, 0, Len(node)), Fill)

fdt_add_subnode(fdt, parentoffset, name) ==
  Probed(fdt, NodeAdded(fdt, fdt_subnode_offset(fdt, parentoffset, name),
                        PropsEnd(fdt, fdt_next_tag(fdt, parentoffset).next), name))

(* Where the node that was entered n.depth levels up ends. *)
RECURSIVE NodeEnd(_, _)
NodeEnd(fdt, n) ==
  IF n.offset >= 0 /\ n.depth >= 0 THEN NodeEnd(fdt, fdt_next_node(fdt, n.offset, n.depth))
  ELSE n.offset

fdt_node_end_offset_(fdt, offset) == NodeEnd(fdt, [offset |-> offset, depth |-> 0])

fdt_del_node(fdt, nodeoffset) ==
  Probed(fdt, Given(fdt_node_end_offset_(fdt, nodeoffset), LAMBDA end :
    IF end < 0 THEN Failed(fdt, - end)
    ELSE fdt_splice_struct_(fdt, nodeoffset, end - nodeoffset, 0)))
-----------------------------------------------------------------------------
(* The blocks of old, packed, in the memory m from base on: the memory and *)
(* the header the blob has there.                                          *)
fdt_packblocks_(old, m, base, mem_rsv_size, struct_size) ==
  LET mem_rsv_off == FDT_ALIGN(HEADER, 8)
      struct_off  == mem_rsv_off + mem_rsv_size
      strings_off == struct_off + struct_size
      m1 == Memmove(m, base + mem_rsv_off, old.off_mem_rsvmap, mem_rsv_size)
      m2 == Memmove(m1, base + struct_off, old.off_dt_struct, struct_size)
      m3 == Memmove(m2, base + strings_off, old.off_dt_strings, old.size_dt_strings) IN
  [old EXCEPT !.off_mem_rsvmap = mem_rsv_off, !.off_dt_struct = struct_off,
              !.size_dt_struct = struct_size, !.off_dt_strings = strings_off, !.m = m3]

RECURSIVE StructEnd(_, _)
StructEnd(fdt, offset) ==
  Given(fdt_next_tag(fdt, offset), LAMBDA t :
    IF t.tag = FDT_END THEN t.next ELSE StructEnd(fdt, t.next))

MemRsvSize(fdt) == (fdt_num_mem_rsv(fdt) + 1) * RESERVE

(* Into a buffer of bufsize bytes that is disjoint from the blob's, or     *)
(* begins where the blob does.  A tree whose blocks must be reordered is   *)
(* built in the new buffer, or after the old tree if that is in the way.   *)
Opened(fdt, bufsize, inplace, mem_rsv_size, struct_size) ==
  LET newsize     == FDT_ALIGN(HEADER, 8) + mem_rsv_size + struct_size + fdt.size_dt_strings
      tmp         == fdt.totalsize     \* where the new tree is built, after the old one
      packed      == fdt_packblocks_(fdt, Bytes(fdt, 0, tmp) \o Junk(newsize), tmp,
                                     mem_rsv_size, struct_size)
      Header_(f)  == Done([f EXCEPT !.version = 17, !.size_dt_struct = struct_size,
                                    !.totalsize = bufsize]) IN
  IF struct_size < 0 THEN Failed(fdt, - struct_size)
  ELSE IF ~ fdt_blocks_misordered_(fdt, mem_rsv_size, struct_size)
  THEN Then(fdt_move(fdt, bufsize), Header_)
  ELSE IF bufsize < newsize \/ (inplace /\ tmp + newsize > bufsize)
  THEN Failed(fdt, FDT_ERR_NOSPACE)
  ELSE Done([packed EXCEPT !.magic = FDT_MAGIC, !.totalsize = bufsize, !.version = 17,
                           !.last_comp_version = 16,
                           !.m = SubSeq(@, tmp + 1, tmp + newsize) \o Junk(bufsize - newsize)])

fdt_open_into(fdt, bufsize, inplace) ==
  IF fdt_ro_probe_(fdt) < 0 THEN Failed(fdt, - fdt_ro_probe_(fdt))
  ELSE Opened(fdt, bufsize, inplace, MemRsvSize(fdt),
              IF fdt.version >= 17 THEN fdt.size_dt_struct ELSE StructEnd(fdt, 0))

fdt_pack(fdt) ==
  LET packed == fdt_packblocks_(fdt, fdt.m, 0, MemRsvSize(fdt), fdt.size_dt_struct) IN
  Probed(fdt, Done([packed EXCEPT !.totalsize = fdt_data_size_(packed)]))
-----------------------------------------------------------------------------
(* fdt_setprop_inplace_namelen_partial *)
fdt_setprop_inplace_partial(fdt, nodeoffset, name, idx, val) ==
  WithProp(fdt, fdt_getprop(fdt, nodeoffset, name), LAMBDA p :
    IF p.len < Len(val) + idx THEN Failed(fdt, FDT_ERR_NOSPACE)
    ELSE Done(StoreStruct(fdt, p.off + idx, val)))

SetInplace(fdt, nodeoffset, p, name, val) ==
  IF p.len < 0 THEN Failed(fdt, - p.len)
  ELSE IF p.len # Len(val) THEN Failed(fdt, FDT_ERR_NOSPACE)
  ELSE fdt_setprop_inplace_partial(fdt, nodeoffset, name, 0, val)

fdt_setprop_inplace(fdt, nodeoffset, name, val) ==
  SetInplace(fdt, nodeoffset, fdt_getprop(fdt, nodeoffset, name), name, val)

fdt_nop_region_(fdt, offset, len) ==
  StoreStruct(fdt, offset, [i \in 1..FDT_TAGALIGN(len) |-> IF i % 4 = 1 THEN FDT_NOP ELSE 0])

fdt_nop_property(fdt, nodeoffset, name) ==
  WithProp(fdt, fdt_get_property(fdt, nodeoffset, name), LAMBDA p :
    Done(fdt_nop_region_(fdt, p.off, p.len + PROPERTY)))

fdt_nop_node(fdt, nodeoffset) ==
  Given(fdt_node_end_offset_(fdt, nodeoffset), LAMBDA end :
    IF end < 0 THEN Failed(fdt, - end)
    ELSE Done(fdt_nop_region_(fdt, nodeoffset, end - nodeoffset)))
-----------------------------------------------------------------------------
ADDRESS_CELLS == <<205>>   \* "#address-cells"
SIZE_CELLS    == <<206>>   \* "#size-cells"
FDT_MAX_NCELLS == 4

fdt_cells(fdt, nodeoffset, name) ==
  Given(fdt_getprop(fdt, nodeoffset, name), LAMBDA c :
    IF c.len < 0 THEN c.len
    ELSE IF c.len # 4 \/ StructWord(fdt, c.off) > FDT_MAX_NCELLS THEN - FDT_ERR_BADNCELLS
    ELSE StructWord(fdt, c.off))

fdt_address_cells(fdt, nodeoffset) ==
  Given(fdt_cells(fdt, nodeoffset, ADDRESS_CELLS), LAMBDA val :
    CASE val = 0 -> - FDT_ERR_BADNCELLS [] val = - FDT_ERR_NOTFOUND -> 2 [] OTHER -> val)

fdt_size_cells(fdt, nodeoffset) ==
  Given(fdt_cells(fdt, nodeoffset, SIZE_CELLS), LAMBDA val :
    IF val = - FDT_ERR_NOTFOUND THEN 1 ELSE val)

(* fdt32_st and fdt64_st *)
Cells(n, val) == IF n = 1 THEN Word(val)
                 ELSE Word(val \div (UINT32_MAX + 1)) \o Word(val % (UINT32_MAX + 1))

(* Does a range with one address cell pass the check of its address?  The  *)
(* sum UINT32_MAX + 1 is one of 32-bit unsigned numbers, the difference    *)
(* from addr one of 64-bit ones.                                           *)
AddressFits(addr, size) ==
  LET sum == (UINT32_MAX + 1) % (UINT32_MAX + 1) IN
  addr <= UINT32_MAX /\ (sum - addr) % ((UINT32_MAX + 1) * (UINT32_MAX + 1)) >= size

RangeAppended(fdt, ac, sc, nodeoffset, name, addr, size) ==
  IF ac < 0 THEN Failed(fdt, - ac)
  ELSE IF sc < 0 THEN Failed(fdt, - sc)
  ELSE IF ac = 1 /\ ~ AddressFits(addr, size) THEN Failed(fdt, FDT_ERR_BADVALUE)
  ELSE IF ac \notin {1, 2} THEN Failed(fdt, FDT_ERR_BADNCELLS)
  ELSE IF sc = 1 /\ size > UINT32_MAX THEN Failed(fdt, FDT_ERR_BADVALUE)
  ELSE IF sc \notin {1, 2} THEN Failed(fdt, FDT_ERR_BADNCELLS)
  ELSE fdt_appendprop(fdt, nodeoffset, name, Cells(ac, addr) \o Cells(sc, size))

fdt_appendprop_addrrange(fdt, parent, nodeoffset, name, addr, size) ==
  RangeAppended(fdt, fdt_address_cells(fdt, parent), fdt_size_cells(fdt, parent),
                nodeoffset, name, addr, size)
=============================================================================
