----------------------------- MODULE FdtOverlay -----------------------------
(***************************************************************************)
(* Applying an overlay to a base tree: fdt_overlay.c.  The overlay's own   *)
(* phandles are moved above those of the base, its references to them and  *)
(* to labels of the base are patched, its fragments merged into their      *)
(* targets and its symbols added.  Patching is done in place and moves     *)
(* nothing in the overlay, so its loops can be taken over the offsets they *)
(* begin with; merging moves what lies behind it in the base.              *)
(***************************************************************************)
EXTENDS FdtSw

TARGET       == <<207>>   \* "target"
TARGET_PATH  == <<208>>   \* "target-path"
OVERLAY      == <<209>>   \* "__overlay__"
SYMBOLS      == <<210>>   \* "__symbols__"
FIXUPS       == <<211>>   \* "__fixups__"
LOCAL_FIXUPS == <<212>>   \* "__local_fixups__"
COLON        == 58

(* A loop that returns the first result that is not 0. *)
Each(seq, r, Step(_, _)) == FoldLeft(LAMBDA q, e : IF q.ret # 0 THEN q ELSE Step(q.fdt, e), r, seq)

AddPhandle(a, b) == (a + b) % (UINT32_MAX + 1)

overlay_get_target_phandle(fdto, fragment) ==
  Given(fdt_getprop(fdto, fragment, TARGET), LAMBDA val :
    IF val.len < 0 THEN 0 ELSE CellOr(fdto, val, UINT32_MAX))

(* The target's offset, whether it was given by its path, and the path: p  *)
(* is the property that may hold it.                                       *)
Target(fdt, fdto, phandle, p) ==
  LET path == IF p.len < 0 THEN <<>> ELSE Str(fdto.m, fdto.off_dt_struct + p.off) IN
  [ret |-> CASE phandle = UINT32_MAX -> - FDT_ERR_BADPHANDLE
             [] phandle = 0 /\ p.len >= 0 -> fdt_path_offset(fdt, path)
             [] phandle = 0 /\ p.len = - FDT_ERR_NOTFOUND -> - FDT_ERR_BADOVERLAY
             [] phandle = 0 /\ p.len < 0 /\ p.len # - FDT_ERR_NOTFOUND -> p.len
             [] OTHER -> fdt_node_offset_by_phandle(fdt, phandle),
   bypath |-> phandle = 0, path |-> path]

overlay_get_target(fdt, fdto, fragment) ==
  Target(fdt, fdto, overlay_get_target_phandle(fdto, fragment), fdt_getprop(fdto, fragment, TARGET_PATH))
-----------------------------------------------------------------------------
(* The handles of the overlay start one too low. *)
OffsetOneShort(fdt, node, name, delta) ==
  LET val == fdt_getprop(fdt, node, name) IN
  IF val.len < 0 THEN Failed(fdt, - val.len)
  ELSE fdt_setprop_inplace(fdt, node, name, Word(AddPhandle(StructWord(fdt, val.off), delta - 1)))

OffsetAdded(fdt, node, val, name, delta) ==
  LET old == StructWord(fdt, val.off)
      new == AddPhandle(old, delta) IN
  IF val.len < 0 THEN Failed(fdt, - val.len)
  ELSE IF val.len # 4 THEN Failed(fdt, FDT_ERR_BADPHANDLE)
  ELSE IF new < old \/ new = UINT32_MAX THEN Failed(fdt, FDT_ERR_NOPHANDLES)
  ELSE fdt_setprop_inplace(fdt, node, name, Word(new))

overlay_phandle_add_offset(fdt, node, name, delta) ==
  OffsetAdded(fdt, node, fdt_getprop(fdt, node, name), name, delta)

(* A node's own phandle, then those of the nodes below it. *)
AddIfThere(fdto, node, name, delta) ==
  Given(overlay_phandle_add_offset(fdto, node, name, delta), LAMBDA r :
    IF r.ret = - FDT_ERR_NOTFOUND THEN Done(fdto) ELSE r)

RECURSIVE overlay_adjust_node_phandles(_, _, _)
overlay_adjust_node_phandles(fdto, node, delta) ==
  Each(Subnodes(fdto, node),
       Each(<<PHANDLE, LINUX_PHANDLE>>, Done(fdto), LAMBDA f, name : AddIfThere(f, node, name, delta)),
       LAMBDA f, child : overlay_adjust_node_phandles(f, child, delta))

overlay_adjust_local_phandles(fdto, delta) == overlay_adjust_node_phandles(fdto, 0, delta)

(* A property of a fixup node lists the places of the property of the same *)
(* name of the tree node where a phandle of the overlay stands.            *)
AdjustPlace(fdto, tree_node, name, tree, poffset, delta) ==
  IF poffset + 4 > tree.len THEN Failed(fdto, FDT_ERR_BADOVERLAY)
  ELSE fdt_setprop_inplace_partial(fdto, tree_node, name, poffset,
         Word(AddPhandle(StructWord(fdto, tree.off + poffset), delta)))

AdjustPlaces(fdto, tree_node, fixup, tree, delta) ==
  IF fixup.len % 4 # 0 \/ tree.len = - FDT_ERR_NOTFOUND THEN Failed(fdto, FDT_ERR_BADOVERLAY)
  ELSE IF tree.len < 0 THEN Failed(fdto, - tree.len)
  ELSE Each([i \in 1..(fixup.len \div 4) |-> i], Done(fdto), LAMBDA f, i :
         AdjustPlace(f, tree_node, fixup.name, tree, StructWord(f, fixup.off + 4 * (i - 1)), delta))

UpdateProp(fdto, tree_node, fixup, delta) ==
  IF fixup.len < 0 THEN Failed(fdto, - fixup.len)
  ELSE AdjustPlaces(fdto, tree_node, fixup, fdt_getprop(fdto, tree_node, fixup.name), delta)

RECURSIVE overlay_update_local_node_references(_, _, _, _), UpdateChild(_, _, _, _)
UpdateChild(fdto, tree_child, fixup_child, delta) ==
  IF tree_child = - FDT_ERR_NOTFOUND THEN Failed(fdto, FDT_ERR_BADOVERLAY)
  ELSE IF tree_child < 0 THEN Failed(fdto, - tree_child)
  ELSE overlay_update_local_node_references(fdto, tree_child, fixup_child, delta)

overlay_update_local_node_references(fdto, tree_node, fixup_node, delta) ==
  Each(Subnodes(fdto, fixup_node),
       Each(Properties(fdto, fixup_node), Done(fdto), LAMBDA f, fixup_prop :
              UpdateProp(f, tree_node, fdt_getprop_by_offset(f, fixup_prop), delta)),
       LAMBDA f, fixup_child :
         UpdateChild(f, fdt_subnode_offset(f, tree_node, fdt_get_name(f, fixup_child).s),
                     fixup_child, delta))

UpdateFrom(fdto, fixups, delta) ==
  IF fixups = - FDT_ERR_NOTFOUND THEN Done(fdto)
  ELSE IF fixups < 0 THEN Failed(fdto, - fixups)
  ELSE overlay_update_local_node_references(fdto, 0, fixups, delta)

overlay_update_local_references(fdto, delta) ==
  UpdateFrom(fdto, fdt_path_offset(fdto, <<SLASH>> \o LOCAL_FIXUPS), delta)
-----------------------------------------------------------------------------
(* The steps of overlay_fixup_one_phandle: each is given what the one      *)
(* before it found, and place is where the handle goes.                    *)
FixupWith(fdto, place, fixup_off, phandle) ==
  IF phandle = 0 THEN Failed(fdto, FDT_ERR_NOTFOUND)
  ELSE IF fixup_off = - FDT_ERR_NOTFOUND THEN Failed(fdto, FDT_ERR_BADOVERLAY)
  ELSE IF fixup_off < 0 THEN Failed(fdto, - fixup_off)
  ELSE fdt_setprop_inplace_partial(fdto, fixup_off, place.name, place.off, Word(phandle))

FixupTo(fdt, fdto, place, symbol_off) ==
  IF symbol_off < 0 THEN Failed(fdto, - symbol_off)
  ELSE FixupWith(fdto, place, fdt_path_offset(fdto, place.path), fdt_get_phandle(fdt, symbol_off))

FixupSymbol(fdt, fdto, place, symbol) ==
  IF symbol.len < 0 THEN Failed(fdto, - symbol.len)
  ELSE FixupTo(fdt, fdto, place, fdt_path_offset(fdt, Str(fdt.m, fdt.off_dt_struct + symbol.off)))

overlay_fixup_one_phandle(fdt, fdto, symbols_off, place, label) ==
  IF symbols_off < 0 THEN Failed(fdto, - symbols_off)
  ELSE FixupSymbol(fdt, fdto, place, fdt_getprop(fdt, symbols_off, label))

(* The loop over the len bytes at value, strings of the form path:name:offset. *)
Colon(s, from) == Smallest({i \in from..Len(s) : s[i] = COLON})

(* What a string says, num being what strtoul makes of its third part. *)
Place(s, sep1, sep2, num) ==
  [bad |-> sep2 = sep1 + 1 \/ sep2 + num.used # Len(s) \/ num.used = 0,
   path |-> SubSeq(s, 1, sep1 - 1), name |-> SubSeq(s, sep1 + 1, sep2 - 1), off |-> num.acc]

PlaceAt(s, sep1, sep2) == Place(s, sep1, sep2, strtoul(SubSeq(s, sep2 + 1, Len(s)), 10))

PlaceOf(s) ==
  IF Cardinality({i \in DOMAIN s : s[i] = COLON}) < 2 THEN [bad |-> TRUE]
  ELSE PlaceAt(s, Colon(s, 1), Colon(s, Colon(s, 1) + 1))

RECURSIVE FixupStrings(_, _, _, _, _, _), FixupString(_, _, _, _, _, _, _), FixupRest(_, _, _, _, _, _)
FixupRest(fdt, r, symbols_off, label, value, left) ==
  IF r.ret # 0 \/ left = 0 THEN r ELSE FixupStrings(fdt, r.fdt, symbols_off, label, value, left)

FixupString(fdt, fdto, symbols_off, label, place, value, left) ==
  IF place.bad THEN Failed(fdto, FDT_ERR_BADOVERLAY)
  ELSE FixupRest(fdt, overlay_fixup_one_phandle(fdt, fdto, symbols_off, place, label),
                 symbols_off, label, value, left)

FixupStrings(fdt, fdto, symbols_off, label, value, len) ==
  LET step == Strlen(fdto.m, value) + 1 IN
  IF ~ HasNul(fdto.m, value, len) THEN Failed(fdto, FDT_ERR_BADOVERLAY)
  ELSE FixupString(fdt, fdto, symbols_off, label, PlaceOf(Str(fdto.m, value)), value + step, len - step)

(* The error of fdt_getprop_by_offset in two of the loops. *)
NoSuchProp(fdt, len) == Failed(fdt, IF len = - FDT_ERR_NOTFOUND THEN FDT_ERR_INTERNAL ELSE - len)

FixupProp(fdt, fdto, symbols_off, p) ==
  IF p.len < 0 THEN NoSuchProp(fdto, p.len)
  ELSE FixupStrings(fdt, fdto, symbols_off, p.name, fdto.off_dt_struct + p.off, p.len)

overlay_fixup_phandle(fdt, fdto, symbols_off, property) ==
  FixupProp(fdt, fdto, symbols_off, fdt_getprop_by_offset(fdto, property))

FixupFrom(fdt, fdto, fixups_off, symbols_off) ==
  IF fixups_off = - FDT_ERR_NOTFOUND THEN Done(fdto)
  ELSE IF fixups_off < 0 THEN Failed(fdto, - fixups_off)
  ELSE IF symbols_off < 0 /\ symbols_off # - FDT_ERR_NOTFOUND THEN Failed(fdto, - symbols_off)
  ELSE Each(Properties(fdto, fixups_off), Done(fdto), LAMBDA f, property :
              overlay_fixup_phandle(fdt, f, symbols_off, property))

overlay_fixup_phandles(fdt, fdto) ==
  FixupFrom(fdt, fdto, fdt_path_offset(fdto, <<SLASH>> \o FIXUPS),
            fdt_path_offset(fdt, <<SLASH>> \o SYMBOLS))
-----------------------------------------------------------------------------
ApplyProp(fdt, target, fdto, p) ==
  IF p.len < 0 THEN NoSuchProp(fdt, p.len) ELSE fdt_setprop(fdt, target, p.name, Value(fdto, p))

RECURSIVE overlay_apply_node(_, _, _, _), ApplyTo(_, _, _, _)
ApplyTo(fdt, target, fdto, node) ==
  IF target < 0 THEN Failed(fdt, - target) ELSE overlay_apply_node(fdt, target, fdto, node)

(* The node to merge a subnode into: the one added, or the one there. *)
Existing(nnode) == IF nnode = - FDT_ERR_NOTFOUND THEN - FDT_ERR_INTERNAL ELSE nnode

ApplyChild(fdt, added, target, name, fdto, subnode) ==
  ApplyTo(added.fdt, IF added.ret = - FDT_ERR_EXISTS THEN Existing(fdt_subnode_offset(fdt, target, name))
                     ELSE added.ret, fdto, subnode)

ApplySubnode(fdt, target, name, fdto, subnode) ==
  ApplyChild(fdt, fdt_add_subnode(fdt, target, name), target, name, fdto, subnode)

overlay_apply_node(fdt, target, fdto, node) ==
  Each(Subnodes(fdto, node),
       Each(Properties(fdto, node), Done(fdt), LAMBDA f, property :
              ApplyProp(f, target, fdto, fdt_getprop_by_offset(fdto, property))),
       LAMBDA f, subnode : ApplySubnode(f, target, fdt_get_name(fdto, subnode).s, fdto, subnode))

MergeFragment(fdt, fdto, fragment, overlay) ==
  IF overlay = - FDT_ERR_NOTFOUND THEN Done(fdt)
  ELSE IF overlay < 0 THEN Failed(fdt, - overlay)
  ELSE ApplyTo(fdt, overlay_get_target(fdt, fdto, fragment).ret, fdto, overlay)

overlay_merge(fdt, fdto) ==
  Each(Subnodes(fdto, 0), Done(fdt), LAMBDA f, fragment :
         MergeFragment(f, fdto, fragment, fdt_subnode_offset(fdto, fragment, OVERLAY)))
-----------------------------------------------------------------------------
(* The loop of get_path_len, from a node up to the root. *)
RECURSIVE PathLen(_, _, _), PathUp(_, _, _, _)
PathUp(fdt, nodeoffset, len, namelen) ==
  CASE namelen < 0 -> namelen
    [] namelen = 0 -> IF len = 0 THEN 1 ELSE len
    [] namelen > 0 -> PathLen(fdt, fdt_parent_offset(fdt, nodeoffset), len + namelen + 1)

PathLen(fdt, nodeoffset, len) ==
  IF nodeoffset < 0 THEN nodeoffset
  ELSE PathUp(fdt, nodeoffset, len, fdt_get_name(fdt, nodeoffset).len)

get_path_len(fdt, nodeoffset) ==
  IF fdt_ro_probe_(fdt) < 0 THEN fdt_ro_probe_(fdt) ELSE PathLen(fdt, nodeoffset, 0)

(* The loop of overlay_symbol_update.  The path of a symbol is the         *)
(* fragment, the mark and the path relative to the target, if it is one to *)
(* add; s is the place of its second slash.                                *)
MARK == <<SLASH>> \o OVERLAY \o <<SLASH>>

SymbolIn(name, value, s) ==
  LET left   == Len(value) + 1 - s
      inside == left > Len(MARK) /\ SubSeq(value, s, s + Len(MARK) - 1) = MARK
      itself == left = Len(MARK) /\ SubSeq(value, s, Len(value) - 1) = Front(MARK) IN
  [add |-> inside \/ itself, name |-> name, frag |-> SubSeq(value, 2, s - 1),
   rel |-> IF inside THEN SubSeq(value, s + Len(MARK), Len(value)) ELSE <<NUL>>]

SymbolOf(name, value, slashes) ==
  IF slashes = {} THEN [add |-> FALSE] ELSE SymbolIn(name, value, Smallest(slashes))

(* The room in the base that takes the path of the target and the rest. *)
SymbolPut(fdt, root_sym, sym, path) ==
  Done(StoreStruct(fdt, fdt_getprop(fdt, root_sym, sym.name).off, path \o <<SLASH>> \o sym.rel))

(* Room is made first, which may move the target, so a target given by its *)
(* phandle is looked up again.                                             *)
SymbolPath(fdt, root_sym, sym, len, got) ==
  IF len > 1 /\ got.ret < 0 THEN Failed(fdt, - got.ret)
  ELSE SymbolPut(fdt, root_sym, sym, IF len > 1 THEN got.buf ELSE <<>>)

SymbolAgain(fdt, root_sym, sym, len, target) ==
  IF target < 0 THEN Failed(fdt, - target)
  ELSE SymbolPath(fdt, root_sym, sym, len, fdt_get_path(fdt, target, len + 1))

SymbolRoom(room, fdto, root_sym, sym, frag, target, len) ==
  IF room.ret < 0 THEN room
  ELSE IF target.bypath THEN SymbolPath(room.fdt, root_sym, sym, len, [ret |-> 0, buf |-> target.path])
  ELSE SymbolAgain(room.fdt, root_sym, sym, len, overlay_get_target(room.fdt, fdto, frag).ret)

SymbolSized(fdt, fdto, root_sym, sym, frag, target, len) ==
  IF len < 0 THEN Failed(fdt, - len)
  ELSE SymbolRoom(fdt_setprop(fdt, root_sym, sym.name,
                              Junk(len + (IF len > 1 THEN 1 ELSE 0) + Len(sym.rel))),
                  fdto, root_sym, sym, frag, target, len)

SymbolFor(fdt, fdto, root_sym, sym, frag, target) ==
  IF target.ret < 0 THEN Failed(fdt, - target.ret)
  ELSE SymbolSized(fdt, fdto, root_sym, sym, frag, target,
                   IF target.bypath THEN Len(target.path) ELSE get_path_len(fdt, target.ret))

SymbolAdded(fdt, fdto, root_sym, sym, frag) ==
  IF frag < 0 \/ fdt_subnode_offset(fdto, frag, OVERLAY) < 0 THEN Failed(fdt, FDT_ERR_BADOVERLAY)
  ELSE SymbolFor(fdt, fdto, root_sym, sym, frag, overlay_get_target(fdt, fdto, frag))

SymbolChecked(fdt, fdto, root_sym, sym) ==
  IF ~ sym.add THEN Done(fdt)
  ELSE SymbolAdded(fdt, fdto, root_sym, sym, fdt_subnode_offset(fdto, 0, sym.frag))

UpdateSymbol(fdt, fdto, root_sym, p) ==
  LET value == Value(fdto, p) IN
  IF p.len < 0 THEN Failed(fdt, - p.len)
  ELSE IF p.len < 1 \/ Last(value) # NUL \/ Contains(Front(value), NUL) \/ Head(value) # SLASH
  THEN Failed(fdt, FDT_ERR_BADVALUE)
  ELSE SymbolChecked(fdt, fdto, root_sym,
         SymbolOf(p.name, value, {i \in 2..(Len(value) - 1) : value[i] = SLASH}))

SymbolTable(fdt, there) ==
  IF there = - FDT_ERR_NOTFOUND THEN fdt_add_subnode(fdt, 0, SYMBOLS) ELSE [ret |-> there, fdt |-> fdt]

SymbolsInto(root, fdto, ov_sym) ==
  IF root.ret < 0 THEN root
  ELSE Each(Properties(fdto, ov_sym), Done(root.fdt), LAMBDA f, prop :
              UpdateSymbol(f, fdto, root.ret, fdt_getprop_by_offset(fdto, prop)))

SymbolsFrom(fdt, fdto, ov_sym) ==
  IF ov_sym < 0 THEN Done(fdt)
  ELSE SymbolsInto(SymbolTable(fdt, fdt_subnode_offset(fdt, 0, SYMBOLS)), fdto, ov_sym)

overlay_symbol_update(fdt, fdto) == SymbolsFrom(fdt, fdto, fdt_subnode_offset(fdto, 0, SYMBOLS))
-----------------------------------------------------------------------------
(* The error path returns at once. *)
NotErased(f) == f

(* A blob that may be damaged loses its magic. *)
Erased(f) == [f EXCEPT !.magic = "erased"]

(* The steps of fdt_overlay_apply, each on the result of the one before. *)
LocalUpdated(r, delta) == IF r.ret # 0 THEN r ELSE overlay_update_local_references(r.fdt, delta)
FixedUp(r, fdt)        == IF r.ret # 0 THEN r ELSE overlay_fixup_phandles(fdt, r.fdt)
MergedInto(r, fdt)     == IF r.ret # 0 THEN Failed(fdt, - r.ret) ELSE overlay_merge(fdt, r.fdt)
WithSymbols(r, fdto)   == IF r.ret # 0 THEN r ELSE overlay_symbol_update(r.fdt, fdto)

Patched(fdt, fdto, max) ==
  IF max.ret # 0 THEN Failed(fdto, - max.ret)
  ELSE FixedUp(LocalUpdated(overlay_adjust_local_phandles(fdto, max.phandle), max.phandle), fdt)

(* The result, the base and the overlay. *)
Applied_(merged, patched) ==
  [ret |-> merged.ret, fdto |-> Erased(patched.fdt),
   fdt |-> IF merged.ret = 0 THEN merged.fdt ELSE Erased(merged.fdt)]

ApplyPatched(fdt, patched) == Applied_(WithSymbols(MergedInto(patched, fdt), patched.fdt), patched)

fdt_overlay_apply(fdt, fdto) ==
  IF fdt_ro_probe_(fdt) < 0 THEN [ret |-> fdt_ro_probe_(fdt), fdt |-> fdt, fdto |-> fdto]
  ELSE IF fdt_ro_probe_(fdto) < 0 THEN [ret |-> fdt_ro_probe_(fdto), fdt |-> fdt, fdto |-> fdto]
  ELSE ApplyPatched(fdt, Patched(fdt, fdto, fdt_find_max_phandle(fdt)))
=============================================================================
