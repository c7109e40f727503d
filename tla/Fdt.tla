-------------------------------- MODULE Fdt ---------------------------------
(***************************************************************************)
(* Flattened device trees as libkern/libfdt sees them: the blob, and the   *)
(* walks of fdt.c over it.                                                 *)
(*                                                                         *)
(* A blob is the header's fields and the bytes m of its buffer; the byte   *)
(* at offset o is m[o + 1].  A 32-bit word sits whole in the first of its  *)
(* four bytes.  A character is a number and a string a sequence of them.   *)
(* Functions that return an offset, a length or an error return the same   *)
(* number here; a pointer is an offset and a length, and NULL has a        *)
(* negative length, the error.  FDT_ASSUME_MASK is 0, as it is built, so   *)
(* every check is made.  Blobs have version 16 or 17: what the library     *)
(* does only for older ones is left out, and so are lengths so near 2^32   *)
(* that adding them to an offset wraps.                                    *)
(***************************************************************************)
EXTENDS CString

FDT_ERR_NOTFOUND     == 1
FDT_ERR_EXISTS       == 2
FDT_ERR_NOSPACE      == 3
FDT_ERR_BADOFFSET    == 4
FDT_ERR_BADPATH      == 5
FDT_ERR_BADPHANDLE   == 6
FDT_ERR_BADSTATE     == 7
FDT_ERR_TRUNCATED    == 8
FDT_ERR_BADMAGIC     == 9
FDT_ERR_BADVERSION   == 10
FDT_ERR_BADSTRUCTURE == 11
FDT_ERR_BADLAYOUT    == 12
FDT_ERR_INTERNAL     == 13
FDT_ERR_BADNCELLS    == 14
FDT_ERR_BADVALUE     == 15
FDT_ERR_BADOVERLAY   == 16
FDT_ERR_NOPHANDLES   == 17
FDT_ERR_BADFLAGS     == 18

FDT_BEGIN_NODE == 1
FDT_END_NODE   == 2
FDT_PROP       == 3
FDT_NOP        == 4
FDT_END        == 9

FDT_TAGSIZE == 4
HEADER      == 40     \* sizeof(struct fdt_header)
RESERVE     == 16     \* sizeof(struct fdt_reserve_entry)
PROPERTY    == 12     \* sizeof(struct fdt_property): tag, len, nameoff

FDT_MAGIC    == "FDT_MAGIC"
FDT_SW_MAGIC == "FDT_SW_MAGIC"
FDT_FIRST_SUPPORTED_VERSION == 2
FDT_LAST_SUPPORTED_VERSION  == 17

FDT_ALIGN(x, a) == ((x + a - 1) \div a) * a
FDT_TAGALIGN(x) == FDT_ALIGN(x, FDT_TAGSIZE)

SLASH == 47
AT    == 64

Zeros(n) == [i \in 1..n |-> 0]

(* What a byte of memory that nobody has written holds. *)
JUNK    == 255
Junk(n) == [i \in 1..n |-> JUNK]

(* Bytes of the buffer, and the buffer with bytes stored at offset o. *)
Bytes(fdt, o, n) == SubSeq(fdt.m, o + 1, o + n)
Store(fdt, o, bytes) ==
  [fdt EXCEPT !.m = SubSeq(@, 1, o) \o bytes \o SubSeq(@, o + Len(bytes) + 1, Len(@))]
Word(n) == <<n, 0, 0, 0>>

(* A word and bytes of the structure block. *)
StructWord(fdt, offset)     == fdt.m[fdt.off_dt_struct + offset + 1]
StructBytes(fdt, offset, n) == Bytes(fdt, fdt.off_dt_struct + offset, n)
-----------------------------------------------------------------------------
fdt_ro_probe_(fdt) ==
  IF fdt.magic = FDT_MAGIC
  THEN IF \/ fdt.version < FDT_FIRST_SUPPORTED_VERSION
          \/ fdt.last_comp_version > FDT_LAST_SUPPORTED_VERSION
       THEN - FDT_ERR_BADVERSION ELSE fdt.totalsize
  ELSE IF fdt.magic # FDT_SW_MAGIC THEN - FDT_ERR_BADMAGIC
  ELSE IF fdt.size_dt_struct = 0 THEN - FDT_ERR_BADSTATE ELSE fdt.totalsize

check_off_(hdrsize, totalsize, off) == off >= hdrsize /\ off <= totalsize

check_block_(hdrsize, totalsize, base, size) ==
  check_off_(hdrsize, totalsize, base) /\ check_off_(hdrsize, totalsize, base + size)

fdt_header_size(fdt) == IF fdt.version <= 16 THEN HEADER - 4 ELSE HEADER

fdt_check_header(fdt) ==
  LET hdrsize == fdt_header_size(fdt)
      total   == fdt.totalsize IN
  IF fdt.magic # FDT_MAGIC THEN - FDT_ERR_BADMAGIC
  ELSE IF \/ fdt.version < FDT_FIRST_SUPPORTED_VERSION
          \/ fdt.last_comp_version > FDT_LAST_SUPPORTED_VERSION
          \/ fdt.version < fdt.last_comp_version
  THEN - FDT_ERR_BADVERSION
  ELSE IF /\ total >= hdrsize /\ check_off_(hdrsize, total, fdt.off_mem_rsvmap)
          /\ IF fdt.version < 17 THEN check_off_(hdrsize, total, fdt.off_dt_struct)
             ELSE check_block_(hdrsize, total, fdt.off_dt_struct, fdt.size_dt_struct)
          /\ check_block_(hdrsize, total, fdt.off_dt_strings, fdt.size_dt_strings)
  THEN 0 ELSE - FDT_ERR_TRUNCATED

(* Is the result a pointer, not NULL? *)
fdt_offset_ptr(fdt, offset, len) ==
  /\ offset >= 0
  /\ fdt.off_dt_struct + offset + len <= fdt.totalsize
  /\ fdt.version >= 17 => offset + len <= fdt.size_dt_struct

(* F of a value that is computed once. *)
Given(v, F(_)) == F(v)

Tags == {FDT_BEGIN_NODE, FDT_PROP, FDT_END, FDT_END_NODE, FDT_NOP}

(* Where what belongs to a tag ends, if its word ends at offset. *)
TagEnd(fdt, tag, offset) ==
  CASE tag = FDT_BEGIN_NODE -> offset + Strlen(fdt.m, fdt.off_dt_struct + offset) + 1
    [] tag = FDT_PROP -> offset + PROPERTY - FDT_TAGSIZE + StructWord(fdt, offset)
    [] OTHER -> offset

(* The bytes that are looked at for a tag, and then all, must be in the block. *)
TagComplete(fdt, startoffset, tag, end) ==
  /\ tag \in Tags
  /\ tag = FDT_BEGIN_NODE => fdt_offset_ptr(fdt, end - 1, 1)
  /\ tag = FDT_PROP => fdt_offset_ptr(fdt, startoffset + FDT_TAGSIZE, FDT_TAGSIZE)
  /\ fdt_offset_ptr(fdt, startoffset, end - startoffset)

NextTag(fdt, startoffset, tag, end) ==
  IF TagComplete(fdt, startoffset, tag, end) THEN [tag |-> tag, next |-> FDT_TAGALIGN(end)]
  ELSE [tag |-> FDT_END, next |-> - FDT_ERR_BADSTRUCTURE]

(* The tag at an offset, and the offset of the tag after it or an error. *)
fdt_next_tag(fdt, startoffset) ==
  IF ~ fdt_offset_ptr(fdt, startoffset, FDT_TAGSIZE)
  THEN [tag |-> FDT_END, next |-> - FDT_ERR_TRUNCATED]
  ELSE NextTag(fdt, startoffset, StructWord(fdt, startoffset),
               TagEnd(fdt, StructWord(fdt, startoffset), startoffset + FDT_TAGSIZE))

Check_offset(fdt, offset, tag) ==
  IF offset < 0 \/ offset % FDT_TAGSIZE # 0 THEN - FDT_ERR_BADOFFSET
  ELSE Given(fdt_next_tag(fdt, offset),
             LAMBDA t : IF t.tag # tag THEN - FDT_ERR_BADOFFSET ELSE t.next)

fdt_check_node_offset_(fdt, offset) == Check_offset(fdt, offset, FDT_BEGIN_NODE)
fdt_check_prop_offset_(fdt, offset) == Check_offset(fdt, offset, FDT_PROP)

(* What a caller passes that has no use for the depth. *)
NODEPTH == -100

(* The loop of fdt_next_node, and what a turn of it does with the tag t at *)
(* offset.                                                                 *)
RECURSIVE NextNode(_, _, _), NodeTurn(_, _, _, _)
NodeTurn(fdt, offset, depth, t) ==
  LET Depth(n) == IF depth = NODEPTH THEN depth ELSE depth + n IN
  CASE t.tag = FDT_BEGIN_NODE -> [offset |-> offset, depth |-> Depth(1)]
    [] t.tag = FDT_END_NODE /\ depth # NODEPTH /\ depth - 1 < 0 ->
         [offset |-> t.next, depth |-> depth - 1]
    [] t.tag = FDT_END ->
         [offset |-> IF t.next >= 0 \/ (t.next = - FDT_ERR_TRUNCATED /\ depth = NODEPTH)
                     THEN - FDT_ERR_NOTFOUND ELSE t.next,
          depth  |-> depth]
    [] OTHER -> NextNode(fdt, t.next, IF t.tag = FDT_END_NODE THEN Depth(-1) ELSE depth)

NextNode(fdt, offset, depth) == NodeTurn(fdt, offset, depth, fdt_next_tag(fdt, offset))

NodeAfter(fdt, first, depth) ==
  IF first < 0 THEN [offset |-> first, depth |-> depth] ELSE NextNode(fdt, first, depth)

(* The result, and the depth counter the caller passed, as it is afterwards. *)
fdt_next_node(fdt, offset, depth) ==
  NodeAfter(fdt, IF offset >= 0 THEN fdt_check_node_offset_(fdt, offset) ELSE 0, depth)

(* The values the variables of a loop over fdt_next_node take, starting    *)
(* with those of n, the ones that end the loop included.                   *)
RECURSIVE VisitsFrom(_, _)
VisitsFrom(fdt, n) ==
  <<n>> \o IF n.offset < 0 \/ (n.depth # NODEPTH /\ n.depth < 0) THEN <<>>
           ELSE VisitsFrom(fdt, fdt_next_node(fdt, n.offset, n.depth))

Visits(fdt, offset, depth) == VisitsFrom(fdt, [offset |-> offset, depth |-> depth])

fdt_first_subnode(fdt, offset) ==
  Given(fdt_next_node(fdt, offset, 0),
        LAMBDA n : IF n.offset < 0 \/ n.depth # 1 THEN - FDT_ERR_NOTFOUND ELSE n.offset)

(* The loop of fdt_next_subnode, once it has come to n. *)
RECURSIVE NextSubnode(_, _)
NextSubnode(fdt, n) ==
  IF n.offset < 0 \/ n.depth < 1 THEN - FDT_ERR_NOTFOUND
  ELSE IF n.depth > 1 THEN NextSubnode(fdt, fdt_next_node(fdt, n.offset, n.depth)) ELSE n.offset

fdt_next_subnode(fdt, offset) == NextSubnode(fdt, fdt_next_node(fdt, offset, 1))

(* The offsets fdt_for_each_subnode takes. *)
RECURSIVE SubnodesFrom(_, _)
SubnodesFrom(fdt, o) == IF o < 0 THEN <<>> ELSE <<o>> \o SubnodesFrom(fdt, fdt_next_subnode(fdt, o))
Subnodes(fdt, node) == SubnodesFrom(fdt, fdt_first_subnode(fdt, node))

(* The offset of the string s in the strings [base, base + tabsize) of the *)
(* buffer, counted from base; a string may be the end of another.          *)
fdt_find_string_(m, base, tabsize, s) ==
  LET z    == Append(s, NUL)
      hits == {p \in 0..(tabsize - Len(z)) : SubSeq(m, base + p + 1, base + p + Len(z)) = z} IN
  IF hits = {} THEN - FDT_ERR_NOTFOUND ELSE CHOOSE p \in hits : \A q \in hits : p <= q

(* fdt_move into a buffer of bufsize bytes: the result and the buffer. *)
fdt_move(fdt, bufsize) ==
  IF fdt_ro_probe_(fdt) < 0 THEN [ret |-> fdt_ro_probe_(fdt), fdt |-> fdt]
  ELSE IF fdt.totalsize > bufsize THEN [ret |-> - FDT_ERR_NOSPACE, fdt |-> fdt]
  ELSE [ret |-> 0, fdt |-> [fdt EXCEPT !.m = Bytes(fdt, 0, fdt.totalsize)
                                              \o Junk(bufsize - fdt.totalsize)]]
=============================================================================
