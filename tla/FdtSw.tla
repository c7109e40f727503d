------------------------------- MODULE FdtSw --------------------------------
(***************************************************************************)
(* Writing a flattened device tree from its beginning to its end: fdt_sw.c *)
(* and fdt_empty_tree.c.  A call returns its result and the blob.  While a *)
(* blob is being written the strings lie at the end of the buffer and grow *)
(* down; last_comp_version keeps the flags.                                *)
(***************************************************************************)
EXTENDS FdtRw

FDT_CREATE_FLAG_NO_NAME_DEDUP == 1

fdt_sw_probe_(fdt) ==
  CASE fdt.magic = FDT_MAGIC    -> - FDT_ERR_BADSTATE
    [] fdt.magic = FDT_SW_MAGIC -> 0
    [] OTHER                    -> - FDT_ERR_BADMAGIC

fdt_sw_probe_memrsv_(fdt) ==
  IF fdt_sw_probe_(fdt) < 0 THEN fdt_sw_probe_(fdt)
  ELSE IF fdt.off_dt_strings # 0 THEN - FDT_ERR_BADSTATE ELSE 0

fdt_sw_probe_struct_(fdt) ==
  IF fdt_sw_probe_(fdt) < 0 THEN fdt_sw_probe_(fdt)
  ELSE IF fdt.off_dt_strings # fdt.totalsize THEN - FDT_ERR_BADSTATE ELSE 0

(* Mutant: the strings at the end of the buffer are forgotten. *)
SpaceWithoutStrings(fdt, len) == fdt.size_dt_struct + len <= fdt.totalsize - fdt.off_dt_struct

(* Is there room for len bytes more of structure?  The space left is an    *)
(* unsigned number: below zero it is huge.                                 *)
HasSpace(fdt, len) ==
  LET spaceleft == fdt.totalsize - fdt.off_dt_struct - fdt.size_dt_strings IN
  spaceleft < 0 \/ fdt.size_dt_struct + len <= spaceleft

(* len bytes more, of which the first ones are given. *)
fdt_grab_space_(fdt, len, bytes) ==
  IF ~ HasSpace(fdt, len) THEN Failed(fdt, FDT_ERR_NOSPACE)
  ELSE Done([Store(fdt, fdt.off_dt_struct + fdt.size_dt_struct, bytes)
               EXCEPT !.size_dt_struct = @ + len])

fdt_create_with_flags(bufsize, flags) ==
  LET hdrsize == FDT_ALIGN(HEADER, RESERVE)
      fdt     == [magic |-> FDT_SW_MAGIC, version |-> FDT_LAST_SUPPORTED_VERSION,
                  last_comp_version |-> flags, totalsize |-> bufsize,
                  off_mem_rsvmap |-> hdrsize, off_dt_struct |-> hdrsize, off_dt_strings |-> 0,
                  size_dt_struct |-> 0, size_dt_strings |-> 0, m |-> Zeros(bufsize)] IN
  IF bufsize < hdrsize THEN Failed(fdt, FDT_ERR_NOSPACE)
  ELSE IF flags \notin {0, FDT_CREATE_FLAG_NO_NAME_DEDUP} THEN Failed(fdt, FDT_ERR_BADFLAGS)
  ELSE Done(fdt)


(* The new buffer begins shift bytes after the old one, which it may       *)
(* overlap: one memory holds both.                                         *)
fdt_resize(fdt, shift, bufsize) ==
  LET headsize == fdt.off_dt_struct + fdt.size_dt_struct
      tailsize == fdt.size_dt_strings
      old      == IF shift < 0 THEN - shift ELSE 0
      buf      == old + shift
      oldtail  == old + fdt.totalsize - tailsize
      newtail  == buf + bufsize - tailsize
      mem      == Junk(old) \o Bytes(fdt, 0, fdt.totalsize) \o Junk(buf + bufsize)
      Head_(m) == Memmove(m, buf, old, headsize)
      Tail_(m) == Memmove(m, newtail, oldtail, tailsize)
      moved    == IF shift <= 0 THEN Tail_(Head_(mem)) ELSE Head_(Tail_(mem)) IN
  IF fdt_sw_probe_(fdt) < 0 THEN Failed(fdt, - fdt_sw_probe_(fdt))
  ELSE IF headsize + tailsize > fdt.totalsize THEN Failed(fdt, FDT_ERR_INTERNAL)
  ELSE IF headsize + tailsize > bufsize THEN Failed(fdt, FDT_ERR_NOSPACE)
  ELSE Done([fdt EXCEPT !.totalsize = bufsize,
                        !.off_dt_strings = IF @ # 0 THEN bufsize ELSE 0,
                        !.m = SubSeq(moved, buf + 1, buf + bufsize)])

fdt_add_reservemap_entry(fdt, addr, size) ==
  IF fdt_sw_probe_memrsv_(fdt) < 0 THEN Failed(fdt, - fdt_sw_probe_memrsv_(fdt))
  ELSE IF fdt.off_dt_struct + RESERVE > fdt.totalsize THEN Failed(fdt, FDT_ERR_NOSPACE)
  ELSE Done([Store(fdt, fdt.off_dt_struct, ReserveEntry(addr, size))
               EXCEPT !.off_dt_struct = @ + RESERVE])

fdt_finish_reservemap(fdt) ==
  LET Strings_(f) == Done([f EXCEPT !.off_dt_strings = f.totalsize]) IN
  Then(fdt_add_reservemap_entry(fdt, 0, 0), Strings_)

fdt_begin_node(fdt, name) ==
  IF fdt_sw_probe_struct_(fdt) < 0 THEN Failed(fdt, - fdt_sw_probe_struct_(fdt))
  ELSE fdt_grab_space_(fdt, FDT_TAGSIZE + FDT_TAGALIGN(Len(name) + 1),
                       Word(FDT_BEGIN_NODE) \o Append(name, NUL))

fdt_end_node(fdt) ==
  IF fdt_sw_probe_struct_(fdt) < 0 THEN Failed(fdt, - fdt_sw_probe_struct_(fdt))
  ELSE fdt_grab_space_(fdt, FDT_TAGSIZE, Word(FDT_END_NODE))

(* The offset of a new string, counted back from the end of the buffer, or *)
(* 0.  What is left after it is an unsigned number.                        *)
fdt_add_string_(fdt, s) ==
  LET offset     == fdt.size_dt_strings + Len(s) + 1
      struct_top == fdt.off_dt_struct + fdt.size_dt_struct
      left       == fdt.totalsize - offset IN
  IF left >= 0 /\ left < struct_top THEN [ret |-> 0, fdt |-> fdt]
  ELSE [ret |-> - offset,
        fdt |-> [Store(fdt, left, Append(s, NUL)) EXCEPT !.size_dt_strings = offset]]

(* The same, taking the string from the table if it is there. *)
SwFindAddString(fdt, s) ==
  LET found == fdt_find_string_(fdt.m, fdt.totalsize - fdt.size_dt_strings,
                                fdt.size_dt_strings, s) IN
  IF found >= 0 THEN [ret |-> found - fdt.size_dt_strings, fdt |-> fdt]
  ELSE fdt_add_string_(fdt, s)

SwDelLastString(fdt, s) == [fdt EXCEPT !.size_dt_strings = @ - (Len(s) + 1)]

(* The property whose name became str. *)
PropertyPut(fdt, str, name, val) ==
  LET prop == fdt_grab_space_(str.fdt, PROPERTY + FDT_TAGALIGN(Len(val)),
                Word(FDT_PROP) \o Word(Len(val)) \o Word(str.ret) \o val) IN
  IF str.ret = 0 THEN Failed(fdt, FDT_ERR_NOSPACE)
  ELSE IF prop.ret < 0 /\ str.fdt.size_dt_strings > fdt.size_dt_strings
  THEN Failed(SwDelLastString(str.fdt, name), FDT_ERR_NOSPACE)
  ELSE prop

fdt_property(fdt, name, val) ==
  IF fdt_sw_probe_struct_(fdt) < 0 THEN Failed(fdt, - fdt_sw_probe_struct_(fdt))
  ELSE PropertyPut(fdt, IF fdt.last_comp_version = FDT_CREATE_FLAG_NO_NAME_DEDUP
                        THEN fdt_add_string_(fdt, name) ELSE SwFindAddString(fdt, name), name, val)

(* The loop of fdt_finish, which ends with the offset of the last tag or   *)
(* an error: name offsets now count from the beginning of the strings.     *)
RECURSIVE CorrectNames(_, _)
CorrectNames(fdt, offset) ==
  Given(fdt_next_tag(fdt, offset), LAMBDA t :
    IF t.tag = FDT_END THEN [ret |-> IF t.next < 0 THEN t.next ELSE 0, fdt |-> fdt]
    ELSE CorrectNames(IF t.tag = FDT_PROP
                      THEN [fdt EXCEPT !.m[fdt.off_dt_struct + offset + 9] = @ + fdt.size_dt_strings]
                      ELSE fdt, t.next))

fdt_finish(fdt) ==
  LET Relocate(f) ==
        LET new == f.off_dt_struct + f.size_dt_struct
            old == f.totalsize - f.size_dt_strings IN
        CorrectNames([f EXCEPT !.m = Memmove(@, new, old, f.size_dt_strings),
                               !.off_dt_strings = new], 0)
      Header_(f) == Done([f EXCEPT !.totalsize = f.off_dt_strings + f.size_dt_strings,
                                   !.last_comp_version = FDT_FIRST_SUPPORTED_VERSION,
                                   !.magic = FDT_MAGIC]) IN
  IF fdt_sw_probe_struct_(fdt) < 0 THEN Failed(fdt, - fdt_sw_probe_struct_(fdt))
  ELSE Then(Then(fdt_grab_space_(fdt, FDT_TAGSIZE, Word(FDT_END)), Relocate), Header_)

fdt_create_empty_tree(bufsize) ==
  LET Root(f) == fdt_begin_node(f, <<>>)
      Into(f) == fdt_open_into(f, bufsize, TRUE) IN
  Then(Then(Then(Then(Then(fdt_create_with_flags(bufsize, 0), fdt_finish_reservemap),
                      Root), fdt_end_node), fdt_finish), Into)
=============================================================================
