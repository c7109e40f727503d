------------------------------- MODULE FdtRo --------------------------------
(***************************************************************************)
(* Reading a flattened device tree: fdt_ro.c.  A string the library knows  *)
(* by name is one character of its own; a phandle is a number below        *)
(* UINT32_MAX + 1.  A name and its length are one argument, the string.    *)
(***************************************************************************)
EXTENDS Fdt, FiniteSets

CONSTANT UINT32_MAX   \* (uint32_t)-1, the largest value of a phandle cell

ASSUME PhandleAssumption == UINT32_MAX \in Nat \ {0}

FDT_MAX_PHANDLE == UINT32_MAX - 1

PHANDLE       == <<201>>   \* "phandle"
LINUX_PHANDLE == <<202>>   \* "linux,phandle"
COMPATIBLE    == <<203>>   \* "compatible"
ALIASES       == <<204>>   \* "aliases"

NULLSTR(err) == [len |-> err, s |-> <<>>]

fdt_get_string(fdt, stroffset) ==
  LET total == fdt.totalsize
      abs   == stroffset + fdt.off_dt_strings
      sw    == fdt.magic = FDT_SW_MAGIC
      v17   == fdt.version >= 17
      bad   == \/ abs < 0 \/ abs >= total
               \/ sw /\ (stroffset >= 0 \/ - stroffset > fdt.size_dt_strings)
               \/ ~ sw /\ (stroffset < 0 \/ (v17 /\ stroffset >= fdt.size_dt_strings))
      limit == CASE sw -> - stroffset
                 [] ~ sw /\ v17 -> fdt.size_dt_strings - stroffset
                 [] OTHER -> total - abs
      len   == Smallest({total - abs, limit})
  IN  IF fdt_ro_probe_(fdt) < 0 THEN NULLSTR(fdt_ro_probe_(fdt))
      ELSE IF bad THEN NULLSTR(- FDT_ERR_BADOFFSET)
      ELSE IF ~ HasNul(fdt.m, abs, len) THEN NULLSTR(- FDT_ERR_TRUNCATED)
      ELSE [len |-> Strlen(fdt.m, abs), s |-> Str(fdt.m, abs)]

fdt_string_eq_(fdt, stroffset, s) ==
  Given(fdt_get_string(fdt, stroffset), LAMBDA p : p.len >= 0 /\ p.s = s)

fdt_get_name(fdt, nodeoffset) ==
  LET name == fdt.off_dt_struct + nodeoffset + FDT_TAGSIZE IN
  IF fdt_ro_probe_(fdt) < 0 THEN NULLSTR(fdt_ro_probe_(fdt))
  ELSE Given(fdt_check_node_offset_(fdt, nodeoffset),
             LAMBDA err : IF err < 0 THEN NULLSTR(err)
                          ELSE [len |-> Strlen(fdt.m, name), s |-> Str(fdt.m, name)])

(* Mutant: a name must be given with its unit address. *)
NodenameWhole(fdt, offset, s) == Given(fdt_get_name(fdt, offset), LAMBDA p : p.len >= 0 /\ p.s = s)

(* A name asked for without its unit address matches one that has one. *)
fdt_nodename_eq_(fdt, offset, s) ==
  Given(fdt_get_name(fdt, offset), LAMBDA p :
    /\ p.len >= Len(s)
    /\ SubSeq(p.s, 1, Len(s)) = s
    /\ \/ p.len = Len(s)
       \/ ~ Contains(s, AT) /\ p.s[Len(s) + 1] = AT)
-----------------------------------------------------------------------------
(* Is there an n-th entry in the buffer, and the entry. *)
fdt_mem_rsv(fdt, n) == fdt.off_mem_rsvmap + n * RESERVE <= fdt.totalsize - RESERVE

fdt_get_mem_rsv(fdt, n) ==
  LET re == fdt.off_mem_rsvmap + n * RESERVE IN
  IF fdt_ro_probe_(fdt) < 0 THEN [ret |-> fdt_ro_probe_(fdt)]
  ELSE IF ~ fdt_mem_rsv(fdt, n) THEN [ret |-> - FDT_ERR_BADOFFSET]
  ELSE [ret |-> 0, address |-> fdt.m[re + 1], size |-> fdt.m[re + 9]]

RECURSIVE NumMemRsv(_, _)
NumMemRsv(fdt, i) ==
  IF ~ fdt_mem_rsv(fdt, i) THEN - FDT_ERR_TRUNCATED
  ELSE IF fdt.m[fdt.off_mem_rsvmap + i * RESERVE + 9] = 0 THEN i
  ELSE NumMemRsv(fdt, i + 1)

fdt_num_mem_rsv(fdt) == NumMemRsv(fdt, 0)
-----------------------------------------------------------------------------
(* The loop of nextprop_, which ends with an error it is given; t is the   *)
(* tag at offset.                                                          *)
RECURSIVE nextprop_(_, _), PropTurn(_, _, _)
PropTurn(fdt, offset, t) ==
  CASE t.tag = FDT_END -> IF t.next >= 0 THEN - FDT_ERR_BADSTRUCTURE ELSE t.next
    [] t.tag = FDT_PROP -> offset
    [] t.tag = FDT_NOP -> nextprop_(fdt, t.next)
    [] OTHER -> - FDT_ERR_NOTFOUND

nextprop_(fdt, offset) == IF offset < 0 THEN offset ELSE PropTurn(fdt, offset, fdt_next_tag(fdt, offset))

fdt_first_property_offset(fdt, nodeoffset) == nextprop_(fdt, fdt_check_node_offset_(fdt, nodeoffset))

fdt_next_property_offset(fdt, offset) == nextprop_(fdt, fdt_check_prop_offset_(fdt, offset))

(* The offsets fdt_for_each_property_offset takes. *)
RECURSIVE PropertiesFrom(_, _)
PropertiesFrom(fdt, o) ==
  IF o < 0 THEN <<>> ELSE <<o>> \o PropertiesFrom(fdt, fdt_next_property_offset(fdt, o))
Properties(fdt, node) == PropertiesFrom(fdt, fdt_first_property_offset(fdt, node))

NullProp(err) == [len |-> err, off |-> 0]

(* The length of a property and the offset of its tag. *)
fdt_get_property_by_offset_(fdt, offset) ==
  Given(fdt_check_prop_offset_(fdt, offset),
        LAMBDA err : IF err < 0 THEN NullProp(err)
                     ELSE [len |-> StructWord(fdt, offset + 4), off |-> offset])

nameoff(fdt, prop) == StructWord(fdt, prop + 8)

(* The loop of fdt_get_property_namelen_, p being the property at offset. *)
RECURSIVE FindProp(_, _, _), MatchProp(_, _, _)
MatchProp(fdt, p, name) ==
  IF p.len < 0 THEN NullProp(- FDT_ERR_INTERNAL)
  ELSE IF fdt_string_eq_(fdt, nameoff(fdt, p.off), name) THEN p
  ELSE FindProp(fdt, fdt_next_property_offset(fdt, p.off), name)

FindProp(fdt, offset, name) ==
  IF offset < 0 THEN NullProp(offset)
  ELSE MatchProp(fdt, fdt_get_property_by_offset_(fdt, offset), name)

fdt_get_property(fdt, nodeoffset, name) ==
  FindProp(fdt, fdt_first_property_offset(fdt, nodeoffset), name)

(* The length of a property's value and the offset of its data. *)
fdt_getprop(fdt, nodeoffset, name) ==
  [fdt_get_property(fdt, nodeoffset, name) EXCEPT !.off = @ + PROPERTY]

Value(fdt, p) == StructBytes(fdt, p.off, p.len)

Named(p, name) ==
  IF p.len < 0 THEN [name |-> <<>>, len |-> p.len, off |-> 0]
  ELSE IF name.len < 0 THEN [name |-> <<>>, len |-> name.len, off |-> 0]
  ELSE [name |-> name.s, len |-> p.len, off |-> p.off + PROPERTY]

fdt_getprop_by_offset(fdt, offset) ==
  Named(fdt_get_property_by_offset_(fdt, offset), fdt_get_string(fdt, nameoff(fdt, offset)))

(* The word a property of one cell holds, or else another value. *)
CellOr(fdt, p, other) == IF p.len = 4 THEN StructWord(fdt, p.off) ELSE other

(* Mutant: the older name of the property is forgotten. *)
PhandleOnly(fdt, nodeoffset) == CellOr(fdt, fdt_getprop(fdt, nodeoffset, PHANDLE), 0)

fdt_get_phandle(fdt, nodeoffset) ==
  CellOr(fdt, fdt_getprop(fdt, nodeoffset, PHANDLE),
         CellOr(fdt, fdt_getprop(fdt, nodeoffset, LINUX_PHANDLE), 0))
-----------------------------------------------------------------------------
(* The values of the loop over fdt_next_node(., ., NULL) that starts with   *)
(* the node after start.                                                   *)
After(fdt, start) == Visits(fdt, fdt_next_node(fdt, start, NODEPTH).offset, NODEPTH)

(* The first node of such a loop with a property, or the error it ends with. *)
FirstOf(v, hits) == IF hits = {} THEN Last(v).offset ELSE v[Smallest(hits)].offset
FirstIn(v, P(_)) == FirstOf(v, {i \in 1..(Len(v) - 1) : P(v[i].offset)})

MaxPhandle(fdt, v) ==
  IF Last(v).offset # - FDT_ERR_NOTFOUND THEN [ret |-> Last(v).offset, phandle |-> 0]
  ELSE [ret |-> 0,
        phandle |-> Max({fdt_get_phandle(fdt, v[i].offset) : i \in 1..(Len(v) - 1)} \union {0})]

fdt_find_max_phandle(fdt) == MaxPhandle(fdt, After(fdt, -1))

fdt_generate_phandle(fdt) ==
  Given(fdt_find_max_phandle(fdt), LAMBDA max :
    IF max.ret < 0 THEN max
    ELSE IF max.phandle = FDT_MAX_PHANDLE THEN [ret |-> - FDT_ERR_NOPHANDLES, phandle |-> 0]
    ELSE [ret |-> 0, phandle |-> max.phandle + 1])

(* The loop over the nodes v below a node, of which hits have the name. *)
FirstChild(v, hits) ==
  IF hits # {} THEN v[Smallest(hits)].offset
  ELSE IF Last(v).depth < 0 THEN - FDT_ERR_NOTFOUND ELSE Last(v).offset

ChildNamed(fdt, v, name) ==
  FirstChild(v, {i \in DOMAIN v : /\ v[i].offset >= 0 /\ v[i].depth = 1
                                  /\ fdt_nodename_eq_(fdt, v[i].offset, name)})

fdt_subnode_offset(fdt, parentoffset, name) ==
  IF fdt_ro_probe_(fdt) < 0 THEN fdt_ro_probe_(fdt)
  ELSE ChildNamed(fdt, Visits(fdt, parentoffset, 0), name)

(* The name a path starts with, up to the next slash. *)
Component(path) ==
  LET slashes == {i \in DOMAIN path : path[i] = SLASH} IN
  IF slashes = {} THEN path ELSE SubSeq(path, 1, Smallest(slashes) - 1)

Rest(path) == SubSeq(path, Len(Component(path)) + 1, Len(path))

(* The loop of fdt_path_offset_namelen over the rest of a path; an error   *)
(* is passed on.                                                           *)
RECURSIVE WalkPath(_, _, _)
WalkPath(fdt, offset, path) ==
  IF path = <<>> \/ offset < 0 THEN offset
  ELSE IF Head(path) = SLASH THEN WalkPath(fdt, offset, Tail(path))
  ELSE WalkPath(fdt, fdt_subnode_offset(fdt, offset, Component(path)), Rest(path))

(* The value of a property of /aliases. *)
AliasIn(fdt, aliases, name) ==
  IF aliases < 0 THEN NullProp(aliases) ELSE fdt_getprop(fdt, aliases, name)
fdt_get_alias(fdt, name) == AliasIn(fdt, WalkPath(fdt, 0, ALIASES), name)

RECURSIVE fdt_path_offset(_, _), AliasNode(_, _)
AliasNode(fdt, alias) ==
  IF alias.len < 0 THEN - FDT_ERR_BADPATH
  ELSE fdt_path_offset(fdt, Str(fdt.m, fdt.off_dt_struct + alias.off))

fdt_path_offset(fdt, path) ==
  IF fdt_ro_probe_(fdt) < 0 THEN fdt_ro_probe_(fdt)
  ELSE IF path # <<>> /\ Head(path) = SLASH THEN WalkPath(fdt, 0, path)
  ELSE WalkPath(fdt, AliasNode(fdt, fdt_get_alias(fdt, Component(path))), Rest(path))
-----------------------------------------------------------------------------
(* The errors of the two functions below when their loop ends without the node. *)
NotReached(offset) ==
  IF offset = - FDT_ERR_NOTFOUND \/ offset >= 0 THEN - FDT_ERR_BADOFFSET
  ELSE IF offset = - FDT_ERR_BADOFFSET THEN - FDT_ERR_BADSTRUCTURE ELSE offset

(* buf without the components below depth d: each is followed by a slash. *)
RECURSIVE CutTo(_, _, _)
CutTo(buf, pdepth, d) ==
  LET ends == {i \in 1..(Len(buf) - 1) : buf[i] = SLASH} IN
  IF pdepth <= d THEN buf
  ELSE CutTo(SubSeq(buf, 1, CHOOSE i \in ends : \A j \in ends : j <= i), pdepth - 1, d)

(* The loop of fdt_get_path at a node n, buf holding the p characters      *)
(* written; cut is what is left of them, pd its depth, name n's name.      *)
RECURSIVE GetPath(_, _, _, _, _, _), PathTurn(_, _, _, _, _, _, _)
PathTurn(fdt, nodeoffset, buflen, n, cut, pd, name) ==
  LET fits == pd >= n.depth /\ Len(cut) + name.len + 1 <= buflen
      out  == IF fits THEN cut \o name.s \o <<SLASH>> ELSE cut IN
  IF pd >= n.depth /\ name.len < 0 THEN [ret |-> name.len, buf |-> <<>>]
  ELSE IF n.offset # nodeoffset
  THEN GetPath(fdt, nodeoffset, buflen, fdt_next_node(fdt, n.offset, n.depth), out,
               IF fits THEN pd + 1 ELSE pd)
  ELSE IF ~ fits THEN [ret |-> - FDT_ERR_NOSPACE, buf |-> <<>>]
  ELSE [ret |-> 0, buf |-> IF Len(out) > 1 THEN Front(out) ELSE out]

GetPath(fdt, nodeoffset, buflen, n, buf, pdepth) ==
  IF n.offset < 0 \/ n.offset > nodeoffset THEN [ret |-> NotReached(n.offset), buf |-> <<>>]
  ELSE PathTurn(fdt, nodeoffset, buflen, n, CutTo(buf, pdepth, n.depth),
                Smallest({pdepth, n.depth}), fdt_get_name(fdt, n.offset))

ROOTNODE == [offset |-> 0, depth |-> 0]

(* Mutant: the slash after the last name is counted twice. *)
GetPathTight(fdt, nodeoffset, buflen) ==
  IF buflen < 2 THEN [ret |-> - FDT_ERR_NOSPACE, buf |-> <<>>]
  ELSE GetPath(fdt, nodeoffset, buflen - 1, ROOTNODE, <<>>, 0)

fdt_get_path(fdt, nodeoffset, buflen) ==
  IF fdt_ro_probe_(fdt) < 0 THEN [ret |-> fdt_ro_probe_(fdt), buf |-> <<>>]
  ELSE IF buflen < 2 THEN [ret |-> - FDT_ERR_NOSPACE, buf |-> <<>>]
  ELSE GetPath(fdt, nodeoffset, buflen, ROOTNODE, <<>>, 0)

(* The ancestor at a depth, and the depth of the node. *)
SuperAt(v, nodeoffset, supernodedepth) ==
  LET seen  == {i \in DOMAIN v : \A j \in 1..i : v[j].offset >= 0 /\ v[j].offset <= nodeoffset}
      last  == Cardinality(seen)
      super == {i \in seen : v[i].depth = supernodedepth}
      found == seen # {} /\ v[last].offset = nodeoffset
      Result(ret) == [ret |-> ret, nodedepth |-> IF found THEN v[last].depth ELSE 0] IN
  IF ~ found THEN Result(NotReached(v[last + 1].offset))
  ELSE IF supernodedepth > v[last].depth THEN Result(- FDT_ERR_NOTFOUND)
  ELSE IF super = {} THEN Result(- FDT_ERR_INTERNAL)
  ELSE Result(v[Max(super)].offset)

fdt_supernode_atdepth_offset(fdt, nodeoffset, supernodedepth) ==
  IF fdt_ro_probe_(fdt) < 0 THEN [ret |-> fdt_ro_probe_(fdt), nodedepth |-> 0]
  ELSE IF supernodedepth < 0 THEN [ret |-> - FDT_ERR_NOTFOUND, nodedepth |-> 0]
  ELSE SuperAt(Visits(fdt, 0, 0), nodeoffset, supernodedepth)

fdt_node_depth(fdt, nodeoffset) ==
  Given(fdt_supernode_atdepth_offset(fdt, nodeoffset, 0), LAMBDA r :
    CASE r.ret < 0 -> r.ret [] r.ret > 0 -> - FDT_ERR_INTERNAL [] OTHER -> r.nodedepth)

ParentAt(fdt, nodeoffset, nodedepth) ==
  IF nodedepth < 0 THEN nodedepth
  ELSE fdt_supernode_atdepth_offset(fdt, nodeoffset, nodedepth - 1).ret
fdt_parent_offset(fdt, nodeoffset) == ParentAt(fdt, nodeoffset, fdt_node_depth(fdt, nodeoffset))
-----------------------------------------------------------------------------
HasValue(fdt, p, propval) == p.len >= 0 /\ Value(fdt, p) = propval

fdt_node_offset_by_prop_value(fdt, startoffset, propname, propval) ==
  IF fdt_ro_probe_(fdt) < 0 THEN fdt_ro_probe_(fdt)
  ELSE FirstIn(After(fdt, startoffset),
               LAMBDA o : HasValue(fdt, fdt_getprop(fdt, o, propname), propval))

fdt_node_offset_by_phandle(fdt, phandle) ==
  IF phandle \in {0, UINT32_MAX} THEN - FDT_ERR_BADPHANDLE
  ELSE IF fdt_ro_probe_(fdt) < 0 THEN fdt_ro_probe_(fdt)
  ELSE FirstIn(After(fdt, -1), LAMBDA o : fdt_get_phandle(fdt, o) = phandle)

(* Is str in the list of listlen bytes at at?  The comparison reads the    *)
(* byte after str even where the list ends before it.                      *)
RECURSIVE fdt_stringlist_contains(_, _, _, _)
fdt_stringlist_contains(m, at, listlen, str) ==
  LET step == Strlen(m, at) + 1 IN
  /\ listlen >= Len(str)
  /\ \/ SubSeq(m, at + 1, at + Len(str) + 1) = Append(str, NUL)
     \/ HasNul(m, at, listlen) /\ fdt_stringlist_contains(m, at + step, listlen - step, str)

(* The pieces the loops of the functions below step through in [at, end),  *)
(* each with its NUL, and whether they end where the list does.            *)
RECURSIVE Strings(_, _, _, _)
Strings(m, at, end, found) ==
  LET length == strnlen(m, at, end - at) + 1 IN
  IF at >= end THEN [list |-> found, ends |-> TRUE]
  ELSE IF at + length > end THEN [list |-> found, ends |-> FALSE]
  ELSE Strings(m, at + length, end, Append(found, SubSeq(m, at + 1, at + length)))

Stringlist(fdt, p) ==
  Strings(fdt.m, fdt.off_dt_struct + p.off, fdt.off_dt_struct + p.off + p.len, <<>>)

fdt_stringlist_count(fdt, nodeoffset, property) ==
  LET p == fdt_getprop(fdt, nodeoffset, property)
      l == Stringlist(fdt, p) IN
  IF p.len < 0 THEN p.len ELSE IF l.ends THEN Len(l.list) ELSE - FDT_ERR_BADVALUE

fdt_stringlist_search(fdt, nodeoffset, property, string) ==
  LET p    == fdt_getprop(fdt, nodeoffset, property)
      l    == Stringlist(fdt, p)
      hits == {i \in DOMAIN l.list : l.list[i] = Append(string, NUL)} IN
  IF p.len < 0 THEN p.len
  ELSE IF hits # {} THEN Smallest(hits) - 1
  ELSE IF l.ends THEN - FDT_ERR_NOTFOUND ELSE - FDT_ERR_BADVALUE

fdt_stringlist_get(fdt, nodeoffset, property, idx) ==
  LET p == fdt_getprop(fdt, nodeoffset, property)
      l == Stringlist(fdt, p) IN
  IF p.len < 0 THEN NULLSTR(p.len)
  ELSE IF idx + 1 \in DOMAIN l.list
  THEN [len |-> Len(l.list[idx + 1]) - 1, s |-> Front(l.list[idx + 1])]
  ELSE NULLSTR(IF l.ends THEN - FDT_ERR_NOTFOUND ELSE - FDT_ERR_BADVALUE)

fdt_node_check_compatible(fdt, nodeoffset, compatible) ==
  Given(fdt_getprop(fdt, nodeoffset, COMPATIBLE), LAMBDA p :
    IF p.len < 0 THEN p.len
    ELSE IF fdt_stringlist_contains(fdt.m, fdt.off_dt_struct + p.off, p.len, compatible)
    THEN 0 ELSE 1)

(* The loop goes on while a node has another string or no list, and stops  *)
(* at a node or with an error.                                             *)
CompatibleAt(fdt, stop, compatible) ==
  IF stop < 0 THEN stop
  ELSE Given(fdt_node_check_compatible(fdt, stop, compatible),
             LAMBDA err : IF err < 0 THEN err ELSE stop)

fdt_node_offset_by_compatible(fdt, startoffset, compatible) ==
  IF fdt_ro_probe_(fdt) < 0 THEN fdt_ro_probe_(fdt)
  ELSE CompatibleAt(fdt,
         FirstIn(After(fdt, startoffset),
                 LAMBDA o : fdt_node_check_compatible(fdt, o, compatible) \notin {1, - FDT_ERR_NOTFOUND}),
         compatible)
-----------------------------------------------------------------------------
(* The loop of fdt_check_full, from the tag t at offset on. *)
RECURSIVE CheckTags(_, _, _, _), TagTurn(_, _, _, _, _)
TagTurn(fdt, offset, depth, expect_end, t) ==
  IF t.next < 0 THEN t.next
  ELSE IF expect_end /\ t.tag # FDT_END THEN - FDT_ERR_BADLAYOUT
  ELSE CASE t.tag = FDT_NOP -> CheckTags(fdt, t.next, depth, expect_end)
         [] t.tag = FDT_END -> IF depth # 0 THEN - FDT_ERR_BADSTRUCTURE ELSE 0
         [] t.tag = FDT_BEGIN_NODE ->
              IF depth = 0 /\ fdt_get_name(fdt, offset).len # 0 THEN - FDT_ERR_BADLAYOUT
              ELSE CheckTags(fdt, t.next, depth + 1, expect_end)
         [] t.tag = FDT_END_NODE ->
              IF depth = 0 THEN - FDT_ERR_BADSTRUCTURE
              ELSE CheckTags(fdt, t.next, depth - 1, depth = 1)
         [] t.tag = FDT_PROP ->
              IF fdt_getprop_by_offset(fdt, offset).len < 0
              THEN fdt_getprop_by_offset(fdt, offset).len
              ELSE CheckTags(fdt, t.next, depth, expect_end)

CheckTags(fdt, offset, depth, expect_end) ==
  TagTurn(fdt, offset, depth, expect_end, fdt_next_tag(fdt, offset))

fdt_check_full(fdt, bufsize) ==
  IF fdt_check_header(fdt) # 0 THEN fdt_check_header(fdt)
  ELSE IF bufsize < fdt.totalsize THEN - FDT_ERR_TRUNCATED
  ELSE IF fdt_num_mem_rsv(fdt) < 0 THEN fdt_num_mem_rsv(fdt)
  ELSE CheckTags(fdt, 0, 0, FALSE)
=============================================================================
