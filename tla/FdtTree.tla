------------------------------ MODULE FdtTree -------------------------------
(***************************************************************************)
(* What the calls that build and edit a device tree promise their caller,  *)
(* with no blob: a tree, the memory reservations and the last call made.   *)
(* The comments before the probes of fdt_sw.c and those of libfdt.h say    *)
(* which calls a phase allows and which error means what.                  *)
(*                                                                         *)
(* A path is the sequence of names from the root, whose name is empty,     *)
(* down; a node is the function of its properties' values.  A call may     *)
(* fail for lack of space only when it needs more of it, and a call that   *)
(* fails changes nothing.                                                  *)
(***************************************************************************)
EXTENDS OverlayTree

CONSTANTS
  REG,                        \* the name of the property with an address and a size
  ADDRESS_CELLS, SIZE_CELLS   \* and of those with the number of cells of each

VARIABLES
  phase,   \* "memrsv" or "struct" while it is written, then "complete", or
           \* "foreign" if it must be moved before its size can change,
           \* "damaged" when a call has given it up half way
  tree,    \* path -> property name -> value
  rsv,     \* sequence of [address, size]
  call     \* the last call: op, path, name, val, ret

vars == <<phase, tree, rsv, call>>

OK       == 0
NOTFOUND == -1
EXISTS   == -2
NOSPACE  == -3
BADSTATE == -7
BADMAGIC == -9
BADVERSION == -10
BADLAYOUT  == -12
BADNCELLS  == -14
BADVALUE   == -15

Below(path) == {q \in DOMAIN tree : IsPrefix(path, q)}

(* A buffer fdt_create has prepared, or a tree written to some point. *)
Init ==
  /\ call.op = "create"
  /\ phase \in {"memrsv", "struct", "complete", "foreign"}
  /\ phase = "memrsv" => tree = <<>>
  /\ \A p \in DOMAIN tree : Len(p) > 1 => Front(p) \in DOMAIN tree

Is(op)      == call'.op = op
Result(ret) == call'.ret = ret
Same        == UNCHANGED <<phase, tree, rsv>>
SameBut(v)  == UNCHANGED v

(* A call of the wrong phase is refused and changes nothing. *)
Refused(allowed) == /\ phase # allowed /\ Same
                    /\ Result(IF phase = "damaged" THEN BADMAGIC ELSE BADSTATE)

(* So is one that changes sizes while the blob is foreign. *)
Foreign == phase = "foreign" /\ call'.ret \in {BADVERSION, BADLAYOUT} /\ Same
Edit(op) == Is(op) /\ phase = "complete"
-----------------------------------------------------------------------------
AddReserveMapEntry ==
  /\ Is("add_reservemap_entry")
  /\ \/ Refused("memrsv")
     \/ phase = "memrsv" /\ Result(NOSPACE) /\ Same
     \/ /\ phase = "memrsv" /\ Result(OK)
        /\ rsv' = Append(rsv, call'.val) /\ SameBut(<<phase, tree>>)

FinishReserveMap ==
  /\ Is("finish_reservemap")
  /\ \/ Refused("memrsv")
     \/ phase = "memrsv" /\ Result(NOSPACE) /\ Same
     \/ phase = "memrsv" /\ Result(OK) /\ phase' = "struct" /\ SameBut(<<tree, rsv>>)

(* Building goes on below the node given by its path. *)
BeginNode ==
  LET p == Append(call'.path, call'.name) IN
  /\ Is("begin_node")
  /\ \/ Refused("struct")
     \/ phase = "struct" /\ Result(NOSPACE) /\ Same
     \/ /\ phase = "struct" /\ Result(OK) /\ p \notin DOMAIN tree
        /\ tree' = (p :> <<>>) @@ tree /\ SameBut(<<phase, rsv>>)

Property ==
  LET p == call'.path IN
  /\ Is("property")
  /\ \/ Refused("struct")
     \/ phase = "struct" /\ Result(NOSPACE) /\ Same
     \/ /\ phase = "struct" /\ Result(OK) /\ call'.name \notin DOMAIN tree[p]
        /\ tree' = [tree EXCEPT ![p] = (call'.name :> call'.val) @@ @] /\ SameBut(<<phase, rsv>>)

EndNode == Is("end_node") /\ (Refused("struct") \/ (phase = "struct" /\ call'.ret \in {OK, NOSPACE} /\ Same))

Finish ==
  /\ Is("finish")
  /\ \/ Refused("struct")
     \/ phase = "struct" /\ Result(NOSPACE) /\ Same
     \/ phase = "struct" /\ Result(OK) /\ phase' = "complete" /\ SameBut(<<tree, rsv>>)

Resize == /\ Is("resize")
          /\ Same
          /\ IF phase \in {"memrsv", "struct"} THEN call'.ret \in {OK, NOSPACE}
             ELSE Result(IF phase = "damaged" THEN BADMAGIC ELSE BADSTATE)
-----------------------------------------------------------------------------
AddNode ==
  LET p      == Append(call'.path, call'.name)
      exists == \E q \in Children(tree, call'.path) : Matches(call'.name, Last(q)) IN
  /\ Edit("add_subnode")
  /\ \/ exists /\ Result(EXISTS) /\ Same
     \/ ~ exists /\ Result(NOSPACE) /\ Same
     \/ ~ exists /\ call'.ret >= OK /\ tree' = (p :> <<>>) @@ tree /\ SameBut(<<phase, rsv>>)

DelNode ==
  /\ Edit("del_node") \/ Is("nop_node")
  /\ Result(OK)
  /\ tree' = [q \in DOMAIN tree \ Below(call'.path) |-> tree[q]]
  /\ SameBut(<<phase, rsv>>)

(* The node and everything below it move to another path. *)
SetName ==
  LET p        == call'.path
      Moved(q) == Append(Front(p), call'.name) \o SubSeq(q, Len(p) + 1, Len(q)) IN
  /\ Edit("set_name")
  /\ \/ Result(NOSPACE) /\ Len(call'.name) > Len(Last(p)) /\ Same
     \/ /\ Result(OK) /\ SameBut(<<phase, rsv>>)
        /\ tree' = [q \in (DOMAIN tree \ Below(p)) \union {Moved(q) : q \in Below(p)} |->
                      IF q \in DOMAIN tree \ Below(p) THEN tree[q]
                      ELSE tree[CHOOSE r \in Below(p) : Moved(r) = q]]

(* A property set, appended to, or overwritten where it is: the value it   *)
(* has afterwards, and whether that takes no more space than it has.       *)
SetProp ==
  LET node  == tree[call'.path]
      op    == call'.op
      isnew == call'.name \notin DOMAIN node
      old   == IF isnew THEN <<>> ELSE node[call'.name]
      new   == call'.val
      val   == CASE op \in {"setprop", "setprop_inplace"} -> new
                 [] op = "appendprop" -> old \o new
                 [] op = "setprop_inplace_partial" ->
                      SubSeq(old, 1, call'.idx) \o new
                      \o SubSeq(old, call'.idx + Len(new) + 1, Len(old))
      fits  == CASE op = "setprop" -> Len(new) <= Len(old)
                 [] op = "appendprop" -> new = <<>>
                 [] op = "setprop_inplace" -> Len(new) = Len(old)
                 [] op = "setprop_inplace_partial" -> call'.idx + Len(new) <= Len(old)
      grows == op \in {"setprop", "appendprop"} IN
  /\ op \in {"setprop", "appendprop", "setprop_inplace", "setprop_inplace_partial"}
  /\ grows => phase = "complete"
  /\ \/ ~ grows /\ isnew /\ Result(NOTFOUND) /\ Same
     \/ (IF isnew THEN grows ELSE ~ fits) /\ Result(NOSPACE) /\ Same
     \/ /\ grows \/ (~ isnew /\ fits)
        /\ Result(OK) /\ SameBut(<<phase, rsv>>)
        /\ tree' = [tree EXCEPT ![call'.path] = (call'.name :> val) @@ @]

(* An address and a size appended, each in the number of cells the parent  *)
(* gives for it, two and one if it gives none.  One cell holds numbers up  *)
(* to UINT32_MAX; an address of 0 is refused in one cell although it fits. *)
CellsBelow(p, name, default) ==
  LET given == tree[p][name] IN
  IF name \notin DOMAIN tree[p] THEN default
  ELSE IF Len(given) = 4 /\ given[1] \in {1, 2} THEN given[1] ELSE BADNCELLS

Digits(cells, n) ==
  IF cells = 1 THEN <<n>> ELSE <<n \div (UINT32_MAX + 1), n % (UINT32_MAX + 1)>>

AppendRange ==
  LET p      == call'.path
      parent == IF Len(p) = 1 THEN p ELSE Front(p)
      ac     == CellsBelow(parent, ADDRESS_CELLS, 2)
      sc     == CellsBelow(parent, SIZE_CELLS, 1)
      bad    == BADNCELLS \in {ac, sc}
      fits   == (ac = 1 => call'.addr \in 1..UINT32_MAX) /\ (sc = 1 => call'.size <= UINT32_MAX)
      words  == Digits(ac, call'.addr) \o Digits(sc, call'.size)
      old    == IF call'.name \in DOMAIN tree[p] THEN tree[p][call'.name] ELSE <<>>
      new    == FlattenSeq([i \in DOMAIN words |-> <<words[i], 0, 0, 0>>]) IN
  /\ Is("appendprop_addrrange")
  /\ \/ bad /\ Result(BADNCELLS) /\ Same
     \/ ~ fits /\ Result(BADVALUE) /\ Same
     \/ ~ bad /\ fits /\ phase = "complete" /\ Result(NOSPACE) /\ Same
     \/ /\ ~ bad /\ fits /\ phase = "complete" /\ Result(OK) /\ SameBut(<<phase, rsv>>)
        /\ tree' = [tree EXCEPT ![p] = (call'.name :> old \o new) @@ @]

DelProp ==
  LET node == tree[call'.path] IN
  /\ Edit("delprop") \/ Is("nop_property")
  /\ \/ call'.name \notin DOMAIN node /\ Result(NOTFOUND) /\ Same
     \/ /\ call'.name \in DOMAIN node /\ Result(OK) /\ SameBut(<<phase, rsv>>)
        /\ tree' = [tree EXCEPT ![call'.path] = [n \in DOMAIN node \ {call'.name} |-> node[n]]]

AddMemRsv == /\ Edit("add_mem_rsv")
             /\ \/ Result(NOSPACE) /\ Same
                \/ Result(OK) /\ rsv' = Append(rsv, call'.val) /\ SameBut(<<phase, tree>>)

DelMemRsv == /\ Edit("del_mem_rsv")
             /\ \/ call'.idx >= Len(rsv) /\ Result(NOTFOUND) /\ Same
                \/ /\ call'.idx < Len(rsv) /\ Result(OK)
                   /\ rsv' = RemoveAt(rsv, call'.idx + 1) /\ SameBut(<<phase, tree>>)

(* Moving the blob to another buffer, and giving the free space back. *)
OpenInto == /\ Is("open_into")
            /\ \/ Result(NOSPACE) /\ Same
               \/ Result(OK) /\ phase' = "complete" /\ SameBut(<<tree, rsv>>)

Pack == Edit("pack") /\ Result(OK) /\ Same

(* An overlay is merged as its author meant, or the tree is given up: for  *)
(* lack of space, or because the overlay does not fit the tree.            *)
OverlayApply ==
  LET r == Overlaid(tree, call'.over) IN
  /\ Is("overlay_apply") /\ phase \in {"complete", "foreign"}
  /\ \/ r.ok /\ Result(OK) /\ tree' = r.tree /\ SameBut(<<phase, rsv>>)
     \/ /\ call'.ret < 0 /\ (r.ok /\ phase = "complete") => Result(NOSPACE)
        /\ phase' = "damaged"

(* The address and the size in a property of four cells, as numbers of     *)
(* this cpu.  Everything but that property stays as it was; neither what   *)
(* the call leaves in it nor, with the property there, what it returns is  *)
(* promised.                                                               *)
LookupRegValue ==
  LET p      == call'.path
      Number(i) == tree[p][REG][4 * i - 3] + 16777216 * tree[p][REG][4 * i] IN
  /\ Is("lookup_reg_value") /\ SameBut(<<phase, rsv>>)
  /\ IF REG \notin DOMAIN tree[p] THEN Result(1) /\ SameBut(tree)
     ELSE /\ call'.addr = <<Number(1), Number(2)>> /\ call'.size = <<Number(3), Number(4)>>
          /\ tree' = [tree EXCEPT ![p][REG] = tree'[p][REG]]

RefusedEdit == Foreign /\ call'.op \in {"add_subnode", "del_node", "set_name", "setprop",
                 "appendprop", "appendprop_addrrange", "delprop", "add_mem_rsv", "del_mem_rsv", "pack"}

Next ==
  \/ AddReserveMapEntry \/ FinishReserveMap \/ BeginNode \/ Property \/ EndNode \/ Finish
  \/ Resize \/ AddNode \/ DelNode \/ SetName \/ SetProp \/ AppendRange \/ DelProp \/ AddMemRsv
  \/ DelMemRsv \/ OpenInto \/ Pack \/ OverlayApply \/ LookupRegValue \/ RefusedEdit

Spec == Init /\ [][Next]_vars
=============================================================================
