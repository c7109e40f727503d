----------------------------- MODULE OverlayTree ----------------------------
(***************************************************************************)
(* What applying an overlay means, with no blob.  A tree is a function     *)
(* from paths to nodes, a node one from property names to values, and a    *)
(* phandle a word of a value.  An overlay is what its author wrote, before *)
(* a compiler turned it into a blob:                                       *)
(*   nodes     the nodes in order, each with its path and its properties;  *)
(*   local     where a phandle of the overlay itself stands: path, name    *)
(*             of the property, offset in its value;                       *)
(*   external  where that of a label of the base belongs, and the label;   *)
(*   symbols   the overlay's own labels and the paths of their nodes, in a *)
(*             sequence; hassymbols is FALSE when it has no table of them. *)
(***************************************************************************)
EXTENDS Integers, SequencesExt

CONSTANTS
  PHANDLE, LINUX_PHANDLE, TARGET, TARGET_PATH, OVERLAY, SYMBOLS,   \* the names used
  SLASH, NUL, AT,   \* characters; AT stands between a name and its unit address
  UINT32_MAX

Largest(S) == CHOOSE x \in S : \A y \in S : y <= x

ROOT == <<>>

(* A path as it is written. *)
PathString(path) ==
  IF Len(path) = 1 THEN <<SLASH>>
  ELSE FoldLeft(LAMBDA s, name : s \o <<SLASH>> \o name, <<>>, Tail(path))

(* The node a NUL-terminated path string names: a name may be given        *)
(* without its unit address, and a slash at the end does no harm.          *)
Short(name)     == {name} \union {SubSeq(name, 1, i - 1) : i \in {j \in DOMAIN name : name[j] = AT}}
Spellings(path) == IF Len(path) = 1 THEN {<<SLASH>>}
                   ELSE FoldLeft(LAMBDA S, name : {s \o <<SLASH>> \o w : s \in S, w \in Short(name)},
                                 {<<>>}, Tail(path))
Named(tree, s)  == {p \in DOMAIN tree : \E w \in Spellings(p) : s \in {w \o <<NUL>>, w \o <<SLASH, NUL>>}}
The(S) == CHOOSE x \in S : TRUE

(* Does a lookup of n find a node called name? *)
Matches(n, name) ==
  \/ n = name
  \/ /\ AT \notin {n[i] : i \in DOMAIN n}
     /\ IsPrefix(Append(n, AT), name)

Children(tree, path) == {q \in DOMAIN tree : Len(q) = Len(path) + 1 /\ IsPrefix(path, q)}

Word1(node, name) == name \in DOMAIN node /\ Len(node[name]) = 4
PhandleOf(node) == CASE Word1(node, PHANDLE) -> node[PHANDLE][1]
                     [] ~ Word1(node, PHANDLE) /\ Word1(node, LINUX_PHANDLE) -> node[LINUX_PHANDLE][1]
                     [] OTHER -> 0

Delta(tree) == Largest({PhandleOf(tree[p]) : p \in DOMAIN tree} \union {0})

(* The node a label of the base stands for. *)
LabelNodes(tree, label) ==
  LET table == <<ROOT, SYMBOLS>> IN
  IF table \in DOMAIN tree /\ label \in DOMAIN tree[table] THEN Named(tree, tree[table][label]) ELSE {}

(* A value of the overlay with every phandle in it made one of the base. *)
Patched(tree, over, path, p) ==
  LET own       == p.name \in {PHANDLE, LINUX_PHANDLE}
      Here(S, i) == {e \in S : e.path = path /\ e.name = p.name /\ e.off = i - 1}
  IN  [i \in DOMAIN p.val |->
         IF Here(over.external, i) # {}
         THEN PhandleOf(tree[The(LabelNodes(tree, The(Here(over.external, i)).label))])
         ELSE IF (own /\ i = 1) \/ Here(over.local, i) # {} THEN p.val[i] + Delta(tree) ELSE p.val[i]]

NodeProps(tree, over, n) ==
  [name \in {n.props[i].name : i \in DOMAIN n.props} |->
     Patched(tree, over, n.path, n.props[CHOOSE i \in DOMAIN n.props : n.props[i].name = name])]

(* The fragments that have something to merge, and where it goes. *)
Fragments(over) == {n.path : n \in {k \in ToSet(over.nodes) : /\ Len(k.path) = 2
                      /\ \E j \in ToSet(over.nodes) : j.path = Append(k.path, OVERLAY)}}
NodeOf(over, path) == CHOOSE n \in ToSet(over.nodes) : n.path = path

Targets(base, tree, over, frag) ==
  LET f == NodeProps(base, over, NodeOf(over, frag)) IN
  IF TARGET \in DOMAIN f THEN {p \in DOMAIN tree : PhandleOf(tree[p]) = f[TARGET][1]}
  ELSE IF TARGET_PATH \in DOMAIN f THEN Named(tree, f[TARGET_PATH]) ELSE {}

(* Where a name leads from a path: to a child it matches or to a new one. *)
Step(tree, path, name) ==
  LET hits == {q \in Children(tree, path) : Matches(name, Last(q))} IN
  IF hits = {} THEN Append(path, name) ELSE The(hits)

(* A node of a fragment merged: it keeps the properties it had and takes   *)
(* those of the overlay.  ok says that every target so far was there.      *)
Merge(base, over, r, n) ==
  LET frag   == SubSeq(n.path, 1, 2)
      to     == Targets(base, r.tree, over, frag)
      dest   == FoldLeft(LAMBDA p, name : Step(r.tree, p, name), The(to), SubSeq(n.path, 4, Len(n.path)))
      old    == IF dest \in DOMAIN r.tree THEN r.tree[dest] ELSE <<>> IN
  IF ~ r.ok \/ Len(n.path) < 3 \/ frag \notin Fragments(over) \/ n.path[3] # OVERLAY THEN r
  ELSE IF to = {} THEN [r EXCEPT !.ok = FALSE]
  ELSE [r EXCEPT !.tree = (dest :> (NodeProps(base, over, n) @@ old)) @@ @]

(* A label of the overlay added to those of the base, with the path its    *)
(* node has there: the target's as the fragment spells it, if it does.     *)
Label(base, over, r, s) ==
  LET frag  == SubSeq(s.path, 1, 2)
      to    == Targets(base, r.tree, over, frag)
      table == <<ROOT, SYMBOLS>>
      f     == NodeProps(base, over, NodeOf(over, frag))
      top   == IF Len(The(to)) = 1 THEN <<>>
               ELSE IF TARGET \in DOMAIN f THEN PathString(The(to)) ELSE Front(f[TARGET_PATH])
      rest  == SubSeq(s.path, 4, Len(s.path))
      path  == top \o (IF rest = <<>> THEN <<SLASH>> ELSE PathString(<<ROOT>> \o rest)) IN
  IF ~ r.ok \/ Len(s.path) < 3 \/ s.path[3] # OVERLAY THEN r
  ELSE IF frag \notin Fragments(over) \/ to = {} THEN [r EXCEPT !.ok = FALSE]
  ELSE [r EXCEPT !.tree[table] = (s.label :> Append(path, NUL)) @@ @]

(* No phandle of the overlay runs over, every label it uses is there. *)
Resolvable(tree, over) ==
  /\ \A n \in ToSet(over.nodes) : \A i \in DOMAIN n.props :
       n.props[i].name \in {PHANDLE, LINUX_PHANDLE} => n.props[i].val[1] + Delta(tree) < UINT32_MAX
  /\ \A e \in over.external :
       \E p \in LabelNodes(tree, e.label) : PhandleOf(tree[p]) # 0

(* The tree with the overlay applied, if ok. *)
Overlaid(tree, over) ==
  LET merged == FoldLeft(LAMBDA r, n : Merge(tree, over, r, n), [ok |-> TRUE, tree |-> tree], over.nodes)
      table  == <<ROOT, SYMBOLS>>
      room   == IF over.hassymbols /\ table \notin DOMAIN merged.tree
                THEN [merged EXCEPT !.tree = (table :> <<>>) @@ @] ELSE merged IN
  IF ~ Resolvable(tree, over) THEN [ok |-> FALSE, tree |-> tree]
  ELSE FoldLeft(LAMBDA r, s : Label(tree, over, r, s), room, over.symbols)
=============================================================================
