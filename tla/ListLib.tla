------------------------------ MODULE ListLib -------------------------------
(***************************************************************************)
(* The operations of libkern/list.h called in any legal order, beside the  *)
(* sequences they stand for.  Each action runs one operation of module     *)
(* List on the links and says what it means for the sequences; the         *)
(* properties compare the two.  The guards are the obligations the         *)
(* comments of list.h put on the caller.                                   *)
(***************************************************************************)
EXTENDS List, Naturals, SequencesExt

CONSTANTS ListHead, ListEntry

ASSUME ListLibAssumption == ListHead \cap ListEntry = {} /\ NULL \notin ListHead \cup ListEntry

VARIABLES
  heads,     \* struct list_head of every head and entry
  seqs,      \* the entries each head stands for, in order
  single,    \* entries on no list that were left pointing to themselves
  stale      \* heads emptied by a splice and not reinitialised

listVars == <<heads, seqs, single, stale>>

ListNode   == ListHead \cup ListEntry
Placed == UNION {ToSet(seqs[h]) : h \in ListHead}
Lists  == ListHead \ stale

ListInit ==
  /\ heads = [next |-> [n \in ListNode |-> IF n \in ListHead THEN n ELSE NULL],
              prev |-> [n \in ListNode |-> IF n \in ListHead THEN n ELSE NULL]]
  /\ seqs = [h \in ListHead |-> <<>>] /\ single = {} /\ stale = {}

InitHead == \E h \in stale :
  /\ heads' = INIT_LIST_HEAD(heads, h)
  /\ stale' = stale \ {h} /\ UNCHANGED <<seqs, single>>

Add == \E h \in Lists, new \in ListEntry \ Placed :
  /\ heads' = list_add(heads, new, h)
  /\ seqs'  = [seqs EXCEPT ![h] = <<new>> \o @]
  /\ single' = single \ {new} /\ UNCHANGED stale

AddTail == \E h \in Lists, new \in ListEntry \ Placed :
  /\ heads' = list_add_tail(heads, new, h)
  /\ seqs'  = [seqs EXCEPT ![h] = Append(@, new)]
  /\ single' = single \ {new} /\ UNCHANGED stale

Without(e) == [h \in ListHead |-> Remove(seqs[h], e)]

Del == \E e \in Placed :
  /\ heads' = list_del(heads, e)
  /\ seqs'  = Without(e) /\ UNCHANGED <<single, stale>>

DelInit == \E e \in Placed :
  /\ heads' = list_del_init(heads, e)
  /\ seqs'  = Without(e) /\ single' = single \cup {e} /\ UNCHANGED stale

Replaced(old, new) == [h \in ListHead |-> ReplaceAll(seqs[h], old, new)]

Replace == \E old \in Placed, new \in ListEntry \ Placed :
  /\ heads' = list_replace(heads, old, new)
  /\ seqs'  = Replaced(old, new)
  /\ single' = single \ {new} /\ UNCHANGED stale

ReplaceInit == \E old \in Placed, new \in ListEntry \ Placed :
  /\ heads' = list_replace_init(heads, old, new)
  /\ seqs'  = Replaced(old, new)
  /\ single' = (single \ {new}) \cup {old} /\ UNCHANGED stale

Move == \E e \in Placed, h \in Lists :
  /\ heads' = list_move(heads, e, h)
  /\ seqs'  = [Without(e) EXCEPT ![h] = <<e>> \o @]
  /\ UNCHANGED <<single, stale>>

MoveTail == \E e \in Placed, h \in Lists :
  /\ heads' = list_move_tail(heads, e, h)
  /\ seqs'  = [Without(e) EXCEPT ![h] = Append(@, e)]
  /\ UNCHANGED <<single, stale>>

(* The first n entries of h go to the empty list g; n = 0 passes the head. *)
CutPosition == \E g, h \in Lists : \E n \in 0..Len(seqs[h]) :
  /\ g # h /\ seqs[g] = <<>>
  /\ heads' = list_cut_position(heads, g, h, IF n = 0 THEN h ELSE seqs[h][n])
  /\ seqs' = [seqs EXCEPT ![g] = SubSeq(seqs[h], 1, n),
                          ![h] = SubSeq(seqs[h], n + 1, Len(seqs[h]))]
  /\ UNCHANGED <<single, stale>>

(* Join g into h; a head that was not empty is stale afterwards.           *)
Splice == \E g, h \in Lists :
  /\ g # h /\ heads' = list_splice(heads, g, h)
  /\ seqs'  = [seqs EXCEPT ![g] = <<>>, ![h] = seqs[g] \o @]
  /\ stale' = IF seqs[g] = <<>> THEN stale ELSE stale \cup {g}
  /\ UNCHANGED single

SpliceTail == \E g, h \in Lists :
  /\ g # h /\ heads' = list_splice_tail(heads, g, h)
  /\ seqs'  = [seqs EXCEPT ![g] = <<>>, ![h] = @ \o seqs[g]]
  /\ stale' = IF seqs[g] = <<>> THEN stale ELSE stale \cup {g}
  /\ UNCHANGED single

SpliceInit == \E g, h \in Lists :
  /\ g # h /\ heads' = list_splice_init(heads, g, h)
  /\ seqs'  = [seqs EXCEPT ![g] = <<>>, ![h] = seqs[g] \o @]
  /\ UNCHANGED <<single, stale>>

SpliceTailInit == \E g, h \in Lists :
  /\ g # h /\ heads' = list_splice_tail_init(heads, g, h)
  /\ seqs'  = [seqs EXCEPT ![g] = <<>>, ![h] = @ \o seqs[g]]
  /\ UNCHANGED <<single, stale>>

ListNext == \/ InitHead \/ Add \/ AddTail \/ Del \/ DelInit \/ Replace \/ ReplaceInit
            \/ Move \/ MoveTail \/ CutPosition
            \/ Splice \/ SpliceTail \/ SpliceInit \/ SpliceTailInit
-----------------------------------------------------------------------------
(* The nodes a walk along field f meets from head h, at most k of them.    *)
Walk(f, h, k) ==
  LET at[i \in 0..k] == IF i = 0 THEN h
                        ELSE IF at[i - 1] = NULL THEN NULL ELSE f[at[i - 1]]
  IN  [i \in 1..k |-> at[i]]

(* Mutant: n is not moved on. *)
list_for_each_safe_stay(L, f, head, D, k) ==
  LET at[i \in 0..k] ==
        IF i = 0 THEN [pos |-> L[f][head], n |-> L[f][L[f][head]], L |-> L]
        ELSE LET p == at[i - 1]
                 M == IF p.pos \in D THEN list_del(p.L, p.pos) ELSE p.L
             IN  IF p.pos = head THEN p ELSE [pos |-> p.n, n |-> p.n, L |-> M]
  IN  at

(* list_for_each_safe (f = "next") and list_for_each_prev_safe (f =        *)
(* "prev") with a body that deletes the entries of D: the loop's variables *)
(* and the links before the body's first, second, ... k+1st run.           *)
list_for_each_safe(L, f, head, D, k) ==
  LET at[i \in 0..k] ==
        IF i = 0 THEN [pos |-> L[f][head], n |-> L[f][L[f][head]], L |-> L]
        ELSE LET p == at[i - 1]
                 M == IF p.pos \in D THEN list_del(p.L, p.pos) ELSE p.L
             IN  IF p.pos = head THEN p
                 ELSE [pos |-> p.n, n |-> M[f][p.n], L |-> M]
  IN  at

(* list_for_each over every list meets the entries the operations put on   *)
(* it, in order, and comes back to the head; list_for_each_prev meets them *)
(* backwards; and the tests of list.h, list_empty, list_empty_careful,     *)
(* list_is_singular and list_is_last, say the same of it.                  *)
WalksAgree ==
  /\ \A h \in Lists : LET k == Len(seqs[h]) + 1 IN
       /\ Walk(heads.next, h, k) = Append(seqs[h], h)
       /\ Walk(heads.prev, h, k) = Append(Reverse(seqs[h]), h)
       /\ list_empty(heads, h) = (seqs[h] = <<>>)
       /\ list_empty_careful(heads, h) = list_empty(heads, h)
       /\ list_is_singular(heads, h) = (Len(seqs[h]) = 1)
       /\ \A i \in DOMAIN seqs[h] :
            list_is_last(heads, seqs[h][i], h) = (i = Len(seqs[h]))
  /\ \A e \in single : list_empty_careful(heads, e)

(* A list_for_each_safe whose body deletes any of the entries it is given  *)
(* still meets every entry once, in order, ends, and leaves the others on  *)
(* the list.                                                               *)
SafeWalkComplete ==
  \A h \in Lists, f \in {"next", "prev"} : \A D \in SUBSET ToSet(seqs[h]) :
    LET k    == Len(seqs[h])
        all  == IF f = "next" THEN seqs[h] ELSE Reverse(seqs[h])
        left == SelectSeq(all, LAMBDA e : e \notin D)
        w    == list_for_each_safe(heads, f, h, D, k)
    IN  /\ [i \in 1..k |-> w[i - 1].pos] = all /\ w[k].pos = h
        /\ Walk(w[k].L[f], h, Len(left) + 1) = Append(left, h)
=============================================================================
