------------------------------ MODULE TinyLibc ------------------------------
(***************************************************************************)
(* The loops of libkern/tinylibc/string, on a memory m that is a sequence  *)
(* of bytes; pointers are offsets, NONE is the null pointer.  A loop is a  *)
(* recursive function of the number of its turns.  CString says what its   *)
(* callers take them to compute, and LibcExact compares the two.           *)
(***************************************************************************)
EXTENDS CString

CONSTANTS
  WORD_SIZE,     \* sizeof(unsigned long), 8 in the source
  ULONG_MAX

ASSUME LibcAssumption == WORD_SIZE \in Nat \ {0} /\ ULONG_MAX \in Nat \ {0}

NONE == -1

Aligned(p) == p % WORD_SIZE = 0

(* StoreBytes the bytes b at offset p. *)
StoreBytes(m, p, b) == [i \in DOMAIN m |-> IF i - p \in DOMAIN b THEN b[i - p] ELSE m[i]]
Load(m, p, n)  == SubSeq(m, p + 1, p + n)

(* n units of size u copied upwards, one at a time. *)
Upwards(m, dest, src, u, n) ==
  LET turn[i \in 0..n] == IF i = 0 THEN m
        ELSE StoreBytes(turn[i - 1], dest + (i - 1) * u, Load(turn[i - 1], src + (i - 1) * u, u))
  IN  turn[n]

memcpy(m, dest, src, count) ==
  LET words == IF Aligned(dest) /\ Aligned(src) THEN count \div WORD_SIZE ELSE 0
      done  == words * WORD_SIZE IN
  IF src = dest THEN m
  ELSE Upwards(Upwards(m, dest, src, WORD_SIZE, words), dest + done, src + done, 1, count - done)

(* Mutant: blocks are never copied downwards. *)
memmove_upwards(m, dest, src, count) == memcpy(m, dest, src, count)

memmove(m, dest, src, count) ==
  LET turn[i \in 0..count] == IF i = 0 THEN m
        ELSE StoreBytes(turn[i - 1], dest + count - i, Load(turn[i - 1], src + count - i, 1))
  IN  IF dest <= src \/ src + count <= dest THEN memcpy(m, dest, src, count) ELSE turn[count]

(* cl is shifted by 0, so it ends as one byte and zeros. *)
memset(m, s, c, count) ==
  LET cl    == [i \in 1..WORD_SIZE |-> IF i = 1 THEN c ELSE 0]
      words == IF Aligned(s) THEN count \div WORD_SIZE ELSE 0
      word[i \in 0..words] == IF i = 0 THEN m ELSE StoreBytes(word[i - 1], s + (i - 1) * WORD_SIZE, cl)
      done  == words * WORD_SIZE
      byte[i \in done..count] == IF i = done THEN word[words] ELSE StoreBytes(byte[i - 1], s + i - 1, <<c>>)
  IN  byte[count]

memcmp(m, cs, ct, count) ==
  LET res[i \in 0..count] ==
        IF i = count THEN 0
        ELSE IF m[cs + i + 1] # m[ct + i + 1] THEN m[cs + i + 1] - m[ct + i + 1] ELSE res[i + 1]
  IN  res[0]

memchr(m, s, c, n) ==
  LET p[i \in 0..n] == IF i = n THEN NONE ELSE IF m[s + i + 1] = c THEN s + i ELSE p[i + 1]
  IN  p[0]

strlen(m, str) ==
  LET s[p \in str..(Len(m) - 1)] == IF m[p + 1] = NUL THEN p ELSE s[p + 1] IN s[str] - str

strchr(m, s, c) ==
  LET at[p \in s..(Len(m) - 1)] ==
        IF m[p + 1] = c THEN p ELSE IF m[p + 1] = NUL THEN NONE ELSE at[p + 1]
  IN  at[s]

strrchr(m, s, c) ==
  LET at[p \in s..(s + strlen(m, s))] ==
        IF m[p + 1] = c THEN p ELSE IF p - 1 < s THEN NONE ELSE at[p - 1]
  IN  at[s + strlen(m, s)]

strcmp(m, cs, ct) ==
  LET ret[i \in 0..(Len(m) - 1)] ==
        LET a == m[cs + i + 1]  b == m[ct + i + 1] IN
        IF a # b \/ b = NUL THEN a - b ELSE ret[i + 1]
  IN  ret[0]

strncmp(m, s1, s2, n) ==
  LET ret[i \in 0..n] ==
        LET a == m[s1 + i + 1]  b == m[s2 + i + 1] IN
        IF i = n THEN 0 ELSE IF a # b THEN a - b ELSE IF a = NUL THEN 0 ELSE ret[i + 1]
  IN  ret[0]

(* The memory afterwards, and the result. *)
strlcpy(m, dest, src, size) ==
  LET len == IF strlen(m, src) >= size THEN size - 1 ELSE strlen(m, src) IN
  IF size = 0 THEN <<m, 0>>
  ELSE <<StoreBytes(memcpy(m, dest, src, len), dest + len, <<NUL>>), len>>

(* One digit more: any is -1 once the number is too large. *)
Accumulate(v, c, base) ==
  LET cutoff == ULONG_MAX \div base
      cutlim == ULONG_MAX % base IN
  IF v.any < 0 \/ v.acc > cutoff \/ (v.acc = cutoff /\ c > cutlim)
  THEN [v EXCEPT !.any = -1] ELSE [acc |-> v.acc * base + c, any |-> 1]

(* s ends with a NUL. *)
strtoul_loop(s, base_) ==
  LET space[i \in DOMAIN s] == IF isspace(s[i]) THEN space[i + 1] ELSE i
      sign  == space[1]
      zero  == IF s[sign] \in {43, 45} THEN sign + 1 ELSE sign
      hex   == base_ \in {0, 16} /\ s[zero] = 48 /\ s[zero + 1] \in {88, 120}
      first == IF hex THEN zero + 2 ELSE zero
      base  == IF hex THEN 16 ELSE IF base_ # 0 THEN base_ ELSE IF s[zero] = 48 THEN 8 ELSE 10
      turn[i \in first..Len(s)] ==
        IF i = first THEN [acc |-> 0, any |-> 0] ELSE Accumulate(turn[i - 1], Digit(s[i - 1]), base)
      stop[i \in first..Len(s)] == IF Digit(s[i]) >= base THEN i ELSE stop[i + 1]
      v     == turn[stop[first]] IN
  [acc  |-> IF v.any < 0 THEN ULONG_MAX
            ELSE IF s[sign] = 45 THEN (ULONG_MAX + 1 - v.acc) % (ULONG_MAX + 1) ELSE v.acc,
   used |-> IF v.any = 0 THEN 0 ELSE stop[first] - 1]
-----------------------------------------------------------------------------
VARIABLE mem

(* The smallest, or the largest, offset in S. *)
FirstWhere(S) == IF S = {} THEN NONE ELSE Smallest(S)
Final(S) == IF S = {} THEN NONE ELSE CHOOSE x \in S : \A y \in S : y <= x

Sign(x) == IF x < 0 THEN -1 ELSE IF x = 0 THEN 0 ELSE 1

(* How two sequences compare: at their first difference, as unsigned       *)
(* bytes.                                                                  *)
Order(s, t) ==
  LET i == FirstWhere({k \in DOMAIN s \cap DOMAIN t : s[k] # t[k]}) IN
  IF i # NONE THEN Sign(s[i] - t[i]) ELSE Sign(Len(s) - Len(t))

(* In mem, whose last byte is NUL, every call of every function whose      *)
(* blocks lie in mem computes what its callers rely on.  Blocks may        *)
(* overlap for memmove, and not for the others, as in the C standard;      *)
(* memset is called with 0 alone in the kernel.                            *)
LibcExact ==
  LET end == Len(mem)  P == 0..(end - 1)
      C   == {mem[i] : i \in DOMAIN mem} IN
  /\ \A d, s \in P : \A n \in 0..(end - (IF d > s THEN d ELSE s)) :
       /\ memmove(mem, d, s, n) = Memmove(mem, d, s, n)
       /\ d + n <= s \/ s + n <= d => memcpy(mem, d, s, n) = Memmove(mem, d, s, n)
       /\ memset(mem, d, 0, n) = StoreBytes(mem, d, [i \in 1..n |-> 0])
       /\ Sign(memcmp(mem, d, s, n)) = Order(Load(mem, d, n), Load(mem, s, n))
       /\ Sign(strncmp(mem, d, s, n)) =
            LET Cut(o) == SubSeq(Str(mem, o), 1, IF Strlen(mem, o) < n THEN Strlen(mem, o) ELSE n)
            IN  Order(Cut(d), Cut(s))
       /\ d + n <= s \/ s + Strlen(mem, s) < d =>
            LET r == strlcpy(mem, d, s, n) IN
            n > 0 => /\ Str(r[1], d) = SubSeq(Str(mem, s), 1, r[2])
                     /\ r[2] < n /\ (r[2] = Strlen(mem, s) \/ r[2] = n - 1)
  /\ \A d, s \in P : Sign(strcmp(mem, d, s)) = Order(Str(mem, d), Str(mem, s))
  /\ \A s \in P, c \in C :
       LET str == s..(s + Strlen(mem, s)) IN
       /\ strlen(mem, s) = Strlen(mem, s)
       /\ strchr(mem, s, c) = FirstWhere({p \in str : mem[p + 1] = c})
       /\ strrchr(mem, s, c) = Final({p \in str : mem[p + 1] = c})
       /\ \A n \in 0..(end - s) :
            memchr(mem, s, c, n) = FirstWhere({p \in s..(s + n - 1) : mem[p + 1] = c})
  /\ \A s \in P, base \in {0, 10, 16} :
       LET z == <<32>> \o Str(mem, s)
           l == strtoul_loop(Append(z, NUL), base)
           r == strtoul(z, base)
           v == IF r.acc < 0 THEN - r.acc ELSE r.acc IN
       /\ l.used = r.used
       /\ l.acc = IF v > ULONG_MAX THEN ULONG_MAX ELSE r.acc % (ULONG_MAX + 1)
=============================================================================
