------------------------------ MODULE CString -------------------------------
(***************************************************************************)
(* The functions of tinylibc on memory and strings as their callers see    *)
(* them.  Memory is a sequence of bytes, the one at offset o is m[o + 1];  *)
(* a string ends before its first NUL.  TinyLibc has the loops themselves  *)
(* and shows that they compute these.                                      *)
(***************************************************************************)
EXTENDS Integers, SequencesExt

NUL == 0

Smallest(S) == CHOOSE x \in S : \A y \in S : x <= y

Memmove(m, dst, src, n) ==
  SubSeq(m, 1, dst) \o SubSeq(m, src + 1, src + n) \o SubSeq(m, dst + n + 1, Len(m))

(* strlen, at most up to the end of the memory, the string at an offset,   *)
(* and memchr of NUL.                                                      *)
Strlen(m, o) == CHOOSE n \in 0..(Len(m) - o) : /\ o + n = Len(m) \/ m[o + n + 1] = NUL
                                               /\ \A k \in 0..(n - 1) : m[o + k + 1] # NUL
Str(m, o)    == SubSeq(m, o + 1, o + Strlen(m, o))
HasNul(m, o, n) == \E k \in 1..n : m[o + k] = NUL

(* strnlen.c has no statement of its own for the body of its loop: the     *)
(* return that follows is the body, and it returns 0 when it is reached.   *)
(* When it is not, the function ends without a return; the register then   *)
(* holds the zero, count or character, that ended the loop (gcc -O0).      *)
strnlen(m, o, count) == 0

(* ctype.h, for the characters below 128 *)
isspace(c) == c \in 9..13 \union {32}
isdigit(c) == c \in 48..57
isupper(c) == c \in 65..90
isalpha(c) == isupper(c) \/ c \in 97..122

Digit(c) == CASE isdigit(c) -> c - 48 [] isupper(c) -> c - 55
              [] isalpha(c) /\ ~ isupper(c) -> c - 87 [] OTHER -> 99

(* The number s begins with, below ULONG_MAX, and how many characters it   *)
(* takes: none when there is no digit.                                     *)
strtoul(s, base) ==
  LET z      == Append(s, NUL)
      start  == Smallest({i \in DOMAIN z : ~ isspace(z[i])})
      signed == IF z[start] \in {43, 45} THEN start + 1 ELSE start
      hex    == base \in {0, 16} /\ z[signed] = 48 /\ z[signed + 1] \in {88, 120}
      first  == IF hex THEN signed + 2 ELSE signed
      radix  == CASE hex -> 16 [] ~ hex /\ base = 0 -> IF z[signed] = 48 THEN 8 ELSE 10
                  [] OTHER -> base
      stop   == Smallest({i \in first..Len(z) : Digit(z[i]) >= radix})
      acc    == FoldLeft(LAMBDA a, c : a * radix + Digit(c), 0, SubSeq(z, first, stop - 1)) IN
  [acc |-> IF z[start] = 45 THEN - acc ELSE acc, used |-> IF stop = first THEN 0 ELSE stop - 1]
=============================================================================
