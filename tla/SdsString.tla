------------------------------ MODULE SdsString ------------------------------
(***************************************************************************)
(* What sds.c promises: a string of bytes, NUL among them, that only the   *)
(* calls change, each in the way its comment says.  "op" is the last call  *)
(* with its arguments, "value" the string the caller has after it.         *)
(***************************************************************************)
EXTENDS Integers, SequencesExt

CONSTANTS
  NUL,
  Null,      \* what the caller has before the first call and after sdsfree
  Lower, Upper   \* tolower and toupper, as functions of the bytes

VARIABLES value, op

Init == value = Null /\ op.name = "none"

Becomes(names, v) == op'.name \in names /\ value' = v

Zeros(n) == [i \in 1..n |-> NUL]

\* The longest beginning without NUL, which is what C reads.
CString(v) == SubSeq(v, 1, Min({i \in DOMAIN v : v[i] = NUL} \union {Len(v) + 1}) - 1)

\* sdstrim: strchr finds the terminator of cset too, so NUL is always trimmed.
Trimmed(v, cset) ==
  LET kept == {i \in DOMAIN v : v[i] \notin cset \union {NUL}}
  IN  IF kept = {} THEN <<>> ELSE SubSeq(v, Min(kept), Max(kept))

\* sdsrange: positions count from 0, or back from the end; one before the
\* beginning is the beginning, for the end of the range too.
Between(v, start, end) ==
  LET at(n) == IF n < 0 THEN Max({0, Len(v) + n}) ELSE n
  IN  SubSeq(v, at(start) + 1, Min({at(end) + 1, Len(v)}))

\* sdsmapchars: the first place of the byte in "from" counts.
Mapped(b, from, to) ==
  IF b \in ToSet(from) THEN to[Min({i \in DOMAIN from : from[i] = b})] ELSE b

Create == value = Null /\ (\/ Becomes({"newlen"}, op'.t)
                           \/ Becomes({"zeros"}, Zeros(op'.n)))

Free == Becomes({"free"}, Null)

Look   == Becomes({"dup", "makeroom", "removefree"}, value)
Extend == Becomes({"catlen", "catfmt", "written"}, value \o op'.t)
PrintText == Becomes({"catprintf"}, value \o CString(op'.t))
Grow   == Becomes({"growzero"}, value \o Zeros(op'.n - Len(value)))

Replace == Becomes({"cpylen"}, op'.t)

Shorten ==
  \/ Becomes({"clear"}, <<>>)
  \/ Becomes({"updatelen"}, CString(value))
  \/ Becomes({"shortened"}, SubSeq(value, 1, Len(value) - op'.n))
  \/ Becomes({"trim"}, Trimmed(value, ToSet(op'.t)))
  \/ Becomes({"range"}, Between(value, op'.n, op'.m))

Rewrite ==
  \/ Becomes({"tolower"}, [i \in DOMAIN value |-> Lower[value[i]]])
  \/ Becomes({"toupper"}, [i \in DOMAIN value |-> Upper[value[i]]])
  \/ Becomes({"mapchars"}, [i \in DOMAIN value |-> Mapped(value[i], op'.t, op'.u)])

Change == Look \/ Extend \/ PrintText \/ Grow \/ Replace \/ Shorten \/ Rewrite

Next == Create \/ (value # Null /\ (Free \/ Change))

Spec == Init /\ [][Next]_<<value, op>>
=============================================================================
