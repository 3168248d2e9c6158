------------------------------ MODULE SdsProofs ------------------------------
(***************************************************************************)
(* Theorems about Sds.tla, for every width of the header types, every      *)
(* SDS_MAX_PREALLOC and every alphabet: header and block agree, room is    *)
(* made as asked, and every call does to the string what SdsString says.   *)
(***************************************************************************)
EXTENDS Sds, SplitJoin, SdsText, SequenceTheorems, WellFoundedInduction, TLAPS

-----------------------------------------------------------------------------
(* Least and greatest numbers.                                             *)

LEMMA LeastOfNat ==
  ASSUME NEW S \in SUBSET Nat, S # {}
  PROVE  Min(S) \in S /\ \A x \in S : Min(S) =< x
  <1>1. PICK x \in S : \A y \in S : ~ (<<y, x>> \in OpToRel(<, Nat))
    BY WFMin, NatLessThanWellFounded
  <1>2. \A y \in S : ~ (y < x)
    BY <1>1 DEF OpToRel
  <1>3. \A y \in S : x =< y
    BY <1>2
  <1>. QED
    BY <1>3 DEF Min

LEMMA GreatestOfNat ==
  ASSUME NEW n \in Nat, NEW S \in SUBSET (0..n), S # {}
  PROVE  Max(S) \in S /\ \A x \in S : Max(S) >= x
  <1>. DEFINE Rest == {n - x : x \in S}
  <1>1. Rest \in SUBSET Nat /\ Rest # {}
    <2>1. \A x \in S : n - x \in Nat
      OBVIOUS
    <2>. QED
      BY <2>1
  <1>2. PICK r \in Rest : \A y \in Rest : r =< y
    BY <1>1, LeastOfNat
  <1>3. PICK x \in S : r = n - x
    BY <1>2
  <1>4. \A y \in S : n - y \in Rest
    OBVIOUS
  <1>5. \A y \in S : x >= y
    BY <1>2, <1>3, <1>4
  <1>. QED
    BY <1>5 DEF Max

LEMMA LesserOfTwo ==
  ASSUME NEW a \in Int, NEW b \in Int
  PROVE  Min({a, b}) = IF a =< b THEN a ELSE b
  <1>1. CASE a =< b
    <2>1. a \in {a, b} /\ \A y \in {a, b} : a =< y
      BY <1>1
    <2>. QED
      BY <1>1, <2>1 DEF Min
  <1>2. CASE ~(a =< b)
    <2>1. b \in {a, b} /\ \A y \in {a, b} : b =< y
      BY <1>2
    <2>. QED
      BY <1>2, <2>1 DEF Min
  <1>. QED
    BY <1>1, <1>2

LEMMA GreaterOfTwo ==
  ASSUME NEW a \in Int, NEW b \in Int
  PROVE  Max({a, b}) = IF a >= b THEN a ELSE b
  <1>1. CASE a >= b
    <2>1. a \in {a, b} /\ \A y \in {a, b} : a >= y
      BY <1>1
    <2>. QED
      BY <1>1, <2>1 DEF Max
  <1>2. CASE ~(a >= b)
    <2>1. b \in {a, b} /\ \A y \in {a, b} : b >= y
      BY <1>2
    <2>. QED
      BY <1>2, <2>1 DEF Max
  <1>. QED
    BY <1>1, <1>2

-----------------------------------------------------------------------------
(* Bytes.                                                                  *)

LEMMA TakeBytes ==
  ASSUME NEW q \in Seq(Byte), NEW n \in Nat
  PROVE  /\ Take(q, n) \in Seq(Byte)
         /\ Len(Take(q, n)) = IF n =< Len(q) THEN n ELSE Len(q)
         /\ \A i \in 1..Len(Take(q, n)) : Take(q, n)[i] = q[i]
  <1>1. Min({n, Len(q)}) = IF n =< Len(q) THEN n ELSE Len(q)
    BY LesserOfTwo
  <1>2. PICK k \in 0..Len(q) : k = Min({n, Len(q)})
    BY <1>1
  <1>3. Take(q, n) = SubSeq(q, 1, k)
    BY <1>2 DEF Take
  <1>4. /\ SubSeq(q, 1, k) \in Seq(Byte)
        /\ Len(SubSeq(q, 1, k)) = k
        /\ \A i \in 1..k : SubSeq(q, 1, k)[i] = q[i]
    <2>1. \A i \in 1..k : q[i] \in Byte
      BY ElementOfSeq
    <2>. QED
      BY <2>1, SubSeqProperties
  <1>. QED
    BY <1>1, <1>2, <1>3, <1>4

LEMMA StrLenBytes ==
  ASSUME NEW q \in Seq(Byte)
  PROVE  /\ StrLen(q) \in 0..Len(q)
         /\ StrLen(q) < Len(q) => q[StrLen(q) + 1] = NUL
         /\ \A i \in 1..Len(q) : q[i] = NUL => StrLen(q) < i
  <1>. DEFINE S == {i \in DOMAIN q : q[i] = NUL} \union {Len(q) + 1}
  <1>1. S \in SUBSET Nat /\ S # {}
    OBVIOUS
  <1>2. Min(S) \in S /\ \A x \in S : Min(S) =< x
    BY <1>1, LeastOfNat
  <1>3. StrLen(q) = Min(S) - 1
    BY DEF StrLen
  <1>. HIDE DEF S
  <1>4. PICK m : m = Min(S)
    OBVIOUS
  <1>5. m \in S /\ (\A x \in S : m =< x) /\ StrLen(q) = m - 1
    BY <1>2, <1>3, <1>4
  <1>. QED
    BY <1>5 DEF S

LEMMA ZerosAreBytes ==
  ASSUME NEW n \in Nat
  PROVE  /\ [i \in 1..n |-> NUL] \in Seq(Byte)
         /\ Len([i \in 1..n |-> NUL]) = n
  <1>1. PICK z : z = [i \in 1..n |-> NUL]
    OBVIOUS
  <1>2. z \in [1..n -> Byte] /\ DOMAIN z = 1..n
    BY <1>1, SdsAssumption
  <1>3. z \in Seq(Byte)
    BY <1>2, SeqDef
  <1>4. DOMAIN z = 1..Len(z) /\ Len(z) \in Nat
    BY <1>3, LenProperties
  <1>5. Len(z) = n
    BY <1>2, <1>4
  <1>. QED
    BY <1>1, <1>3, <1>5

-----------------------------------------------------------------------------
(* Headers.                                                                *)

(* A number that fits a field is stored as it is. *)
LEMMA FieldHolds ==
  ASSUME NEW t \in Types, NEW n \in Nat, Holds(t, n)
  PROVE  Field(t, n) = n
  <1>1. CASE t = 64
    BY <1>1 DEF Field
  <1>2. CASE t # 64
    <2>1. PICK m \in Nat \ {0} : m = Limit[t]
      BY <1>2, SdsAssumption DEF Types
    <2>2. n < m
      BY <1>2, <2>1 DEF Holds
    <2>3. n % m = n
      BY <2>2
    <2>. QED
      BY <1>2, <2>1, <2>3 DEF Field
  <1>. QED
    BY <1>1, <1>2

(* sdsReqType returns a type whose fields hold the length. *)
LEMMA ReqTypeHolds ==
  ASSUME NEW n \in Nat
  PROVE  /\ SdsReqType(n) \in Types /\ Holds(SdsReqType(n), n)
         /\ Max({8, SdsReqType(n)}) \in Types \ {5}
         /\ Holds(Max({8, SdsReqType(n)}), n)
  <1>. DEFINE S == {t \in Types : Holds(t, n)}
  <1>1. S \in SUBSET Nat /\ 64 \in S
    BY DEF Types, SmallTypes, Holds
  <1>2. Min(S) \in S
    BY <1>1, LeastOfNat
  <1>3. SdsReqType(n) \in Types /\ Holds(SdsReqType(n), n)
    BY <1>2 DEF SdsReqType
  <1>4. PICK t \in Types : t = SdsReqType(n)
    BY <1>3
  <1>5. Max({8, t}) = IF 8 >= t THEN 8 ELSE t
    BY GreaterOfTwo DEF Types, SmallTypes
  <1>6. CASE t = 5
    <2>1. n < Limit[5] /\ Limit[5] =< Limit[8] /\ Limit[8] \in Nat /\ Limit[5] \in Nat
      BY <1>3, <1>4, <1>6, SdsAssumption DEF Holds, SmallTypes
    <2>2. Holds(8, n)
      BY <2>1 DEF Holds
    <2>. QED
      BY <1>3, <1>4, <1>5, <1>6, <2>2 DEF Types, SmallTypes
  <1>7. CASE t # 5
    BY <1>3, <1>4, <1>5, <1>7 DEF Types, SmallTypes
  <1>. QED
    BY <1>6, <1>7

(* A smaller number fits wherever a larger one does. *)
LEMMA HoldsLess ==
  ASSUME NEW t \in Types, NEW m \in Nat, NEW n \in Nat, m =< n, Holds(t, n)
  PROVE  Holds(t, m)
  <1>1. CASE t = 64
    BY <1>1 DEF Holds
  <1>2. CASE t # 64
    <2>1. Limit[t] \in Nat
      BY <1>2, SdsAssumption DEF Types
    <2>. QED
      BY <1>2, <2>1 DEF Holds
  <1>. QED
    BY <1>1, <1>2

LEMMA SetLenShape ==
  ASSUME NEW h \in Header, NEW n \in Nat, Holds(h.type, n)
  PROVE  SdsSetLen(h, n) = [h EXCEPT !.len = n]
  BY FieldHolds DEF SdsSetLen, Header

LEMMA SetAllocShape ==
  ASSUME NEW h \in Header, NEW n \in Nat, Holds(h.type, n)
  PROVE  SdsSetAlloc(h, n) = IF h.type = 5 THEN h ELSE [h EXCEPT !.alloc = n]
  BY FieldHolds DEF SdsSetAlloc, Header

LEMMA PutShape ==
  ASSUME NEW h \in Header, NEW at \in 0..Len(h.mem), NEW bytes \in Seq(Byte)
  PROVE  /\ Put(h, at, bytes) \in Header
         /\ Put(h, at, bytes).type = h.type /\ Put(h, at, bytes).len = h.len
         /\ Put(h, at, bytes).alloc = h.alloc /\ Put(h, at, bytes).room = h.room
         /\ Len(Put(h, at, bytes).mem) = at + Len(bytes)
         /\ \A i \in 1..Len(bytes) : Put(h, at, bytes).mem[at + i] = bytes[i]
  <1>1. h.mem \in Seq(Byte) /\ at \in Nat /\ at =< Len(h.mem)
    BY DEF Header
  <1>2. Take(h.mem, at) \in Seq(Byte) /\ Len(Take(h.mem, at)) = at
    BY <1>1, TakeBytes
  <1>3. PICK q \in Seq(Byte) : q = Take(h.mem, at)
    BY <1>2
  <1>4. /\ q \o bytes \in Seq(Byte)
        /\ Len(q \o bytes) = at + Len(bytes)
        /\ \A i \in 1..Len(bytes) : (q \o bytes)[at + i] = bytes[i]
    <2>1. /\ q \o bytes \in Seq(Byte) /\ Len(q \o bytes) = Len(q) + Len(bytes)
          /\ \A i \in 1..Len(q) + Len(bytes) :
               (q \o bytes)[i] = IF i <= Len(q) THEN q[i] ELSE bytes[i - Len(q)]
      BY ConcatProperties
    <2>2. Len(q) = at
      BY <1>2, <1>3
    <2>3. ASSUME NEW i \in 1..Len(bytes)
          PROVE  (q \o bytes)[at + i] = bytes[i]
      <3>1. at + i \in 1..Len(q) + Len(bytes) /\ ~(at + i <= Len(q)) /\ at + i - Len(q) = i
        BY <2>2, <1>1
      <3>. QED
        BY <2>1, <3>1
    <2>. QED
      BY <2>1, <2>2, <2>3
  <1>5. PICK p : p = Put(h, at, bytes)
    OBVIOUS
  <1>6. p = [h EXCEPT !.mem = q \o bytes]
    BY <1>3, <1>5 DEF Put
  <1>7. /\ p \in Header /\ p.mem = q \o bytes
        /\ p.type = h.type /\ p.len = h.len /\ p.alloc = h.alloc /\ p.room = h.room
    BY <1>4, <1>6 DEF Header
  <1>. QED
    BY <1>4, <1>5, <1>7

(* Bytes and a terminator, written where a string goes on. *)
LEMMA EndedShape ==
  ASSUME NEW h \in Header, NEW at \in 0..Len(h.mem), NEW bytes \in Seq(Byte),
         Holds(h.type, at + Len(bytes))
  PROVE  LET r == Ended(h, at, bytes)
         IN  /\ r \in Header /\ r.type = h.type /\ r.alloc = h.alloc /\ r.room = h.room
             /\ r.len = at + Len(bytes)
             /\ Len(r.mem) = r.len + 1 /\ r.mem[r.len + 1] = NUL
  <1>1. /\ Append(bytes, NUL) \in Seq(Byte)
        /\ Len(Append(bytes, NUL)) = Len(bytes) + 1
        /\ Append(bytes, NUL)[Len(bytes) + 1] = NUL
    BY SdsAssumption, AppendProperties
  <1>2. PICK b \in Seq(Byte) : b = Append(bytes, NUL)
    BY <1>1
  <1>3. Len(b) = Len(bytes) + 1 /\ b[Len(bytes) + 1] = NUL /\ Len(bytes) + 1 \in 1..Len(b)
    BY <1>1, <1>2
  <1>4. /\ Put(h, at, b) \in Header
        /\ Put(h, at, b).type = h.type
        /\ Put(h, at, b).alloc = h.alloc /\ Put(h, at, b).room = h.room
        /\ Len(Put(h, at, b).mem) = at + Len(b)
        /\ \A i \in 1..Len(b) : Put(h, at, b).mem[at + i] = b[i]
    BY PutShape
  <1>5. PICK p \in Header : p = Put(h, at, b)
    BY <1>4
  <1>6. p.type = h.type /\ p.alloc = h.alloc /\ p.room = h.room
    BY <1>4, <1>5
  <1>7. PICK n \in Nat : n = at + Len(bytes)
    OBVIOUS
  <1>8. Len(p.mem) = n + 1 /\ p.mem[n + 1] = NUL
    <2>1. at + Len(b) = n + 1 /\ at + (Len(bytes) + 1) = n + 1
      BY <1>3, <1>7
    <2>. QED
      BY <1>3, <1>4, <1>5, <2>1
  <1>9. Ended(h, at, bytes) = [p EXCEPT !.len = n]
    <2>1. Ended(h, at, bytes) = SdsSetLen(p, n)
      BY <1>2, <1>5, <1>7 DEF Ended
    <2>2. Holds(p.type, n)
      BY <1>6, <1>7
    <2>. QED
      BY <2>1, <2>2, SetLenShape
  <1>10. PICK r : r = [p EXCEPT !.len = n]
    OBVIOUS
  <1>11. /\ r \in Header /\ r.type = p.type /\ r.alloc = p.alloc /\ r.room = p.room
         /\ r.len = n /\ r.mem = p.mem
    BY <1>10 DEF Header
  <1>. QED
    BY <1>6, <1>7, <1>8, <1>9, <1>10, <1>11

-----------------------------------------------------------------------------
(* Header and block in agreement: the conjuncts of Sound, with what they    *)
(* rest on, namely that the fields are wide enough for the space.           *)

Fits(h) ==
  /\ h \in Header /\ Holds(h.type, SdsAlloc(h))
  /\ h.len =< Len(h.mem) /\ Len(h.mem) =< h.room
  /\ h.len =< SdsAlloc(h) /\ SdsAlloc(h) < h.room

Closed(h) == h.len < Len(h.mem) /\ h.mem[h.len + 1] = NUL

LEMMA FitsNumbers ==
  ASSUME NEW h, Fits(h)
  PROVE  /\ h.type \in Types /\ h.len \in Nat /\ h.room \in Nat /\ h.mem \in Seq(Byte)
         /\ SdsAlloc(h) \in Nat /\ SdsAvail(h) \in Nat
         /\ SdsAvail(h) = SdsAlloc(h) - h.len
         /\ Holds(h.type, h.len)
  <1>1. h.type \in Types /\ h.len \in Nat /\ h.room \in Nat /\ h.mem \in Seq(Byte)
    BY DEF Fits, Header
  <1>2. SdsAlloc(h) \in Nat /\ h.len =< SdsAlloc(h)
    BY DEF Fits, Header, SdsAlloc
  <1>. QED
    BY <1>1, <1>2, HoldsLess DEF Fits, SdsAvail

(* Whatever is written within the space leaves header and block in
   agreement and the string terminated. *)
LEMMA EndedFits ==
  ASSUME NEW h, Fits(h), NEW at \in 0..Len(h.mem), NEW bytes \in Seq(Byte),
         at + Len(bytes) =< SdsAlloc(h)
  PROVE  Fits(Ended(h, at, bytes)) /\ Closed(Ended(h, at, bytes))
  <1>1. h \in Header /\ SdsAlloc(h) \in Nat /\ at + Len(bytes) \in Nat
    BY FitsNumbers DEF Fits
  <1>2. Holds(h.type, at + Len(bytes))
    BY <1>1, FitsNumbers, HoldsLess DEF Fits
  <1>3. PICK r : r = Ended(h, at, bytes)
    OBVIOUS
  <1>4. /\ r \in Header /\ r.type = h.type /\ r.alloc = h.alloc /\ r.room = h.room
        /\ r.len = at + Len(bytes)
        /\ Len(r.mem) = r.len + 1 /\ r.mem[r.len + 1] = NUL
    BY <1>1, <1>2, <1>3, EndedShape
  <1>5. SdsAlloc(r) = IF h.type = 5 THEN r.len ELSE SdsAlloc(h)
    BY <1>4 DEF SdsAlloc
  <1>6. Holds(r.type, SdsAlloc(r))
    BY <1>2, <1>4, <1>5 DEF Fits
  <1>7. r.len =< SdsAlloc(r) /\ SdsAlloc(r) < r.room /\ Len(r.mem) =< r.room
    BY <1>1, <1>4, <1>5 DEF Fits, Header
  <1>. QED
    BY <1>3, <1>4, <1>6, <1>7 DEF Fits, Closed, Header

(* sdsnewlen. *)
LEMMA NewLenFits ==
  ASSUME NEW t \in Seq(Byte)
  PROVE  Fits(SdsNewLen(t)) /\ Closed(SdsNewLen(t))
  <1>. DEFINE n == Len(t)
              type == IF n = 0 THEN 8 ELSE SdsReqType(n)
              raw == [type |-> type, len |-> 0, alloc |-> 0, room |-> n + 1, mem |-> <<>>]
  <1>1. type \in Types /\ Holds(type, n)
    <2>1. 8 \in Types /\ (n = 0 => Holds(8, n))
      BY SdsAssumption DEF Types, SmallTypes, Holds
    <2>2. n \in Nat
      OBVIOUS
    <2>3. SdsReqType(n) \in Types /\ Holds(SdsReqType(n), n)
      BY <2>2, ReqTypeHolds
    <2>. QED
      BY <2>1, <2>3
  <1>2. raw \in Header /\ 0 \in 0..Len(raw.mem)
    BY <1>1 DEF Header
  <1>3. PICK r : r = Ended(raw, 0, t)
    OBVIOUS
  <1>4. SdsNewLen(t) = SdsSetAlloc(r, n)
    BY <1>3 DEF SdsNewLen
  <1>5. PICK h : h = raw
    OBVIOUS
  <1>6. h.type = type /\ h.room = n + 1 /\ h \in Header /\ 0 \in 0..Len(h.mem)
    BY <1>2, <1>5
  <1>. HIDE DEF raw
  <1>7. /\ r \in Header /\ r.type = type /\ r.room = n + 1 /\ r.len = n
        /\ Len(r.mem) = n + 1 /\ r.mem[n + 1] = NUL
    BY <1>1, <1>3, <1>5, <1>6, EndedShape
  <1>. HIDE DEF type
  <1>8. SdsNewLen(t) = IF r.type = 5 THEN r ELSE [r EXCEPT !.alloc = n]
    BY <1>1, <1>4, <1>7, SetAllocShape
  <1>9. CASE r.type = 5
    BY <1>1, <1>7, <1>8, <1>9 DEF Fits, Closed, SdsAlloc, Header
  <1>10. CASE r.type # 5
    BY <1>1, <1>7, <1>8, <1>10 DEF Fits, Closed, SdsAlloc, Header
  <1>. QED
    BY <1>9, <1>10

-----------------------------------------------------------------------------
(* Growing and shrinking.                                                  *)

(* A block for n bytes, behind a header whose fields hold n. *)
LEMMA BlockFits ==
  ASSUME NEW h, Fits(h), NEW type \in Types, NEW n \in Nat,
         Holds(type, n), h.len =< n, type = 5 => n = h.len
  PROVE  LET r == Block(h, type, n)
         IN  /\ Fits(r) /\ r.len = h.len /\ r.room = n + 1 /\ SdsAlloc(r) = n
             /\ Closed(h) => Closed(r)
             /\ r.mem = Take(h.mem, h.len + 1)
  <1>1. h \in Header /\ h.len \in Nat /\ h.mem \in Seq(Byte) /\ h.len =< Len(h.mem)
    BY FitsNumbers DEF Fits
  <1>2. PICK q \in Seq(Byte) : q = Take(h.mem, h.len + 1)
    BY <1>1, TakeBytes
  <1>3. /\ Len(q) = IF h.len + 1 =< Len(h.mem) THEN h.len + 1 ELSE h.len
        /\ \A i \in 1..Len(q) : q[i] = h.mem[i]
    <2>1. h.len + 1 \in Nat
      BY <1>1
    <2>2. /\ Len(q) = IF h.len + 1 =< Len(h.mem) THEN h.len + 1 ELSE Len(h.mem)
          /\ \A i \in 1..Len(q) : q[i] = h.mem[i]
      BY <1>1, <1>2, <2>1, TakeBytes
    <2>. QED
      BY <1>1, <2>2
  <1>4. PICK b : b = [h EXCEPT !.type = type, !.room = n + 1, !.mem = q]
    OBVIOUS
  <1>5. /\ b \in Header /\ b.type = type /\ b.room = n + 1 /\ b.mem = q
        /\ b.alloc = h.alloc /\ b.len = h.len
    <2>1. /\ b.type = type /\ b.room = n + 1 /\ b.mem = q
          /\ b.alloc = h.alloc /\ b.len = h.len
      BY <1>1, <1>4 DEF Header
    <2>2. b = [type |-> type, len |-> h.len, alloc |-> h.alloc, room |-> n + 1, mem |-> q]
      BY <1>1, <1>4 DEF Header
    <2>3. h.alloc \in Nat /\ n + 1 \in Nat
      BY <1>1 DEF Header
    <2>4. b \in Header
      BY <1>1, <2>2, <2>3 DEF Header
    <2>. QED
      BY <2>1, <2>4
  <1>6. PICK c : c = [b EXCEPT !.len = h.len]
    OBVIOUS
  <1>7. /\ c \in Header /\ c.type = type /\ c.room = n + 1 /\ c.mem = q
        /\ c.len = h.len
    BY <1>1, <1>5, <1>6 DEF Header
  <1>8. SdsSetLen(b, h.len) = c
    <2>1. Holds(b.type, h.len)
      BY <1>1, <1>5, HoldsLess
    <2>. QED
      BY <1>1, <1>5, <1>6, <2>1, SetLenShape
  <1>9. PICK r : r = Block(h, type, n)
    OBVIOUS
  <1>10. r = SdsSetAlloc(c, n)
    BY <1>2, <1>4, <1>8, <1>9 DEF Block
  <1>11. r = IF type = 5 THEN c ELSE [c EXCEPT !.alloc = n]
    BY <1>7, <1>10, SetAllocShape
  <1>12. /\ r \in Header /\ r.type = type /\ r.room = n + 1 /\ r.mem = q
         /\ r.len = h.len /\ (type # 5 => r.alloc = n)
    BY <1>7, <1>11 DEF Header
  <1>13. SdsAlloc(r) = n
    BY <1>12 DEF SdsAlloc
  <1>14. Fits(r)
    BY <1>1, <1>3, <1>12, <1>13 DEF Fits
  <1>15. ASSUME Closed(h) PROVE Closed(r)
    <2>1. h.len < Len(h.mem) /\ h.mem[h.len + 1] = NUL
      BY <1>15 DEF Closed
    <2>2. Len(q) = h.len + 1 /\ h.len + 1 \in 1..Len(q)
      BY <1>1, <1>3, <2>1
    <2>. QED
      BY <1>1, <1>3, <1>12, <2>1, <2>2 DEF Closed
  <1>. QED
    BY <1>2, <1>9, <1>12, <1>13, <1>14, <1>15

(* sdsMakeRoomFor: the room asked for is there, and the string is kept. *)
LEMMA MakeRoomFits ==
  ASSUME NEW h, Fits(h), NEW addlen \in Nat
  PROVE  LET r == SdsMakeRoomFor(h, addlen)
         IN  /\ Fits(r) /\ r.len = h.len /\ SdsAvail(r) >= addlen
             /\ SdsAlloc(r) >= h.len + addlen
             /\ Closed(h) => Closed(r)
  <1>0. h.len \in Nat /\ SdsAlloc(h) \in Nat /\ SdsAvail(h) = SdsAlloc(h) - h.len
    BY FitsNumbers
  <1>1. CASE SdsAvail(h) >= addlen
    <2>1. SdsMakeRoomFor(h, addlen) = h
      BY <1>1 DEF SdsMakeRoomFor
    <2>2. SdsAlloc(h) >= h.len + addlen
      BY <1>0, <1>1
    <2>. QED
      BY <1>1, <2>1, <2>2
  <1>2. CASE ~(SdsAvail(h) >= addlen)
    <2>. DEFINE newlen == h.len + addlen
                want == IF newlen < MaxPrealloc THEN newlen * 2 ELSE newlen + MaxPrealloc
    <2>1. PICK n \in Nat : n = want
      BY <1>0, SdsAssumption
    <2>2. n >= h.len + addlen /\ h.len =< n
      BY <1>0, <2>1, SdsAssumption
    <2>3. PICK type \in Types \ {5} : type = Max({8, SdsReqType(n)}) /\ Holds(type, n)
      BY ReqTypeHolds
    <2>4. SdsMakeRoomFor(h, addlen) = Block(h, type, n)
      BY <1>2, <2>1, <2>3 DEF SdsMakeRoomFor
    <2>5. PICK r : r = Block(h, type, n)
      OBVIOUS
    <2>6. Fits(r) /\ r.len = h.len /\ SdsAlloc(r) = n /\ (Closed(h) => Closed(r))
      BY <2>2, <2>3, <2>5, BlockFits
    <2>7. SdsAvail(r) >= addlen
      BY <1>0, <2>2, <2>6 DEF SdsAvail
    <2>. QED
      BY <2>2, <2>4, <2>5, <2>6, <2>7
  <1>. QED
    BY <1>1, <1>2

(* sdsRemoveFreeSpace. *)
LEMMA RemoveFreeFits ==
  ASSUME NEW h, Fits(h)
  PROVE  LET r == SdsRemoveFreeSpace(h)
         IN  /\ Fits(r) /\ r.room = r.len + 1 /\ SdsAvail(r) = 0
             /\ Closed(h) => Closed(r)
  <1>1. h.type \in Types /\ h.len \in Nat /\ Holds(h.type, h.len)
    BY FitsNumbers
  <1>2. SdsReqType(h.len) \in Types /\ Holds(SdsReqType(h.len), h.len)
    BY <1>1, ReqTypeHolds
  <1>3. PICK type \in Types : /\ type = IF SdsReqType(h.len) > 8 THEN h.type ELSE SdsReqType(h.len)
                              /\ Holds(type, h.len)
    BY <1>1, <1>2
  <1>4. PICK r : r = Block(h, type, h.len)
    OBVIOUS
  <1>5. SdsRemoveFreeSpace(h) = r
    BY <1>3, <1>4 DEF SdsRemoveFreeSpace
  <1>6. /\ Fits(r) /\ r.len = h.len /\ r.room = h.len + 1 /\ SdsAlloc(r) = h.len
        /\ Closed(h) => Closed(r)
    BY <1>1, <1>3, <1>4, BlockFits
  <1>7. SdsAvail(r) = 0
    BY <1>1, <1>6 DEF SdsAvail
  <1>. QED
    BY <1>5, <1>6, <1>7

-----------------------------------------------------------------------------
(* The calls that write.                                                   *)

LEMMA CatLenFits ==
  ASSUME NEW h, Fits(h), NEW t \in Seq(Byte)
  PROVE  Fits(SdsCatLen(h, t)) /\ Closed(SdsCatLen(h, t))
  <1>1. PICK r : r = SdsMakeRoomFor(h, Len(t))
    OBVIOUS
  <1>2. Fits(r) /\ r.len = h.len /\ SdsAlloc(r) >= h.len + Len(t)
    BY <1>1, MakeRoomFits
  <1>3. h.len \in 0..Len(r.mem) /\ h.len + Len(t) =< SdsAlloc(r)
    BY <1>2, FitsNumbers DEF Fits
  <1>4. SdsCatLen(h, t) = Ended(r, h.len, t)
    BY <1>1 DEF SdsCatLen
  <1>. QED
    BY <1>2, <1>3, <1>4, EndedFits

LEMMA CpyLenFits ==
  ASSUME NEW h, Fits(h), NEW t \in Seq(Byte)
  PROVE  Fits(SdsCpyLen(h, t)) /\ Closed(SdsCpyLen(h, t))
  <1>0. h.len \in Nat /\ SdsAlloc(h) \in Nat /\ h.len =< SdsAlloc(h) /\ Len(t) \in Nat
    BY FitsNumbers DEF Fits
  <1>1. PICK r : r = IF SdsAlloc(h) < Len(t) THEN SdsMakeRoomFor(h, Len(t) - h.len) ELSE h
    OBVIOUS
  <1>2. Fits(r) /\ Len(t) =< SdsAlloc(r)
    <2>1. CASE SdsAlloc(h) < Len(t)
      <3>1. Len(t) - h.len \in Nat
        BY <1>0, <2>1
      <3>2. r = SdsMakeRoomFor(h, Len(t) - h.len)
        BY <1>1, <2>1
      <3>3. Fits(r) /\ SdsAlloc(r) >= h.len + (Len(t) - h.len)
        BY <3>1, <3>2, MakeRoomFits
      <3>4. SdsAlloc(r) \in Nat
        BY <3>3, FitsNumbers
      <3>. QED
        BY <1>0, <3>3, <3>4
    <2>2. CASE ~(SdsAlloc(h) < Len(t))
      BY <1>0, <1>1, <2>2
    <2>. QED
      BY <2>1, <2>2
  <1>3. 0 \in 0..Len(r.mem) /\ 0 + Len(t) =< SdsAlloc(r)
    BY <1>0, <1>2, FitsNumbers
  <1>4. SdsCpyLen(h, t) = Ended(r, 0, t)
    BY <1>1 DEF SdsCpyLen
  <1>. QED
    BY <1>2, <1>3, <1>4, EndedFits

LEMMA GrowZeroFits ==
  ASSUME NEW h, Fits(h), Closed(h), NEW n \in Nat
  PROVE  Fits(SdsGrowZero(h, n)) /\ Closed(SdsGrowZero(h, n))
  <1>0. h.len \in Nat
    BY FitsNumbers
  <1>1. CASE n =< h.len
    BY <1>1 DEF SdsGrowZero
  <1>2. CASE ~(n =< h.len)
    <2>1. PICK k \in Nat : k = n - h.len
      BY <1>0, <1>2
    <2>2. PICK zeros \in Seq(Byte) : zeros = [i \in 1..k |-> NUL] /\ Len(zeros) = k
      BY ZerosAreBytes
    <2>3. PICK r : r = SdsMakeRoomFor(h, k)
      OBVIOUS
    <2>4. Fits(r) /\ r.len = h.len /\ SdsAlloc(r) >= h.len + k
      BY <2>3, MakeRoomFits
    <2>5. h.len \in 0..Len(r.mem) /\ h.len + Len(zeros) =< SdsAlloc(r)
      BY <2>2, <2>4, FitsNumbers DEF Fits
    <2>6. SdsGrowZero(h, n) = Ended(r, h.len, zeros)
      BY <1>2, <2>1, <2>2, <2>3 DEF SdsGrowZero
    <2>. QED
      BY <2>4, <2>5, <2>6, EndedFits
  <1>. QED
    BY <1>1, <1>2

(* sdsIncrLen with a negative count. *)
LEMMA DecrLenFits ==
  ASSUME NEW h, Fits(h), NEW n \in Nat, n =< h.len
  PROVE  Fits(SdsDecrLen(h, n)) /\ Closed(SdsDecrLen(h, n))
  <1>1. h.len - n \in 0..Len(h.mem) /\ (h.len - n) + Len(<<>>) =< SdsAlloc(h)
    BY FitsNumbers DEF Fits
  <1>2. <<>> \in Seq(Byte)
    OBVIOUS
  <1>. QED
    BY <1>1, <1>2, EndedFits DEF SdsDecrLen

LEMMA ClearFits ==
  ASSUME NEW h, Fits(h)
  PROVE  Fits(SdsClear(h)) /\ Closed(SdsClear(h))
  <1>1. 0 \in 0..Len(h.mem) /\ 0 + Len(<<>>) =< SdsAlloc(h)
    BY FitsNumbers
  <1>2. <<>> \in Seq(Byte)
    OBVIOUS
  <1>. QED
    BY <1>1, <1>2, EndedFits DEF SdsClear

(* sdsupdatelen finds the terminator, or a NUL before it. *)
LEMMA UpdateLenFits ==
  ASSUME NEW h, Fits(h), Closed(h)
  PROVE  Fits(SdsUpdateLen(h)) /\ Closed(SdsUpdateLen(h))
  <1>0. h \in Header /\ h.mem \in Seq(Byte) /\ h.len \in Nat /\ SdsAlloc(h) \in Nat
    BY FitsNumbers DEF Fits
  <1>1. PICK k \in 0..Len(h.mem) : k = StrLen(h.mem)
    BY <1>0, StrLenBytes
  <1>2. h.len + 1 \in 1..Len(h.mem) /\ h.mem[h.len + 1] = NUL
    BY <1>0 DEF Closed
  <1>3. k < h.len + 1
    BY <1>0, <1>1, <1>2, StrLenBytes
  <1>4. k < Len(h.mem) /\ h.mem[k + 1] = NUL
    <2>1. k < Len(h.mem)
      BY <1>0, <1>2, <1>3
    <2>. QED
      BY <1>0, <1>1, <2>1, StrLenBytes
  <1>5. k =< h.len /\ Holds(h.type, k)
    BY <1>0, <1>3, FitsNumbers, HoldsLess
  <1>6. PICK r : r = [h EXCEPT !.len = k]
    OBVIOUS
  <1>7. SdsUpdateLen(h) = r
    BY <1>0, <1>1, <1>5, <1>6, SetLenShape DEF SdsUpdateLen
  <1>8. /\ r \in Header /\ r.type = h.type /\ r.alloc = h.alloc /\ r.room = h.room
        /\ r.len = k /\ r.mem = h.mem
    BY <1>0, <1>6 DEF Header
  <1>9. SdsAlloc(r) = IF h.type = 5 THEN k ELSE SdsAlloc(h)
    BY <1>8 DEF SdsAlloc
  <1>10. /\ Holds(r.type, SdsAlloc(r)) /\ r.len =< SdsAlloc(r) /\ SdsAlloc(r) < r.room
         /\ r.len =< Len(r.mem) /\ Len(r.mem) =< r.room
    BY <1>0, <1>3, <1>5, <1>8, <1>9 DEF Fits, Header
  <1>. QED
    BY <1>4, <1>7, <1>8, <1>10 DEF Fits, Closed

(* A part of the string, moved to its beginning. *)
LEMMA PartFits ==
  ASSUME NEW h, Fits(h), NEW first \in Nat \ {0}, NEW last \in Int,
         last =< h.len, last - first + 1 =< h.len
  PROVE  LET r == Ended(h, 0, SubSeq(h.mem, first, last)) IN Fits(r) /\ Closed(r)
  <1>0. h.mem \in Seq(Byte) /\ h.len \in Nat /\ SdsAlloc(h) \in Nat
        /\ h.len =< Len(h.mem) /\ h.len =< SdsAlloc(h)
    BY FitsNumbers DEF Fits
  <1>1. \A i \in first..last : h.mem[i] \in Byte
    <2>1. \A i \in first..last : i \in 1..Len(h.mem)
      BY <1>0
    <2>. QED
      BY <1>0, <2>1, ElementOfSeq
  <1>2. PICK part \in Seq(Byte) :
          /\ part = SubSeq(h.mem, first, last)
          /\ Len(part) = IF first =< last THEN last - first + 1 ELSE 0
    <2>1. PICK q : q = h.mem
      OBVIOUS
    <2>2. \A i \in first..last : q[i] \in Byte
      BY <1>1, <2>1
    <2>3. /\ SubSeq(q, first, last) \in Seq(Byte)
          /\ Len(SubSeq(q, first, last)) = IF first =< last THEN last - first + 1 ELSE 0
      BY <2>2, SubSeqProperties
    <2>. QED
      BY <2>1, <2>3
  <1>3. 0 \in 0..Len(h.mem) /\ 0 + Len(part) =< SdsAlloc(h)
    BY <1>0, <1>2
  <1>. QED
    BY <1>2, <1>3, EndedFits

LEMMA TrimFits ==
  ASSUME NEW h, Fits(h), NEW cset
  PROVE  Fits(SdsTrim(h, cset)) /\ Closed(SdsTrim(h, cset))
  <1>. DEFINE cut == cset \union {NUL}
              KeptFrom == {i \in 1..h.len : h.mem[i] \notin cut} \union {h.len + 1}
  <1>0. h.len \in Nat
    BY FitsNumbers
  <1>1. KeptFrom \in SUBSET (1..h.len + 1) /\ KeptFrom # {}
    BY <1>0
  <1>2. Min(KeptFrom) \in KeptFrom
    BY <1>0, <1>1, LeastOfNat
  <1>3. PICK sp \in 1..h.len + 1 : sp = Min(KeptFrom)
    BY <1>1, <1>2
  <1>. DEFINE KeptTo == {i \in sp..h.len : i = sp \/ h.mem[i] \notin cut}
  <1>4. sp =< h.len => Max(KeptTo) \in sp..h.len
    <2>1. ASSUME sp =< h.len PROVE Max(KeptTo) \in KeptTo
      <3>1. \A i \in sp..h.len : i \in 0..h.len
        BY <1>0
      <3>2. KeptTo \in SUBSET (0..h.len)
        BY <3>1
      <3>3. sp \in KeptTo
        BY <1>0, <2>1
      <3>. QED
        BY <1>0, <3>2, <3>3, GreatestOfNat
    <2>. QED
      BY <2>1
  <1>5. PICK ep : ep = IF sp > h.len THEN h.len ELSE Max(KeptTo)
    OBVIOUS
  <1>6. SdsTrim(h, cset) = Ended(h, 0, SubSeq(h.mem, sp, ep))
    BY <1>3, <1>5 DEF SdsTrim
  <1>. HIDE DEF KeptTo, KeptFrom
  <1>7. ep \in Int /\ ep =< h.len /\ ep - sp + 1 =< h.len
    BY <1>0, <1>4, <1>5
  <1>. QED
    BY <1>6, <1>7, PartFits

LEMMA RangeFits ==
  ASSUME NEW h, Fits(h), Closed(h), NEW first \in Int, NEW end \in Int
  PROVE  Fits(SdsRange(h, first, end)) /\ Closed(SdsRange(h, first, end))
  <1>0. h.len \in Nat
    BY FitsNumbers
  <1>1. CASE h.len = 0
    BY <1>1 DEF SdsRange
  <1>2. CASE h.len # 0
    <2>1. PICK from \in Nat : from = IF first < 0 THEN Max({h.len + first, 0}) ELSE first
      BY <1>0, GreaterOfTwo
    <2>2. PICK to \in Nat : to = IF end < 0 THEN Max({h.len + end, 0}) ELSE end
      BY <1>0, GreaterOfTwo
    <2>3. PICK last \in Int : last = Min({to, h.len - 1}) /\ last =< h.len - 1
      BY <1>0, LesserOfTwo
    <2>4. PICK n \in Nat :
            n = IF from > to \/ from >= h.len \/ from > last THEN 0 ELSE last - from + 1
      <3>1. CASE from > last
        BY <3>1
      <3>2. CASE ~(from > last)
        <4>1. last - from + 1 \in Nat
          BY <3>2
        <4>. QED
          BY <3>2, <4>1
      <3>. QED
        BY <3>1, <3>2
    <2>5. SdsRange(h, first, end) = Ended(h, 0, SubSeq(h.mem, from + 1, from + n))
      BY <1>2, <2>1, <2>2, <2>3, <2>4 DEF SdsRange
    <2>6. CASE n = 0
      <3>1. SubSeq(h.mem, from + 1, from + n) = SubSeq(h.mem, 1, 0)
        BY <2>6, SubSeqEmpty
      <3>2. 0 =< h.len /\ 0 - 1 + 1 =< h.len
        BY <1>0
      <3>3. PICK one \in Nat \ {0} : one = 1
        OBVIOUS
      <3>4. Fits(Ended(h, 0, SubSeq(h.mem, one, 0))) /\ Closed(Ended(h, 0, SubSeq(h.mem, one, 0)))
        BY <3>2, <3>3, PartFits
      <3>. QED
        BY <2>5, <3>1, <3>3, <3>4
    <2>7. CASE n # 0
      <3>1. from + n =< h.len /\ (from + n) - (from + 1) + 1 =< h.len
        BY <1>0, <2>3, <2>4, <2>7
      <3>. QED
        BY <1>0, <2>5, <3>1, PartFits
    <2>. QED
      BY <2>6, <2>7
  <1>. QED
    BY <1>1, <1>2

(* Bytes changed in place. *)
LEMMA RewrittenFits ==
  ASSUME NEW h, Fits(h), Closed(h), NEW f \in [Byte -> Byte]
  PROVE  Fits(Rewritten(h, f)) /\ Closed(Rewritten(h, f))
  <1>0. h \in Header /\ h.mem \in Seq(Byte) /\ h.len \in Nat
    BY FitsNumbers DEF Fits
  <1>1. PICK n \in Nat : n = Len(h.mem) /\ DOMAIN h.mem = 1..n
    BY <1>0, LenProperties
  <1>2. PICK q : q = [i \in DOMAIN h.mem |-> IF i <= h.len THEN f[h.mem[i]] ELSE h.mem[i]]
    OBVIOUS
  <1>3. q \in [1..n -> Byte]
    <2>1. \A i \in 1..n : h.mem[i] \in Byte /\ f[h.mem[i]] \in Byte
      BY <1>0, <1>1, ElementOfSeq
    <2>. QED
      BY <1>1, <1>2, <2>1
  <1>4. q \in Seq(Byte)
    BY <1>3, SeqDef
  <1>5. Len(q) = n
    <2>1. DOMAIN q = 1..n /\ DOMAIN q = 1..Len(q) /\ Len(q) \in Nat
      BY <1>3, <1>4, LenProperties
    <2>. QED
      BY <2>1
  <1>6. PICK r : r = [h EXCEPT !.mem = q]
    OBVIOUS
  <1>7. Rewritten(h, f) = r
    BY <1>2, <1>6 DEF Rewritten
  <1>8. /\ r \in Header /\ r.type = h.type /\ r.alloc = h.alloc /\ r.room = h.room
        /\ r.len = h.len /\ r.mem = q
    BY <1>0, <1>4, <1>6 DEF Header
  <1>9. SdsAlloc(r) = SdsAlloc(h)
    BY <1>8 DEF SdsAlloc
  <1>10. q[h.len + 1] = NUL
    BY <1>0, <1>1, <1>2 DEF Closed
  <1>. QED
    BY <1>1, <1>5, <1>7, <1>8, <1>9, <1>10 DEF Fits, Closed

LEMMA MapCharsFits ==
  ASSUME NEW h, Fits(h), Closed(h), NEW map \in Maps
  PROVE  Fits(SdsMapChars(h, map[1], map[2])) /\ Closed(SdsMapChars(h, map[1], map[2]))
  <1>. DEFINE at(b) == {i \in DOMAIN map[1] : map[1][i] = b}
              f == [b \in Byte |-> IF at(b) = {} THEN b ELSE map[2][Min(at(b))]]
  <1>1. /\ map[1] \in Seq(Byte) /\ map[2] \in Seq(Byte) /\ Len(map[2]) = Len(map[1])
    BY ArgumentAssumption
  <1>2. ASSUME NEW b \in Byte, at(b) # {}
        PROVE  map[2][Min(at(b))] \in Byte
    <2>1. at(b) \in SUBSET (1..Len(map[1]))
      BY <1>1
    <2>2. Min(at(b)) \in at(b)
      <3>1. PICK S : S = at(b)
        OBVIOUS
      <3>2. S \in SUBSET (1..Len(map[1])) /\ S # {}
        BY <1>2, <2>1, <3>1
      <3>. HIDE DEF at
      <3>3. S \in SUBSET Nat
        BY <3>2
      <3>. QED
        BY <3>1, <3>2, <3>3, LeastOfNat
    <2>3. PICK i \in 1..Len(map[2]) : i = Min(at(b))
      BY <1>1, <2>1, <2>2
    <2>. QED
      BY <1>1, <2>3, ElementOfSeq
  <1>3. f \in [Byte -> Byte]
    BY <1>2
  <1>4. SdsMapChars(h, map[1], map[2]) = Rewritten(h, f)
    BY DEF SdsMapChars
  <1>. HIDE DEF f
  <1>. QED
    BY <1>3, <1>4, RewrittenFits

-----------------------------------------------------------------------------
(* sdscatfmt.                                                              *)

WholePieces(pieces) == \A i \in DOMAIN pieces : pieces[i].kind = "byte" => Len(pieces[i].text) = 1

(* One turn of the loop: the string is not terminated, but it fits. *)
LEMMA PieceFits ==
  ASSUME NEW h, NEW piece, NEW kind, NEW text \in Seq(Byte)
  PROVE  /\ Fits(h) /\ (kind # "argument" => Len(text) = 1)
         /\ piece.kind = kind /\ piece.text = text
         => Fits(Formatted(h, piece))
  <1>0. SUFFICES ASSUME Fits(h), kind # "argument" => Len(text) = 1,
                        piece.kind = kind, piece.text = text
                 PROVE  Fits(Formatted(h, piece))
    OBVIOUS
  <1>1. PICK one : one = IF SdsAvail(h) = 0 THEN SdsMakeRoomFor(h, 1) ELSE h
    OBVIOUS
  <1>2. Fits(one) /\ SdsAvail(one) >= 1
    <2>1. CASE SdsAvail(h) = 0
      <3>1. 1 \in Nat /\ one = SdsMakeRoomFor(h, 1)
        BY <1>1, <2>1
      <3>. QED
        BY <1>0, <3>1, MakeRoomFits
    <2>2. CASE SdsAvail(h) # 0
      BY <1>0, <1>1, <2>2, FitsNumbers
    <2>. QED
      BY <2>1, <2>2
  <1>3. PICK wide : wide = IF kind = "argument" /\ SdsAvail(one) < Len(text)
                         THEN SdsMakeRoomFor(one, Len(text)) ELSE one
    OBVIOUS
  <1>4. Fits(wide) /\ SdsAvail(wide) >= Len(text)
    <2>1. CASE kind = "argument" /\ SdsAvail(one) < Len(text)
      <3>1. wide = SdsMakeRoomFor(one, Len(text))
        BY <1>3, <2>1
      <3>. QED
        <4>1. PICK n \in Nat : n = Len(text)
          BY <1>0
        <4>2. Fits(SdsMakeRoomFor(one, n)) /\ SdsAvail(SdsMakeRoomFor(one, n)) >= n
          BY <1>2, MakeRoomFits
        <4>. QED
          BY <3>1, <4>1, <4>2
    <2>2. CASE ~(kind = "argument" /\ SdsAvail(one) < Len(text))
      <3>1. wide = one
        BY <1>3, <2>2
      <3>2. SdsAvail(one) \in Nat
        BY <1>2, FitsNumbers
      <3>3. Len(text) = 1 \/ ~(SdsAvail(one) < Len(text))
        BY <1>0, <2>2
      <3>4. SdsAvail(one) >= Len(text)
        BY <1>2, <3>2, <3>3
      <3>. QED
        BY <1>2, <3>1, <3>4
    <2>. QED
      BY <2>1, <2>2
  <1>5. /\ wide \in Header /\ wide.len \in Nat /\ SdsAlloc(wide) \in Nat
        /\ wide.len \in 0..Len(wide.mem) /\ wide.len + Len(text) =< SdsAlloc(wide)
    BY <1>0, <1>4, FitsNumbers DEF Fits
  <1>6. PICK n \in Nat : n = wide.len + Len(text)
    BY <1>0, <1>5
  <1>7. PICK p : p = Put(wide, wide.len, text)
    OBVIOUS
  <1>8. p \in Header /\ Len(p.mem) = n
    BY <1>5, <1>6, <1>7, PutShape
  <1>9. p.type = wide.type /\ p.alloc = wide.alloc /\ p.room = wide.room
    BY <1>5, <1>7, PutShape
  <1>10. Holds(p.type, n)
    BY <1>4, <1>5, <1>6, <1>9, FitsNumbers, HoldsLess DEF Fits
  <1>11. PICK r : r = [p EXCEPT !.len = n]
    OBVIOUS
  <1>12. SdsSetLen(p, n) = r
    BY <1>8, <1>10, <1>11, SetLenShape
  <1>13. /\ r \in Header /\ r.type = wide.type /\ r.alloc = wide.alloc /\ r.room = wide.room
         /\ r.len = n /\ Len(r.mem) = n
    BY <1>8, <1>9, <1>11 DEF Header
  <1>14. SdsAlloc(r) = IF wide.type = 5 THEN n ELSE SdsAlloc(wide)
    BY <1>13 DEF SdsAlloc
  <1>15. Holds(r.type, SdsAlloc(r))
    BY <1>4, <1>9, <1>10, <1>13, <1>14 DEF Fits
  <1>16. n =< SdsAlloc(r) /\ SdsAlloc(r) < r.room /\ n =< r.room
    BY <1>4, <1>5, <1>6, <1>13, <1>14 DEF Fits, Header
  <1>17. Fits(SdsSetLen(p, n))
    BY <1>12, <1>13, <1>15, <1>16 DEF Fits
  <1>18. Formatted(h, piece) = SdsSetLen(p, n)
    BY <1>0, <1>1, <1>3, <1>6, <1>7, Zenon DEF Formatted
  <1>. QED
    BY <1>17, <1>18

LEMMA FormattedFits ==
  ASSUME NEW h, Fits(h), NEW piece \in Piece, piece.kind = "byte" => Len(piece.text) = 1
  PROVE  Fits(Formatted(h, piece))
  <1>1. PICK text \in Seq(Byte), kind \in {"byte", "argument"} :
          text = piece.text /\ kind = piece.kind
    BY DEF Piece
  <1>2. kind # "argument" => Len(text) = 1
    BY <1>1
  <1>. QED
    BY <1>1, <1>2, PieceFits, Zenon

(* The terminator at the end. *)
LEMMA EndFormatFits ==
  ASSUME NEW h, Fits(h)
  PROVE  Fits(Put(h, h.len, <<NUL>>)) /\ Closed(Put(h, h.len, <<NUL>>))
  <1>0. /\ h \in Header /\ h.len \in Nat /\ SdsAlloc(h) \in Nat
        /\ h.len \in 0..Len(h.mem) /\ h.len =< SdsAlloc(h) /\ SdsAlloc(h) < h.room
    BY FitsNumbers DEF Fits
  <1>1. <<NUL>> \in Seq(Byte) /\ Len(<<NUL>>) = 1 /\ <<NUL>>[1] = NUL /\ 1 \in 1..Len(<<NUL>>)
    BY SdsAssumption
  <1>2. PICK nul \in Seq(Byte) : nul = <<NUL>> /\ Len(nul) = 1 /\ nul[1] = NUL
    BY <1>1
  <1>3. PICK p : p = Put(h, h.len, nul)
    OBVIOUS
  <1>4. /\ p \in Header /\ Len(p.mem) = h.len + Len(nul)
        /\ \A i \in 1..Len(nul) : p.mem[h.len + i] = nul[i]
    BY <1>0, <1>3, PutShape
  <1>5. Len(p.mem) = h.len + 1 /\ p.mem[h.len + 1] = NUL
    BY <1>2, <1>4
  <1>6. p.type = h.type /\ p.alloc = h.alloc /\ p.room = h.room /\ p.len = h.len
    BY <1>0, <1>3, PutShape
  <1>7. SdsAlloc(p) = SdsAlloc(h)
    BY <1>6 DEF SdsAlloc
  <1>8. p.len =< Len(p.mem) /\ Len(p.mem) =< p.room /\ p.len < Len(p.mem)
    BY <1>0, <1>5, <1>6 DEF Header
  <1>. QED
    BY <1>2, <1>3, <1>4, <1>5, <1>6, <1>7, <1>8 DEF Fits, Closed

-----------------------------------------------------------------------------
(* The invariant: the string is in agreement with its block, and terminated *)
(* unless sdscatfmt is at work, of which only whole pieces are left.        *)

FormatGoesOn ==
  fmt # Null => Fits(s) /\ fmt \in Format /\ WholePieces(fmt.left)

StringFits == s # Null => Fits(s) /\ (fmt = Null => Closed(s))

IInv == FormatGoesOn /\ StringFits

LEMMA TextsAreBytes ==
  ASSUME NEW t \in Texts
  PROVE  t \in Seq(Byte)
  <1>1. PICK n \in 0..MaxText : t \in [1..n -> Byte]
    BY DEF Texts
  <1>. QED
    BY <1>1, ArgumentAssumption, SeqDef

LEMMA PrintedBytes ==
  ASSUME NEW t \in Seq(Byte), NEW n \in Nat \ {0}
  PROVE  Printed(t, n) \in Seq(Byte)
  <1>1. PICK buf \in Seq(Byte) : buf = Take(t, n - 1)
    BY TakeBytes
  <1>2. StrLen(buf) \in Nat
    BY StrLenBytes
  <1>. QED
    BY <1>1, <1>2, TakeBytes DEF Printed

(* A call leaves the string as its lemma says. *)
LEMMA CallKeeps ==
  ASSUME IInv, NEW h, NEW call, Changes(h, call),
         h # Null => Fits(h) /\ Closed(h)
  PROVE  IInv'
  BY DEF IInv, FormatGoesOn, StringFits, Changes

LEMMA CreateKeeps ==
  ASSUME IInv, NEW h, NEW call, Creates(h, call),
         Fits(h) /\ Closed(h)
  PROVE  IInv'
  BY DEF IInv, FormatGoesOn, StringFits, Creates

LEMMA StringAtACall ==
  ASSUME IInv, NEW h, NEW call, Changes(h, call)
  PROVE  Fits(s) /\ Closed(s)
  BY DEF IInv, StringFits, Changes

LEMMA InitFits == Init => IInv
  BY DEF Init, IInv, FormatGoesOn, StringFits

LEMMA CreationStep ==
  ASSUME IInv, NewLen \/ NewZeros
  PROVE  IInv'
  <1>1. ASSUME NEW t \in Texts, Creates(SdsNewLen(t), Call("newlen", t, <<>>, 0, 0))
        PROVE  IInv'
    BY <1>1, TextsAreBytes, NewLenFits, CreateKeeps
  <1>2. ASSUME NEW n \in 0..MaxText,
               Creates(SdsNewLen([i \in 1..n |-> NUL]), Call("zeros", <<>>, <<>>, n, 0))
        PROVE  IInv'
    <2>1. [i \in 1..n |-> NUL] \in Seq(Byte)
      BY ArgumentAssumption, ZerosAreBytes
    <2>. QED
      BY <1>2, <2>1, NewLenFits, CreateKeeps
  <1>. QED
    BY <1>1, <1>2 DEF NewLen, NewZeros

(* The calls that take nothing but the string. *)
LEMMA PlainStep ==
  ASSUME IInv, Dup \/ Free \/ UpdateLen \/ Clear \/ RemoveFreeSpace \/ ToLower \/ ToUpper
  PROVE  IInv'
  <1>1. CASE Dup
    <2>1. Fits(s)
      BY <1>1, StringAtACall DEF Dup
    <2>2. Take(s.mem, s.len) \in Seq(Byte)
      BY <2>1, FitsNumbers, TakeBytes
    <2>. QED
      BY <1>1, <2>2, NewLenFits, CallKeeps DEF Dup
  <1>2. CASE Free
    BY <1>2, CallKeeps DEF Free
  <1>3. CASE UpdateLen
    <2>1. Fits(s) /\ Closed(s)
      BY <1>3, StringAtACall DEF UpdateLen
    <2>. QED
      BY <1>3, <2>1, UpdateLenFits, CallKeeps DEF UpdateLen
  <1>4. CASE Clear
    <2>1. Fits(s)
      BY <1>4, StringAtACall DEF Clear
    <2>. QED
      BY <1>4, <2>1, ClearFits, CallKeeps DEF Clear
  <1>5. CASE RemoveFreeSpace
    <2>1. Fits(s) /\ Closed(s)
      BY <1>5, StringAtACall DEF RemoveFreeSpace
    <2>. QED
      BY <1>5, <2>1, RemoveFreeFits, CallKeeps DEF RemoveFreeSpace
  <1>6. CASE ToLower
    <2>1. Fits(s) /\ Closed(s)
      BY <1>6, StringAtACall DEF ToLower
    <2>. QED
      BY <1>6, <2>1, ArgumentAssumption, RewrittenFits, CallKeeps DEF ToLower
  <1>7. CASE ToUpper
    <2>1. Fits(s) /\ Closed(s)
      BY <1>7, StringAtACall DEF ToUpper
    <2>. QED
      BY <1>7, <2>1, ArgumentAssumption, RewrittenFits, CallKeeps DEF ToUpper
  <1>. QED
    BY <1>1, <1>2, <1>3, <1>4, <1>5, <1>6, <1>7

(* The calls that ask for room, or take a number. *)
LEMMA NumberStep ==
  ASSUME IInv, MakeRoomFor \/ Shortened \/ GrowZero \/ SubRange
  PROVE  IInv'
  <1>1. ASSUME NEW n \in 0..MaxText,
               Changes(SdsMakeRoomFor(s, n), Call("makeroom", <<>>, <<>>, n, 0))
        PROVE  IInv'
    <2>1. Fits(s) /\ Closed(s)
      BY <1>1, StringAtACall
    <2>2. Fits(SdsMakeRoomFor(s, n)) /\ Closed(SdsMakeRoomFor(s, n))
      BY <2>1, ArgumentAssumption, MakeRoomFits
    <2>. QED
      BY <1>1, <2>2, CallKeeps
  <1>2. ASSUME NEW n \in 1..MaxLen, n <= s.len,
               Changes(SdsDecrLen(s, n), Call("shortened", <<>>, <<>>, n, 0))
        PROVE  IInv'
    <2>1. Fits(s)
      BY <1>2, StringAtACall
    <2>2. Fits(SdsDecrLen(s, n)) /\ Closed(SdsDecrLen(s, n))
      BY <1>2, <2>1, ArgumentAssumption, DecrLenFits
    <2>. QED
      BY <1>2, <2>2, CallKeeps
  <1>3. ASSUME NEW n \in 0..MaxLen,
               Changes(SdsGrowZero(s, n), Call("growzero", <<>>, <<>>, n, 0))
        PROVE  IInv'
    <2>1. Fits(s) /\ Closed(s)
      BY <1>3, StringAtACall
    <2>2. Fits(SdsGrowZero(s, n)) /\ Closed(SdsGrowZero(s, n))
      BY <2>1, ArgumentAssumption, GrowZeroFits
    <2>. QED
      BY <1>3, <2>2, CallKeeps
  <1>4. ASSUME NEW first \in Ends, NEW end \in Ends,
               Changes(SdsRange(s, first, end), Call("range", <<>>, <<>>, first, end))
        PROVE  IInv'
    <2>1. Fits(s) /\ Closed(s)
      BY <1>4, StringAtACall
    <2>2. Fits(SdsRange(s, first, end)) /\ Closed(SdsRange(s, first, end))
      BY <2>1, ArgumentAssumption, RangeFits
    <2>. QED
      BY <1>4, <2>2, CallKeeps
  <1>. QED
    BY <1>1, <1>2, <1>3, <1>4 DEF MakeRoomFor, Shortened, GrowZero, SubRange

(* The calls that take a text. *)
LEMMA TextStep ==
  ASSUME IInv, Written \/ CatLen \/ CpyLen \/ CatPrintf \/ Trim \/ MapChars
  PROVE  IInv'
  <1>1. ASSUME NEW t \in Texts, Len(t) <= SdsAvail(s),
               Changes(SdsIncrLen(s, t), Call("written", t, <<>>, 0, 0))
        PROVE  IInv'
    <2>1. Fits(s) /\ t \in Seq(Byte)
      BY <1>1, StringAtACall, TextsAreBytes
    <2>2. s.len \in 0..Len(s.mem) /\ s.len + Len(t) =< SdsAlloc(s)
      BY <1>1, <2>1, FitsNumbers DEF Fits
    <2>3. Fits(SdsIncrLen(s, t)) /\ Closed(SdsIncrLen(s, t))
      BY <2>1, <2>2, EndedFits DEF SdsIncrLen
    <2>. QED
      BY <1>1, <2>3, CallKeeps
  <1>2. ASSUME NEW t \in Texts, Changes(SdsCatLen(s, t), Call("catlen", t, <<>>, 0, 0))
        PROVE  IInv'
    BY <1>2, StringAtACall, TextsAreBytes, CatLenFits, CallKeeps
  <1>3. ASSUME NEW t \in Texts, Changes(SdsCpyLen(s, t), Call("cpylen", t, <<>>, 0, 0))
        PROVE  IInv'
    BY <1>3, StringAtACall, TextsAreBytes, CpyLenFits, CallKeeps
  <1>4. ASSUME NEW t \in Texts, NEW n \in BufLens,
               Changes(SdsCatLen(s, Printed(t, n)), Call("catprintf", t, <<>>, 0, 0))
        PROVE  IInv'
    <2>1. Printed(t, n) \in Seq(Byte)
      BY TextsAreBytes, PrintedBytes DEF BufLens
    <2>. QED
      BY <1>4, <2>1, StringAtACall, CatLenFits, CallKeeps
  <1>5. ASSUME NEW t \in Texts, Changes(SdsTrim(s, ToSet(t)), Call("trim", t, <<>>, 0, 0))
        PROVE  IInv'
    BY <1>5, StringAtACall, TrimFits, CallKeeps
  <1>6. ASSUME NEW map \in Maps,
               Changes(SdsMapChars(s, map[1], map[2]), Call("mapchars", map[1], map[2], 0, 0))
        PROVE  IInv'
    BY <1>6, StringAtACall, MapCharsFits, CallKeeps
  <1>. QED
    BY <1>1, <1>2, <1>3, <1>4, <1>5, <1>6 DEF Written, CatLen, CpyLen, CatPrintf, Trim, MapChars

(* sdscatfmt: each turn takes a whole piece off the format. *)
LEMMA FormatStep ==
  ASSUME IInv, BeginFormat \/ FormatPiece \/ EndFormat
  PROVE  IInv'
  <1>1. ASSUME NEW pieces \in Formats, s # Null, fmt = Null,
               fmt' = [left |-> pieces, text |-> <<>>, initlen |-> s.len],
               UNCHANGED s
        PROVE  IInv'
    <2>1. Fits(s) /\ Closed(s)
      BY <1>1 DEF IInv, StringFits
    <2>2. pieces \in Seq(Piece) /\ WholePieces(pieces)
      BY ArgumentAssumption DEF WholePieces
    <2>3. s.len \in Nat
      BY <2>1, FitsNumbers
    <2>4. fmt' \in Format /\ fmt'.left = pieces
      BY <1>1, <2>2, <2>3 DEF Format
    <2>5. Fits(s') /\ (Closed(s'))
      BY <1>1, <2>1
    <2>. QED
      BY <1>1, <2>1, <2>2, <2>4, <2>5 DEF IInv, FormatGoesOn, StringFits
  <1>2. CASE FormatPiece
    <2>1. fmt # Null /\ fmt.left # <<>> /\ fmt \in Format /\ WholePieces(fmt.left) /\ Fits(s)
      BY <1>2 DEF FormatPiece, IInv, FormatGoesOn, StringFits
    <2>2. PICK left \in Seq(Piece) : left = fmt.left /\ left # <<>>
      BY <2>1 DEF Format
    <2>3. /\ Head(left) \in Piece /\ Tail(left) \in Seq(Piece)
          /\ Len(Tail(left)) = Len(left) - 1
          /\ \A i \in 1..Len(Tail(left)) : Tail(left)[i] = left[i + 1]
      BY <2>2, HeadTailProperties
    <2>4. Len(left) \in Nat /\ Len(left) >= 1 /\ Head(left) = left[1]
      BY <2>2
    <2>5. Head(left).kind = "byte" => Len(Head(left).text) = 1
      <3>1. 1 \in DOMAIN left
        BY <2>2, <2>4
      <3>. QED
        BY <2>1, <2>2, <2>4, <3>1 DEF WholePieces
    <2>6. WholePieces(Tail(left))
      <3>1. SUFFICES ASSUME NEW i \in DOMAIN Tail(left), Tail(left)[i].kind = "byte"
                     PROVE  Len(Tail(left)[i].text) = 1
        BY DEF WholePieces
      <3>2. i \in 1..Len(Tail(left)) /\ i + 1 \in DOMAIN left
        BY <2>2, <2>3, <2>4
      <3>3. Tail(left)[i] = left[i + 1]
        BY <2>3, <3>2
      <3>4. left[i + 1].kind = "byte" => Len(left[i + 1].text) = 1
        BY <2>1, <2>2, <3>2 DEF WholePieces
      <3>. QED
        BY <3>1, <3>3, <3>4
    <2>7. /\ fmt' = [fmt EXCEPT !.left = Tail(left), !.text = fmt.text \o Head(left).text]
          /\ s' = Formatted(s, Head(left))
      BY <1>2, <2>2 DEF FormatPiece
    <2>8. fmt' \in Format /\ fmt'.left = Tail(left)
      <3>1. PICK text \in Seq(Byte) : text = fmt.text \o Head(left).text
        BY <2>1, <2>3, ConcatProperties DEF Format, Piece
      <3>2. fmt' = [left |-> Tail(left), text |-> text, initlen |-> fmt.initlen]
        BY <2>1, <2>7, <3>1 DEF Format
      <3>. QED
        BY <2>1, <2>3, <3>1, <3>2 DEF Format
    <2>9. fmt' # Null
      BY <2>8, NullAssumption
    <2>10. Fits(s')
      BY <2>1, <2>3, <2>5, <2>7, FormattedFits
    <2>. QED
      BY <2>6, <2>8, <2>9, <2>10 DEF IInv, FormatGoesOn, StringFits
  <1>3. CASE EndFormat
    <2>1. fmt # Null /\ Fits(s) /\ fmt' = Null /\ s' = Put(s, s.len, <<NUL>>)
      BY <1>3 DEF EndFormat, IInv, FormatGoesOn, StringFits
    <2>. QED
      BY <2>1, EndFormatFits DEF IInv, FormatGoesOn, StringFits
  <1>. QED
    BY <1>1, <1>2, <1>3 DEF BeginFormat

LEMMA StepKeepsFit == IInv /\ [Next]_vars => IInv'
  <1>. SUFFICES ASSUME IInv, [Next]_vars PROVE IInv'
    OBVIOUS
  <1>1. CASE UNCHANGED vars
    BY <1>1 DEF vars, IInv, FormatGoesOn, StringFits
  <1>2. CASE Next
    BY <1>2, CreationStep, PlainStep, NumberStep, TextStep, FormatStep DEF Next
  <1>. QED
    BY <1>1, <1>2

(* Header and block agree, and the string is terminated, after any calls on
   it, for every width of the header types and every growth constant. *)
THEOREM HeaderAndBlockAgree == Spec => []Sound
  <1>1. IInv => Sound
    BY DEF IInv, StringFits, Fits, Closed, Sound
  <1>. QED
    BY <1>1, InitFits, StepKeepsFit, PTL DEF Spec

(* sdsMakeRoomFor leaves the room asked for, and sdsRemoveFreeSpace none,
   also when the string moves behind a header of another type. *)
THEOREM RoomIsAsAsked == Spec => RoomAsAsked
  <1>. DEFINE Asked ==
         fmt = Null /\ fmt' = Null =>
           /\ op'.name = "makeroom" => s'.room > s'.len + op'.n /\ SdsAvail(s') >= op'.n
           /\ op'.name = "removefree" => s'.room = s'.len + 1 /\ SdsAvail(s') = 0
  <1>1. ASSUME IInv, MakeRoomFor PROVE Asked
    <2>1. PICK n \in 0..MaxText : Changes(SdsMakeRoomFor(s, n), Call("makeroom", <<>>, <<>>, n, 0))
      BY <1>1 DEF MakeRoomFor
    <2>2. Fits(s) /\ n \in Nat
      BY <1>1, <2>1, StringAtACall, ArgumentAssumption
    <2>3. PICK r : r = SdsMakeRoomFor(s, n)
      OBVIOUS
    <2>4. Fits(r) /\ SdsAvail(r) >= n
      BY <2>2, <2>3, MakeRoomFits
    <2>5. /\ SdsAvail(r) = SdsAlloc(r) - r.len /\ SdsAlloc(r) < r.room
          /\ SdsAlloc(r) \in Nat /\ r.len \in Nat /\ r.room \in Nat
      BY <2>4, FitsNumbers DEF Fits
    <2>6. r.room > r.len + n
      BY <2>2, <2>4, <2>5
    <2>7. s' = r /\ op'.name = "makeroom" /\ op'.n = n
      BY <2>1, <2>3 DEF Changes, Call
    <2>. QED
      BY <2>4, <2>6, <2>7
  <1>2. ASSUME IInv, RemoveFreeSpace PROVE Asked
    <2>1. Fits(s)
      BY <1>2, StringAtACall DEF RemoveFreeSpace
    <2>2. s' = SdsRemoveFreeSpace(s) /\ op'.name = "removefree"
      BY <1>2 DEF RemoveFreeSpace, Changes, Call
    <2>3. SdsRemoveFreeSpace(s).room = SdsRemoveFreeSpace(s).len + 1
          /\ SdsAvail(SdsRemoveFreeSpace(s)) = 0
      BY <2>1, RemoveFreeFits
    <2>4. op'.name # "makeroom"
      BY <2>2
    <2>. QED
      BY <2>2, <2>3, <2>4
  <1>3. ASSUME IInv, BeginFormat PROVE Asked
    <2>1. PICK pieces \in Formats :
            s # Null /\ fmt = Null /\ fmt' = [left |-> pieces, text |-> <<>>, initlen |-> s.len]
      BY <1>3 DEF BeginFormat
    <2>2. pieces \in Seq(Piece) /\ s.len \in Nat
      BY <1>3, <2>1, ArgumentAssumption, FitsNumbers DEF IInv, StringFits
    <2>3. fmt' \in Format
      BY <2>1, <2>2 DEF Format
    <2>4. fmt' # Null
      BY <2>3, NullAssumption
    <2>. QED
      BY <2>4
  <1>4. ASSUME Next, ~MakeRoomFor, ~RemoveFreeSpace, ~BeginFormat PROVE Asked
    <2>1. CASE NewLen \/ NewZeros
      <3>1. op'.name \in {"newlen", "zeros"}
        <4>1. CASE NewLen
          BY <4>1 DEF NewLen, Creates, Call
        <4>2. CASE NewZeros
          <5>1. PICK n \in 0..MaxText :
                   \E h : Creates(h, Call("zeros", <<>>, <<>>, n, 0))
            BY <4>2 DEF NewZeros
          <5>. QED
            BY <5>1 DEF Creates, Call
        <4>. QED
          BY <2>1, <4>1, <4>2
      <3>. QED
        BY <3>1
    <2>2. CASE Dup \/ Free \/ UpdateLen \/ Clear \/ ToLower \/ ToUpper
      BY <2>2 DEF Dup, Free, UpdateLen, Clear, ToLower, ToUpper, Changes, Call
    <2>3. CASE Written \/ Shortened \/ GrowZero \/ CatLen \/ CpyLen \/ CatPrintf
      BY <2>3 DEF Written, Shortened, GrowZero, CatLen, CpyLen, CatPrintf, Changes, Call
    <2>4. CASE Trim \/ SubRange \/ MapChars
      BY <2>4 DEF Trim, SubRange, MapChars, Changes, Call
    <2>5. CASE FormatPiece \/ EndFormat
      BY <2>5 DEF FormatPiece, EndFormat
    <2>. QED
      BY <1>4, <2>1, <2>2, <2>3, <2>4, <2>5 DEF Next
  <1>5. IInv /\ [Next]_vars => [Asked]_vars
    BY <1>1, <1>2, <1>3, <1>4
  <1>. QED
    BY <1>5, InitFits, StepKeepsFit, PTL DEF Spec, RoomAsAsked
-----------------------------------------------------------------------------
(* What the string holds.                                                  *)

Text(h) == Take(h.mem, h.len)

(* Two strings with the same bytes are the same. *)
LEMMA SameBytes ==
  ASSUME NEW p \in Seq(Byte), NEW q \in Seq(Byte), Len(p) = Len(q),
         \A i \in 1..Len(p) : p[i] = q[i]
  PROVE  p = q
  BY SeqEqual

LEMMA TakeIsSubSeq ==
  ASSUME NEW q \in Seq(Byte), NEW n \in 0..Len(q)
  PROVE  Take(q, n) = SubSeq(q, 1, n)
  <1>1. Min({n, Len(q)}) = n
    BY LesserOfTwo
  <1>. QED
    BY <1>1 DEF Take

LEMMA TakeAll ==
  ASSUME NEW q \in Seq(Byte)
  PROVE  Take(q, Len(q)) = q /\ Take(q, 0) = <<>>
  <1>1. Take(q, Len(q)) \in Seq(Byte) /\ Len(Take(q, Len(q))) = Len(q)
        /\ \A i \in 1..Len(q) : Take(q, Len(q))[i] = q[i]
    <2>1. Len(q) \in Nat
      OBVIOUS
    <2>. QED
      BY <2>1, TakeBytes
  <1>2. Take(q, Len(q)) = q
    BY <1>1, SameBytes
  <1>3. Take(q, 0) \in Seq(Byte) /\ Len(Take(q, 0)) = 0
    BY TakeBytes
  <1>4. Take(q, 0) = <<>>
    BY <1>3, EmptySeq
  <1>. QED
    BY <1>2, <1>4

LEMMA TakeTake ==
  ASSUME NEW q \in Seq(Byte), NEW n \in 0..Len(q), NEW m \in 0..n
  PROVE  Take(Take(q, n), m) = Take(q, m)
  <1>1. PICK p \in Seq(Byte) : p = Take(q, n)
    BY TakeBytes
  <1>2. Len(p) = n /\ \A i \in 1..n : p[i] = q[i]
    BY <1>1, TakeBytes
  <1>0. m \in Nat /\ m =< Len(p) /\ m =< Len(q)
    BY <1>2
  <1>3. PICK a \in Seq(Byte) : a = Take(p, m)
    BY <1>0, TakeBytes
  <1>4. Len(a) = m /\ \A i \in 1..m : a[i] = p[i]
    BY <1>0, <1>3, TakeBytes
  <1>5. PICK b \in Seq(Byte) : b = Take(q, m)
    BY <1>0, TakeBytes
  <1>6. Len(b) = m /\ \A i \in 1..m : b[i] = q[i]
    BY <1>0, <1>5, TakeBytes
  <1>7. \A i \in 1..m : a[i] = b[i]
    BY <1>2, <1>4, <1>6
  <1>8. a = b
    BY <1>4, <1>6, <1>7, SameBytes
  <1>. QED
    BY <1>1, <1>3, <1>5, <1>8

(* The beginning of two strings, one after the other. *)
LEMMA TakeOfBoth ==
  ASSUME NEW p \in Seq(Byte), NEW q \in Seq(Byte), NEW n \in 0..Len(q)
  PROVE  Take(p \o q, Len(p) + n) = p \o Take(q, n)
  <1>1. PICK b \in Seq(Byte) : b = p \o q
    BY ConcatProperties
  <1>2. /\ Len(b) = Len(p) + Len(q)
        /\ \A i \in 1..Len(p) + Len(q) : b[i] = IF i <= Len(p) THEN p[i] ELSE q[i - Len(p)]
    BY <1>1, ConcatProperties
  <1>3. PICK t \in Seq(Byte) : t = Take(q, n)
    BY TakeBytes
  <1>4. Len(t) = n /\ \A i \in 1..n : t[i] = q[i]
    BY <1>3, TakeBytes
  <1>5. PICK m \in Nat : m = Len(p) + n
    OBVIOUS
  <1>6. PICK a \in Seq(Byte) : a = Take(b, m)
    BY TakeBytes
  <1>7. Len(a) = m /\ \A i \in 1..m : a[i] = b[i]
    <2>1. m <= Len(b)
      BY <1>2, <1>5
    <2>2. Len(a) = m
      BY <1>6, <2>1, TakeBytes
    <2>3. \A i \in 1..Len(Take(b, m)) : Take(b, m)[i] = b[i]
      BY TakeBytes
    <2>. QED
      BY <1>6, <2>2, <2>3
  <1>8. PICK c \in Seq(Byte) : c = p \o t
    BY ConcatProperties
  <1>9. /\ Len(c) = m
        /\ \A i \in 1..m : c[i] = IF i <= Len(p) THEN p[i] ELSE t[i - Len(p)]
    <2>1. /\ Len(c) = Len(p) + Len(t)
          /\ \A i \in 1..Len(p) + Len(t) : c[i] = IF i <= Len(p) THEN p[i] ELSE t[i - Len(p)]
      BY <1>8, ConcatProperties
    <2>2. Len(p) + Len(t) = m
      BY <1>4, <1>5
    <2>. QED
      BY <2>1, <2>2
  <1>10. ASSUME NEW i \in 1..m PROVE a[i] = c[i]
    <2>1. i \in 1..Len(p) + Len(q) /\ (~(i <= Len(p)) => i - Len(p) \in 1..n)
      BY <1>5
    <2>. QED
      BY <1>2, <1>4, <1>7, <1>9, <2>1
  <1>11. a = c
    BY <1>7, <1>9, <1>10, SameBytes
  <1>. QED
    BY <1>1, <1>3, <1>5, <1>6, <1>8, <1>11

(* strlen sees as much of a beginning that is followed by a NUL, or has one. *)
LEMMA StrLenOfTake ==
  ASSUME NEW q \in Seq(Byte), NEW k \in 0..Len(q),
         \/ k = Len(q)
         \/ q[k + 1] = NUL
         \/ k > 0 /\ q[k] = NUL
  PROVE  StrLen(Take(q, k)) = StrLen(q) /\ StrLen(q) <= k
  <1>1. PICK p \in Seq(Byte) : p = Take(q, k) /\ Len(p) = k /\ \A i \in 1..k : p[i] = q[i]
    BY TakeBytes
  <1>2. PICK m \in 0..Len(q) : m = StrLen(q)
    BY StrLenBytes
  <1>3. /\ m < Len(q) => q[m + 1] = NUL
        /\ \A i \in 1..Len(q) : q[i] = NUL => m < i
    BY <1>2, StrLenBytes
  <1>4. PICK n \in 0..k : n = StrLen(p)
    BY <1>1, StrLenBytes
  <1>5. /\ n < k => p[n + 1] = NUL
        /\ \A i \in 1..k : p[i] = NUL => n < i
    BY <1>1, <1>4, StrLenBytes
  <1>6. n < k => m <= n
    <2>. SUFFICES ASSUME n < k PROVE m <= n
      OBVIOUS
    <2>1. n + 1 \in 1..k /\ n + 1 \in 1..Len(q) /\ q[n + 1] = NUL
      BY <1>1, <1>5
    <2>. QED
      BY <1>3, <2>1
  <1>7. m <= k
    <2>1. CASE k = Len(q)
      BY <2>1
    <2>2. CASE k < Len(q) /\ q[k + 1] = NUL
      <3>1. k + 1 \in 1..Len(q)
        BY <2>2
      <3>2. m < k + 1
        BY <1>3, <2>2, <3>1
      <3>. QED
        BY <3>2
    <2>3. CASE k > 0 /\ q[k] = NUL
      BY <1>3, <2>3
    <2>. QED
      BY <2>1, <2>2, <2>3
  <1>8. m < k => n <= m
    <2>. SUFFICES ASSUME m < k PROVE n <= m
      OBVIOUS
    <2>1. m + 1 \in 1..k /\ m < Len(q)
      OBVIOUS
    <2>2. p[m + 1] = NUL
      BY <1>1, <1>3, <2>1
    <2>. QED
      BY <1>5, <2>1, <2>2
  <1>9. m = n
    BY <1>6, <1>7, <1>8
  <1>. QED
    BY <1>1, <1>2, <1>4, <1>7, <1>9

(* Bytes written where a string goes on, or over its beginning. *)
LEMMA EndedHolds ==
  ASSUME NEW h \in Header, NEW at \in 0..Len(h.mem), NEW bytes \in Seq(Byte),
         Holds(h.type, at + Len(bytes))
  PROVE  Text(Ended(h, at, bytes)) = Take(h.mem, at) \o bytes
  <1>1. h.mem \in Seq(Byte) /\ at \in Nat /\ at =< Len(h.mem) /\ at + Len(bytes) \in Nat
    BY DEF Header
  <1>2. Holds(h.type, at + Len(bytes))
    OBVIOUS
  <1>3. PICK b \in Seq(Byte) : b = Append(bytes, NUL) /\ Len(b) = Len(bytes) + 1
    BY SdsAssumption, AppendProperties
  <1>4. PICK q \in Seq(Byte) : q = Take(h.mem, at) /\ Len(q) = at
    BY <1>1, TakeBytes
  <1>5. PICK p \in Header : p = Put(h, at, b)
    BY <1>1, PutShape
  <1>6. p = [h EXCEPT !.mem = q \o b]
    BY <1>4, <1>5 DEF Put
  <1>7. p.mem = q \o b /\ p.type = h.type
    BY <1>1, <1>6 DEF Header
  <1>8. PICK n \in Nat : n = at + Len(bytes)
    BY <1>1
  <1>9. Ended(h, at, bytes) = [p EXCEPT !.len = n]
    <2>1. Ended(h, at, bytes) = SdsSetLen(p, n)
      BY <1>3, <1>5, <1>8 DEF Ended
    <2>2. Holds(p.type, n)
      BY <1>2, <1>7, <1>8
    <2>. QED
      BY <2>1, <2>2, SetLenShape
  <1>10. PICK r : r = [p EXCEPT !.len = n]
    OBVIOUS
  <1>11. r.len = n /\ r.mem = q \o b
    BY <1>7, <1>10 DEF Header
  <1>12. Len(bytes) \in 0..Len(b) /\ n = Len(q) + Len(bytes)
    BY <1>3, <1>4, <1>8
  <1>13. Take(q \o b, Len(q) + Len(bytes)) = q \o Take(b, Len(bytes))
    BY <1>12, TakeOfBoth
  <1>14. Take(b, Len(bytes)) = bytes
    <2>0. PICK k \in Nat : k = Len(bytes) /\ k =< Len(b)
      BY <1>3
    <2>1. PICK t \in Seq(Byte) : t = Take(b, k)
      BY TakeBytes
    <2>2. Len(t) = k /\ \A i \in 1..k : t[i] = b[i]
      BY <2>0, <2>1, TakeBytes
    <2>3. \A i \in 1..k : b[i] = bytes[i]
      BY <1>3, <2>0, SdsAssumption, AppendProperties
    <2>4. t = bytes
      BY <2>0, <2>2, <2>3, SameBytes
    <2>. QED
      BY <2>0, <2>1, <2>4
  <1>. QED
    BY <1>4, <1>9, <1>10, <1>11, <1>12, <1>13, <1>14 DEF Text

LEMMA EndedText ==
  ASSUME NEW h, Fits(h), NEW at \in 0..Len(h.mem), NEW bytes \in Seq(Byte),
         at + Len(bytes) =< SdsAlloc(h)
  PROVE  Text(Ended(h, at, bytes)) = Take(h.mem, at) \o bytes
  <1>1. h \in Header /\ SdsAlloc(h) \in Nat /\ at + Len(bytes) \in Nat
    BY FitsNumbers DEF Fits
  <1>2. Holds(h.type, at + Len(bytes))
    BY <1>1, FitsNumbers, HoldsLess DEF Fits
  <1>. QED
    BY <1>1, <1>2, EndedHolds

LEMMA TextBytes ==
  ASSUME NEW h, Fits(h)
  PROVE  Text(h) \in Seq(Byte) /\ Len(Text(h)) = h.len
         /\ \A i \in 1..h.len : Text(h)[i] = h.mem[i]
  <1>1. h.mem \in Seq(Byte) /\ h.len \in Nat /\ h.len =< Len(h.mem)
    BY FitsNumbers DEF Fits
  <1>. QED
    BY <1>1, TakeBytes DEF Text

LEMMA NothingBefore ==
  ASSUME NEW q \in Seq(Byte), NEW t \in Seq(Byte)
  PROVE  Take(q, 0) \o t = t /\ t \o <<>> = t
  <1>1. Take(q, 0) = <<>>
    BY TakeAll
  <1>2. <<>> \o t = t /\ t \o <<>> = t
    BY ConcatEmptySeq
  <1>. QED
    BY <1>1, <1>2

(* A block of another size holds the same string. *)
LEMMA BlockText ==
  ASSUME NEW h, Fits(h), NEW type \in Types, NEW n \in Nat,
         Holds(type, n), h.len =< n, type = 5 => n = h.len
  PROVE  Text(Block(h, type, n)) = Text(h)
  <1>1. PICK r : r = Block(h, type, n)
    OBVIOUS
  <1>2. Fits(r) /\ r.len = h.len /\ r.mem = Take(h.mem, h.len + 1)
    BY <1>1, BlockFits
  <1>3. PICK q \in Seq(Byte), k \in Nat : q = h.mem /\ k = h.len /\ k =< Len(q)
    BY FitsNumbers DEF Fits
  <1>4. CASE k = Len(q)
    <2>1. Take(q, k + 1) = q
      <3>1. PICK a \in Seq(Byte) : a = Take(q, k + 1)
        BY TakeBytes
      <3>2. Len(a) = k /\ \A i \in 1..k : a[i] = q[i]
        BY <1>4, <3>1, TakeBytes
      <3>. QED
        BY <1>4, <3>1, <3>2, SameBytes
    <2>. QED
      BY <1>1, <1>2, <1>3, <2>1 DEF Text
  <1>5. CASE k < Len(q)
    <2>1. k + 1 \in 0..Len(q) /\ k \in 0..k + 1
      BY <1>5
    <2>2. Take(Take(q, k + 1), k) = Take(q, k)
      BY <2>1, TakeTake
    <2>. QED
      BY <1>1, <1>2, <1>3, <2>2 DEF Text
  <1>. QED
    BY <1>3, <1>4, <1>5

LEMMA MakeRoomText ==
  ASSUME NEW h, Fits(h), NEW addlen \in Nat
  PROVE  Text(SdsMakeRoomFor(h, addlen)) = Text(h)
  <1>0. h.len \in Nat /\ SdsAlloc(h) \in Nat
    BY FitsNumbers
  <1>1. CASE SdsAvail(h) >= addlen
    BY <1>1 DEF SdsMakeRoomFor
  <1>2. CASE ~(SdsAvail(h) >= addlen)
    <2>. DEFINE newlen == h.len + addlen
                want == IF newlen < MaxPrealloc THEN newlen * 2 ELSE newlen + MaxPrealloc
    <2>1. PICK n \in Nat : n = want
      BY <1>0, SdsAssumption
    <2>2. h.len =< n
      BY <1>0, <2>1, SdsAssumption
    <2>3. PICK type \in Types \ {5} : type = Max({8, SdsReqType(n)}) /\ Holds(type, n)
      BY ReqTypeHolds
    <2>4. SdsMakeRoomFor(h, addlen) = Block(h, type, n)
      BY <1>2, <2>1, <2>3 DEF SdsMakeRoomFor
    <2>. QED
      BY <2>2, <2>3, <2>4, BlockText
  <1>. QED
    BY <1>1, <1>2

LEMMA RemoveFreeText ==
  ASSUME NEW h, Fits(h)
  PROVE  Text(SdsRemoveFreeSpace(h)) = Text(h)
  <1>1. h.type \in Types /\ h.len \in Nat /\ Holds(h.type, h.len)
    BY FitsNumbers
  <1>2. SdsReqType(h.len) \in Types /\ Holds(SdsReqType(h.len), h.len)
    BY <1>1, ReqTypeHolds
  <1>3. PICK type \in Types : /\ type = IF SdsReqType(h.len) > 8 THEN h.type ELSE SdsReqType(h.len)
                              /\ Holds(type, h.len)
    BY <1>1, <1>2
  <1>4. SdsRemoveFreeSpace(h) = Block(h, type, h.len)
    BY <1>3 DEF SdsRemoveFreeSpace
  <1>. QED
    BY <1>1, <1>3, <1>4, BlockText

LEMMA CatLenText ==
  ASSUME NEW h, Fits(h), NEW t \in Seq(Byte)
  PROVE  Text(SdsCatLen(h, t)) = Text(h) \o t
  <1>1. PICK r : r = SdsMakeRoomFor(h, Len(t))
    OBVIOUS
  <1>2. Fits(r) /\ r.len = h.len /\ SdsAlloc(r) >= h.len + Len(t) /\ Text(r) = Text(h)
    BY <1>1, MakeRoomFits, MakeRoomText
  <1>3. h.len \in 0..Len(r.mem) /\ h.len + Len(t) =< SdsAlloc(r)
    BY <1>2, FitsNumbers DEF Fits
  <1>4. SdsCatLen(h, t) = Ended(r, h.len, t)
    BY <1>1 DEF SdsCatLen
  <1>5. Text(Ended(r, h.len, t)) = Take(r.mem, h.len) \o t
    BY <1>2, <1>3, EndedText
  <1>6. Take(r.mem, h.len) = Text(h)
    BY <1>2 DEF Text
  <1>. QED
    BY <1>4, <1>5, <1>6

LEMMA CpyLenText ==
  ASSUME NEW h, Fits(h), NEW t \in Seq(Byte)
  PROVE  Text(SdsCpyLen(h, t)) = t
  <1>0. h.len \in Nat /\ SdsAlloc(h) \in Nat /\ h.len =< SdsAlloc(h) /\ Len(t) \in Nat
    BY FitsNumbers DEF Fits
  <1>1. PICK r : r = IF SdsAlloc(h) < Len(t) THEN SdsMakeRoomFor(h, Len(t) - h.len) ELSE h
    OBVIOUS
  <1>2. Fits(r) /\ Len(t) =< SdsAlloc(r)
    <2>1. CASE SdsAlloc(h) < Len(t)
      <3>1. Len(t) - h.len \in Nat
        BY <1>0, <2>1
      <3>2. r = SdsMakeRoomFor(h, Len(t) - h.len)
        BY <1>1, <2>1
      <3>3. Fits(r) /\ SdsAlloc(r) >= h.len + (Len(t) - h.len)
        BY <3>1, <3>2, MakeRoomFits
      <3>4. SdsAlloc(r) \in Nat
        BY <3>3, FitsNumbers
      <3>. QED
        BY <1>0, <3>3, <3>4
    <2>2. CASE ~(SdsAlloc(h) < Len(t))
      BY <1>0, <1>1, <2>2
    <2>. QED
      BY <2>1, <2>2
  <1>3. 0 \in 0..Len(r.mem) /\ 0 + Len(t) =< SdsAlloc(r) /\ r.mem \in Seq(Byte)
    BY <1>0, <1>2, FitsNumbers
  <1>4. SdsCpyLen(h, t) = Ended(r, 0, t)
    BY <1>1 DEF SdsCpyLen
  <1>5. Text(Ended(r, 0, t)) = Take(r.mem, 0) \o t
    BY <1>2, <1>3, EndedText
  <1>. QED
    BY <1>3, <1>4, <1>5, NothingBefore

LEMMA NewLenText ==
  ASSUME NEW t \in Seq(Byte)
  PROVE  Text(SdsNewLen(t)) = t
  <1>1. PICK n \in Nat : n = Len(t)
    OBVIOUS
  <1>2. PICK type \in Types : type = (IF n = 0 THEN 8 ELSE SdsReqType(n)) /\ Holds(type, n)
    <2>1. 8 \in Types /\ (n = 0 => Holds(8, n))
      BY SdsAssumption DEF Types, SmallTypes, Holds
    <2>. QED
      BY <2>1, ReqTypeHolds
  <1>3. PICK h : h = [type |-> type, len |-> 0, alloc |-> 0, room |-> n + 1, mem |-> <<>>]
    OBVIOUS
  <1>4. h \in Header /\ h.type = type /\ h.mem = <<>> /\ 0 \in 0..Len(h.mem) /\ 0 + n = n
    BY <1>3 DEF Header
  <1>5. PICK r : r = Ended(h, 0, t)
    OBVIOUS
  <1>6. r \in Header /\ r.type = type /\ Text(r) = Take(<<>>, 0) \o t
    BY <1>1, <1>2, <1>4, <1>5, EndedShape, EndedHolds
  <1>7. SdsNewLen(t) = SdsSetAlloc(r, n)
    BY <1>1, <1>2, <1>3, <1>5 DEF SdsNewLen
  <1>8. SdsSetAlloc(r, n) = r \/ SdsSetAlloc(r, n) = [r EXCEPT !.alloc = n]
    BY <1>2, <1>6, SetAllocShape
  <1>9. Text(SdsSetAlloc(r, n)) = Text(r)
    BY <1>6, <1>8 DEF Text, Header
  <1>10. <<>> \in Seq(Byte)
    OBVIOUS
  <1>. QED
    BY <1>6, <1>7, <1>9, <1>10, NothingBefore

LEMMA DecrLenText ==
  ASSUME NEW h, Fits(h), NEW n \in Nat, n =< h.len
  PROVE  Text(SdsDecrLen(h, n)) = SubSeq(Text(h), 1, h.len - n)
  <1>1. PICK k \in Nat : k = h.len - n /\ k \in 0..h.len /\ k \in 0..Len(h.mem)
    BY FitsNumbers DEF Fits
  <1>2. <<>> \in Seq(Byte) /\ k + Len(<<>>) =< SdsAlloc(h) /\ h.mem \in Seq(Byte)
        /\ h.len \in 0..Len(h.mem)
    BY <1>1, FitsNumbers DEF Fits
  <1>3. Text(Ended(h, k, <<>>)) = Take(h.mem, k) \o <<>>
    BY <1>1, <1>2, EndedText
  <1>4. Take(h.mem, k) \in Seq(Byte)
    BY <1>2, TakeBytes
  <1>5. Text(SdsDecrLen(h, n)) = Take(h.mem, k)
    BY <1>1, <1>3, <1>4, NothingBefore DEF SdsDecrLen
  <1>6. Take(Text(h), k) = Take(h.mem, k)
    BY <1>1, <1>2, TakeTake DEF Text
  <1>7. Take(Text(h), k) = SubSeq(Text(h), 1, k)
    BY <1>1, TextBytes, TakeIsSubSeq
  <1>. QED
    BY <1>1, <1>5, <1>6, <1>7

LEMMA ClearText ==
  ASSUME NEW h, Fits(h)
  PROVE  Text(SdsClear(h)) = <<>>
  <1>1. <<>> \in Seq(Byte) /\ 0 \in 0..Len(h.mem) /\ 0 + Len(<<>>) =< SdsAlloc(h)
        /\ h.mem \in Seq(Byte)
    BY FitsNumbers
  <1>. QED
    BY <1>1, EndedText, NothingBefore DEF SdsClear

LEMMA GrowZeroText ==
  ASSUME NEW h, Fits(h), NEW n \in Nat
  PROVE  Text(SdsGrowZero(h, n)) = Text(h) \o [i \in 1..n - h.len |-> NUL]
  <1>0. h.len \in Nat
    BY FitsNumbers
  <1>1. CASE n =< h.len
    <2>1. 1..n - h.len = {}
      BY <1>0, <1>1
    <2>2. [i \in 1..n - h.len |-> NUL] = <<>>
      BY <2>1
    <2>. QED
      BY <1>1, <2>2, TextBytes, NothingBefore DEF SdsGrowZero
  <1>2. CASE ~(n =< h.len)
    <2>1. PICK k \in Nat : k = n - h.len
      BY <1>0, <1>2
    <2>2. PICK zeros \in Seq(Byte) : zeros = [i \in 1..k |-> NUL] /\ Len(zeros) = k
      BY ZerosAreBytes
    <2>3. PICK r : r = SdsMakeRoomFor(h, k)
      OBVIOUS
    <2>4. Fits(r) /\ r.len = h.len /\ SdsAlloc(r) >= h.len + k /\ Text(r) = Text(h)
      BY <2>3, MakeRoomFits, MakeRoomText
    <2>5. h.len \in 0..Len(r.mem) /\ h.len + Len(zeros) =< SdsAlloc(r)
      BY <2>2, <2>4, FitsNumbers DEF Fits
    <2>6. SdsGrowZero(h, n) = Ended(r, h.len, zeros)
      BY <1>2, <2>1, <2>2, <2>3 DEF SdsGrowZero
    <2>7. Text(Ended(r, h.len, zeros)) = Take(r.mem, h.len) \o zeros
      BY <2>4, <2>5, EndedText
    <2>8. Take(r.mem, h.len) = Text(h)
      BY <2>4 DEF Text
    <2>. QED
      BY <2>1, <2>2, <2>6, <2>7, <2>8
  <1>. QED
    BY <1>1, <1>2

(* Bytes changed in place. *)
LEMMA RewrittenText ==
  ASSUME NEW h, Fits(h), NEW f \in [Byte -> Byte]
  PROVE  Text(Rewritten(h, f)) = [i \in DOMAIN Text(h) |-> f[Text(h)[i]]]
  <1>0. /\ h \in Header /\ h.mem \in Seq(Byte) /\ h.len \in Nat /\ h.len =< Len(h.mem)
        /\ Text(h) \in Seq(Byte) /\ Len(Text(h)) = h.len
        /\ \A i \in 1..h.len : Text(h)[i] = h.mem[i]
    BY FitsNumbers, TextBytes DEF Fits
  <1>1. PICK n \in Nat : n = Len(h.mem) /\ DOMAIN h.mem = 1..n
    BY <1>0, LenProperties
  <1>2. PICK q : q = [i \in DOMAIN h.mem |-> IF i <= h.len THEN f[h.mem[i]] ELSE h.mem[i]]
    OBVIOUS
  <1>3. q \in [1..n -> Byte]
    <2>1. \A i \in 1..n : h.mem[i] \in Byte /\ f[h.mem[i]] \in Byte
      BY <1>0, <1>1, ElementOfSeq
    <2>. QED
      BY <1>1, <1>2, <2>1
  <1>4. q \in Seq(Byte)
    BY <1>3, SeqDef
  <1>5. Len(q) = n
    <2>1. DOMAIN q = 1..n /\ DOMAIN q = 1..Len(q) /\ Len(q) \in Nat
      BY <1>3, <1>4, LenProperties
    <2>. QED
      BY <2>1
  <1>6. Text(Rewritten(h, f)) = Take(q, h.len)
    BY <1>0, <1>2 DEF Rewritten, Text, Header
  <1>7. PICK w \in Seq(Byte) : w = Take(q, h.len)
    BY <1>0, <1>4, TakeBytes
  <1>8. Len(w) = h.len /\ \A i \in 1..h.len : w[i] = q[i]
    BY <1>0, <1>1, <1>4, <1>5, <1>7, TakeBytes
  <1>9. \A i \in 1..h.len : q[i] = f[Text(h)[i]]
    BY <1>0, <1>1, <1>2
  <1>10. PICK len \in Nat : len = h.len
    BY <1>0
  <1>11. w = [i \in 1..len |-> w[i]]
    BY <1>8, <1>10
  <1>12. PICK t : t = Text(h) /\ DOMAIN t = 1..len
    BY <1>0, <1>10, LenProperties
  <1>13. w = [i \in DOMAIN t |-> f[t[i]]]
    BY <1>8, <1>9, <1>10, <1>11, <1>12
  <1>. QED
    BY <1>6, <1>7, <1>12, <1>13

(* What strlen sees of the block is what it sees of the string. *)
LEMMA UpdateLenText ==
  ASSUME NEW h, Fits(h), Closed(h)
  PROVE  Text(SdsUpdateLen(h)) = Take(Text(h), StrLen(Text(h)))
  <1>0. h \in Header /\ h.mem \in Seq(Byte) /\ h.len \in Nat
    BY FitsNumbers DEF Fits
  <1>1. PICK q \in Seq(Byte), n \in Nat : q = h.mem /\ n = h.len
    BY <1>0
  <1>2. n \in 0..Len(q) /\ q[n + 1] = NUL
    BY <1>1 DEF Closed
  <1>3. PICK k \in Nat : k = StrLen(q) /\ k =< n /\ StrLen(Take(q, n)) = k
    BY <1>2, StrLenBytes, StrLenOfTake
  <1>4. Take(Take(q, n), k) = Take(q, k)
    BY <1>2, <1>3, TakeTake
  <1>5. Holds(h.type, k)
    BY <1>0, <1>1, <1>3, FitsNumbers, HoldsLess
  <1>6. SdsUpdateLen(h) = [h EXCEPT !.len = k]
    BY <1>0, <1>1, <1>3, <1>5, SetLenShape DEF SdsUpdateLen
  <1>7. Text(SdsUpdateLen(h)) = Take(q, k)
    BY <1>0, <1>1, <1>6 DEF Text, Header
  <1>. QED
    BY <1>1, <1>3, <1>4, <1>7 DEF Text

(* When the buffer suffices, vsnprintf has put the whole text there, as far
   as C reads it. *)
LEMMA PrintedText ==
  ASSUME NEW t \in Seq(Byte), NEW n \in Nat \ {0, 1}, ~Overflows(t, n)
  PROVE  Printed(t, n) = Take(t, StrLen(t))
  <1>1. PICK k \in Nat \ {0} : k = n - 1
    OBVIOUS
  <1>2. CASE Len(t) < k
    <2>1. Take(t, k) = t
      <3>1. PICK a \in Seq(Byte) : a = Take(t, k)
        BY TakeBytes
      <3>2. Len(a) = Len(t) /\ \A i \in 1..Len(t) : a[i] = t[i]
        BY <1>2, <3>1, TakeBytes
      <3>. QED
        BY <3>1, <3>2, SameBytes
    <2>. QED
      BY <1>1, <2>1 DEF Printed
  <1>3. CASE k =< Len(t) /\ t[k] = NUL
    <2>1. k \in 0..Len(t) /\ k > 0
      BY <1>3
    <2>2. PICK m \in Nat : m = StrLen(t) /\ m =< k /\ StrLen(Take(t, k)) = m
      BY <1>3, <2>1, StrLenBytes, StrLenOfTake
    <2>3. Take(Take(t, k), m) = Take(t, m)
      BY <2>1, <2>2, TakeTake
    <2>. QED
      BY <1>1, <2>2, <2>3 DEF Printed
  <1>. QED
    BY <1>1, <1>2, <1>3 DEF Overflows

(* The part of the block that sdstrim and sdsrange move to its beginning. *)
LEMMA PartText ==
  ASSUME NEW h, Fits(h), NEW first \in Nat \ {0}, NEW last \in Int,
         last =< h.len, last - first + 1 =< h.len
  PROVE  Text(Ended(h, 0, SubSeq(h.mem, first, last))) = SubSeq(Text(h), first, last)
  <1>0. h.mem \in Seq(Byte) /\ h.len \in Nat /\ SdsAlloc(h) \in Nat
        /\ h.len =< Len(h.mem) /\ h.len =< SdsAlloc(h)
    BY FitsNumbers DEF Fits
  <1>1. PICK q \in Seq(Byte), t \in Seq(Byte) :
          /\ q = h.mem /\ t = Text(h) /\ Len(t) = h.len
          /\ \A i \in 1..h.len : t[i] = q[i]
    BY <1>0, TextBytes
  <1>2. \A i \in first..last : q[i] \in Byte /\ t[i] \in Byte /\ q[i] = t[i]
    <2>1. \A i \in first..last : i \in 1..Len(q) /\ i \in 1..Len(t) /\ i \in 1..h.len
      BY <1>0, <1>1
    <2>. QED
      BY <1>1, <2>1, ElementOfSeq
  <1>3. PICK len \in Nat : len = IF first =< last THEN last - first + 1 ELSE 0
    OBVIOUS
  <1>4. /\ SubSeq(q, first, last) \in Seq(Byte)
        /\ Len(SubSeq(q, first, last)) = len
        /\ \A i \in 1..len : SubSeq(q, first, last)[i] = q[first + i - 1]
    BY <1>2, <1>3, SubSeqProperties
  <1>5. /\ SubSeq(t, first, last) \in Seq(Byte)
        /\ Len(SubSeq(t, first, last)) = len
        /\ \A i \in 1..len : SubSeq(t, first, last)[i] = t[first + i - 1]
    BY <1>2, <1>3, SubSeqProperties
  <1>6. PICK a \in Seq(Byte), b \in Seq(Byte) :
          a = SubSeq(q, first, last) /\ b = SubSeq(t, first, last)
    BY <1>4, <1>5
  <1>7. ASSUME NEW i \in 1..len PROVE a[i] = b[i]
    <2>1. first + i - 1 \in first..last
      BY <1>3
    <2>. QED
      BY <1>2, <1>4, <1>5, <1>6, <2>1
  <1>8. a = b
    BY <1>4, <1>5, <1>6, <1>7, SameBytes
  <1>9. 0 \in 0..Len(h.mem) /\ 0 + Len(a) =< SdsAlloc(h)
    BY <1>0, <1>3, <1>4, <1>6
  <1>10. Text(Ended(h, 0, a)) = Take(h.mem, 0) \o a
    BY <1>9, EndedText
  <1>. QED
    BY <1>0, <1>1, <1>6, <1>8, <1>10, NothingBefore

(* One turn of the loop of sdscatfmt adds its piece. *)
LEMMA PieceText ==
  ASSUME NEW h, Fits(h), NEW piece \in Piece, piece.kind = "byte" => Len(piece.text) = 1
  PROVE  Text(Formatted(h, piece)) = Text(h) \o piece.text
  <1>0. PICK text \in Seq(Byte), kind \in {"byte", "argument"} :
          text = piece.text /\ kind = piece.kind
    BY DEF Piece
  <1>1. PICK one : one = IF SdsAvail(h) = 0 THEN SdsMakeRoomFor(h, 1) ELSE h
    OBVIOUS
  <1>2. Fits(one) /\ SdsAvail(one) >= 1 /\ Text(one) = Text(h)
    <2>1. CASE SdsAvail(h) = 0
      <3>1. 1 \in Nat /\ one = SdsMakeRoomFor(h, 1)
        BY <1>1, <2>1
      <3>. QED
        BY <1>0, <3>1, MakeRoomFits, MakeRoomText
    <2>2. CASE SdsAvail(h) # 0
      BY <1>0, <1>1, <2>2, FitsNumbers
    <2>. QED
      BY <2>1, <2>2
  <1>3. PICK wide : wide = IF kind = "argument" /\ SdsAvail(one) < Len(text)
                         THEN SdsMakeRoomFor(one, Len(text)) ELSE one
    OBVIOUS
  <1>4. Fits(wide) /\ SdsAvail(wide) >= Len(text) /\ Text(wide) = Text(h)
    <2>1. CASE kind = "argument" /\ SdsAvail(one) < Len(text)
      <3>1. PICK n \in Nat : n = Len(text)
        BY <1>0
      <3>2. wide = SdsMakeRoomFor(one, n)
        BY <1>3, <2>1, <3>1
      <3>3. Fits(SdsMakeRoomFor(one, n)) /\ SdsAvail(SdsMakeRoomFor(one, n)) >= n
        BY <1>2, MakeRoomFits
      <3>4. Text(SdsMakeRoomFor(one, n)) = Text(one)
        BY <1>2, MakeRoomText
      <3>. QED
        BY <1>2, <3>1, <3>2, <3>3, <3>4
    <2>2. CASE ~(kind = "argument" /\ SdsAvail(one) < Len(text))
      <3>1. wide = one
        BY <1>3, <2>2
      <3>2. SdsAvail(one) \in Nat
        BY <1>2, FitsNumbers
      <3>3. PICK avail \in Nat, n \in Nat : avail = SdsAvail(one) /\ n = Len(text)
        BY <3>2
      <3>4. avail >= n
        <4>1. (n = 1 \/ ~(avail < n)) /\ avail >= 1
          BY <1>0, <1>2, <2>2, <3>3
        <4>. QED
          BY <4>1
      <3>. QED
        BY <1>2, <3>1, <3>3, <3>4
    <2>. QED
      BY <2>1, <2>2
  <1>5. /\ wide \in Header /\ wide.len \in Nat /\ SdsAlloc(wide) \in Nat
        /\ wide.len \in 0..Len(wide.mem) /\ wide.len + Len(text) =< SdsAlloc(wide)
    BY <1>0, <1>4, FitsNumbers DEF Fits
  <1>6. PICK n \in Nat : n = wide.len + Len(text)
    BY <1>0, <1>5
  <1>7. PICK p : p = Put(wide, wide.len, text)
    OBVIOUS
  <1>8. p \in Header /\ p.type = wide.type /\ Len(p.mem) = n
    BY <1>5, <1>6, <1>7, PutShape
  <1>9. p.mem = Text(wide) \o text
    BY <1>5, <1>7 DEF Put, Text, Header
  <1>10. Holds(p.type, n)
    BY <1>4, <1>5, <1>6, <1>8, FitsNumbers, HoldsLess DEF Fits
  <1>11. SdsSetLen(p, n) = [p EXCEPT !.len = n]
    BY <1>8, <1>10, SetLenShape
  <1>12. Text(SdsSetLen(p, n)) = Take(p.mem, n)
    BY <1>8, <1>11 DEF Text, Header
  <1>13. Take(p.mem, n) = p.mem
    <2>1. PICK m \in Seq(Byte) : m = p.mem
      BY <1>8 DEF Header
    <2>. QED
      BY <1>8, <2>1, TakeAll
  <1>14. Formatted(h, piece) = SdsSetLen(p, n)
    BY <1>0, <1>1, <1>3, <1>6, <1>7, Zenon DEF Formatted
  <1>. QED
    BY <1>0, <1>4, <1>9, <1>12, <1>13, <1>14

(* The terminator at the end is not part of the string. *)
LEMMA TerminatorText ==
  ASSUME NEW h, Fits(h)
  PROVE  Text(Put(h, h.len, <<NUL>>)) = Text(h)
  <1>0. /\ h \in Header /\ h.mem \in Seq(Byte) /\ h.len \in Nat
        /\ Text(h) \in Seq(Byte) /\ Len(Text(h)) = h.len
    BY FitsNumbers, TextBytes DEF Fits
  <1>1. PICK nul \in Seq(Byte) : nul = <<NUL>>
    <2>1. <<NUL>> \in Seq(Byte)
      BY SdsAssumption
    <2>. QED
      BY <2>1
  <1>2. PICK t \in Seq(Byte) : t = Text(h) /\ Len(t) = h.len
    BY <1>0
  <1>3. Text(Put(h, h.len, nul)) = Take(t \o nul, h.len)
    BY <1>0, <1>2 DEF Put, Text, Header
  <1>4. 0 \in 0..Len(nul) /\ Len(t) + 0 = h.len
    BY <1>0, <1>2
  <1>5. Take(t \o nul, Len(t) + 0) = t \o Take(nul, 0)
    BY <1>4, TakeOfBoth
  <1>6. Take(nul, 0) = <<>> /\ t \o <<>> = t
    BY TakeAll, NothingBefore
  <1>. QED
    BY <1>1, <1>2, <1>3, <1>4, <1>5, <1>6

-----------------------------------------------------------------------------
(* What SdsString says of the same calls.                                   *)

LEMMA StringMin == \A S : String!Min(S) = Min(S) /\ String!Max(S) = Max(S)
  BY DEF String!Min, String!Max, Min, Max

LEMMA StringBytes == \A t : String!ToSet(t) = ToSet(t)
  BY DEF String!ToSet, ToSet

LEMMA StringC ==
  ASSUME NEW t \in Seq(Byte)
  PROVE  String!CString(t) = Take(t, StrLen(t))
  <1>1. String!CString(t) = SubSeq(t, 1, StrLen(t))
    BY StringMin DEF String!CString, StrLen
  <1>. QED
    BY <1>1, StrLenBytes, TakeIsSubSeq

(* sdstrim keeps what lies between the first and the last byte not to cut. *)
LEMMA TrimText ==
  ASSUME NEW h, Fits(h), NEW cset
  PROVE  Text(SdsTrim(h, cset)) = String!Trimmed(Text(h), cset)
  <1>. DEFINE cut == cset \union {NUL}
  <1>. HIDE DEF cut
  <1>1. PICK t \in Seq(Byte), n \in Nat :
          /\ t = Text(h) /\ n = h.len /\ DOMAIN t = 1..n
          /\ \A i \in 1..n : t[i] = h.mem[i]
    BY FitsNumbers, TextBytes, LenProperties
  <1>2. PICK kept :
          /\ kept = {i \in 1..n : h.mem[i] \notin cut}
          /\ kept = {i \in DOMAIN t : t[i] \notin cut}
          /\ kept \in SUBSET Nat /\ kept \in SUBSET (0..n)
          /\ \A i \in kept : i \in 1..n
    <2>1. PICK K : K = {i \in 1..n : h.mem[i] \notin cut}
      OBVIOUS
    <2>2. \A i : i \in K <=> i \in {k \in DOMAIN t : t[k] \notin cut}
      BY <1>1, <2>1
    <2>3. K = {i \in DOMAIN t : t[i] \notin cut}
      BY <2>2
    <2>4. \A i \in K : i \in 1..n /\ i \in Nat /\ i \in 0..n
      BY <2>1
    <2>. QED
      BY <2>1, <2>3, <2>4
  <1>3. PICK sp \in 1..n + 1 :
          /\ sp = Min(kept \union {n + 1})
          /\ kept = {} => sp = n + 1
          /\ kept # {} => sp \in kept /\ sp = Min(kept) /\ \A x \in kept : sp =< x
    <2>1. PICK S \in SUBSET Nat : S = kept \union {n + 1} /\ S # {} /\ \A i \in S : i \in 1..n + 1
      <3>1. kept \union {n + 1} \in SUBSET Nat /\ kept \union {n + 1} # {}
        BY <1>2
      <3>2. \A i \in kept \union {n + 1} : i \in 1..n + 1
        BY <1>2
      <3>. QED
        BY <3>1, <3>2
    <2>2. PICK m \in 1..n + 1 : m = Min(S) /\ m \in S /\ \A x \in S : m =< x
      <3>1. Min(S) \in S /\ \A x \in S : Min(S) =< x
        BY <2>1, LeastOfNat
      <3>. QED
        BY <2>1, <3>1
    <2>3. kept = {} => m = n + 1
      BY <2>1, <2>2
    <2>4. ASSUME kept # {} PROVE m \in kept /\ m = Min(kept) /\ \A x \in kept : m =< x
      <3>1. PICK lo \in 1..n : lo = Min(kept) /\ lo \in kept /\ \A x \in kept : lo =< x
        <4>1. Min(kept) \in kept /\ \A x \in kept : Min(kept) =< x
          BY <1>2, <2>4, LeastOfNat
        <4>. QED
          BY <1>2, <4>1
      <3>2. m =< lo
        BY <2>1, <2>2, <3>1
      <3>3. m \in kept
        BY <2>1, <2>2, <3>2
      <3>4. m = lo
        BY <3>1, <3>2, <3>3
      <3>. QED
        BY <3>1, <3>4
    <2>. QED
      BY <2>1, <2>2, <2>3, <2>4
  <1>4. ASSUME kept # {}
        PROVE  /\ sp =< n /\ {i \in sp..n : i = sp \/ h.mem[i] \notin cut} = kept
               /\ Max(kept) \in 1..n
    <2>1. sp \in 1..n /\ \A i \in kept : i \in sp..n
      <3>1. sp \in kept /\ \A i \in kept : sp =< i
        BY <1>3, <1>4
      <3>. QED
        BY <1>2, <3>1
    <2>2. \A i \in sp..n : i \in 1..n /\ ((i = sp \/ h.mem[i] \notin cut) <=> i \in kept)
      BY <1>2, <1>3, <1>4, <2>1
    <2>3. Max(kept) \in kept
      BY <1>2, <1>4, GreatestOfNat
    <2>4. \A i : i \in {k \in sp..n : k = sp \/ h.mem[k] \notin cut} <=> i \in kept
      BY <2>1, <2>2
    <2>5. {i \in sp..n : i = sp \/ h.mem[i] \notin cut} = kept
      BY <2>4
    <2>. QED
      BY <1>2, <2>1, <2>3, <2>5
  <1>5. PICK ep \in 0..n :
          /\ ep = IF sp > n THEN n ELSE Max({i \in sp..n : i = sp \/ h.mem[i] \notin cut})
          /\ kept = {} => ep = n
          /\ kept # {} => ep = Max(kept)
    <2>1. CASE kept = {}
      BY <1>3, <2>1
    <2>2. CASE kept # {}
      <3>1. ~(sp > n) /\ {i \in sp..n : i = sp \/ h.mem[i] \notin cut} = kept
            /\ Max(kept) \in 0..n
        BY <1>4, <2>2
      <3>. QED
        BY <2>2, <3>1
    <2>. QED
      BY <2>1, <2>2
  <1>6. SdsTrim(h, cset) = Ended(h, 0, SubSeq(h.mem, sp, ep))
    <2>1. sp = Min({i \in 1..h.len : h.mem[i] \notin cut} \union {h.len + 1})
      BY <1>1, <1>2, <1>3
    <2>2. ep = IF sp > h.len THEN h.len
               ELSE Max({i \in sp..h.len : i = sp \/ h.mem[i] \notin cut})
      BY <1>1, <1>5
    <2>. QED
      BY <2>1, <2>2 DEF SdsTrim, cut
  <1>7. ep =< h.len /\ ep - sp + 1 =< h.len
    BY <1>1
  <1>8. Text(SdsTrim(h, cset)) = SubSeq(t, sp, ep)
    <2>1. sp \in Nat \ {0} /\ ep \in Int
      BY <1>1
    <2>2. Text(Ended(h, 0, SubSeq(h.mem, sp, ep))) = SubSeq(Text(h), sp, ep)
      BY <1>7, <2>1, PartText
    <2>. QED
      BY <1>1, <1>6, <2>2
  <1>9. String!Trimmed(t, cset) = IF kept = {} THEN <<>> ELSE SubSeq(t, Min(kept), Max(kept))
    BY <1>2, StringMin DEF String!Trimmed, cut
  <1>10. CASE kept = {}
    <2>1. sp > ep
      BY <1>3, <1>5, <1>10
    <2>2. SubSeq(t, sp, ep) = <<>>
      BY <2>1, SubSeqEmpty
    <2>. QED
      BY <1>1, <1>8, <1>9, <1>10, <2>2
  <1>11. CASE kept # {}
    BY <1>1, <1>3, <1>5, <1>8, <1>9, <1>11
  <1>. QED
    BY <1>10, <1>11

(* sdsrange: both ends are brought into the string. *)
LEMMA RangeText ==
  ASSUME NEW h, Fits(h), NEW first \in Int, NEW end \in Int
  PROVE  Text(SdsRange(h, first, end)) = String!Between(Text(h), first, end)
  <1>0. /\ h.len \in Nat /\ Text(h) \in Seq(Byte) /\ Len(Text(h)) = h.len
    BY FitsNumbers, TextBytes
  <1>1. PICK t \in Seq(Byte), len \in Nat : t = Text(h) /\ len = h.len /\ Len(t) = len
    BY <1>0
  <1>2. PICK from \in Nat : from = IF first < 0 THEN Max({len + first, 0}) ELSE first
    BY GreaterOfTwo
  <1>3. PICK to \in Nat : to = IF end < 0 THEN Max({len + end, 0}) ELSE end
    BY GreaterOfTwo
  <1>4. PICK upto \in Nat : upto = Min({to + 1, len}) /\ upto = IF to + 1 =< len THEN to + 1 ELSE len
    BY LesserOfTwo
  <1>5. String!Between(t, first, end) = SubSeq(t, from + 1, upto)
    <2>1. {0, len + first} = {len + first, 0} /\ {0, len + end} = {len + end, 0}
      OBVIOUS
    <2>2. String!Between(t, first, end) =
            SubSeq(t, (IF first < 0 THEN Max({0, len + first}) ELSE first) + 1,
                      Min({(IF end < 0 THEN Max({0, len + end}) ELSE end) + 1, len}))
      BY <1>1, StringMin DEF String!Between
    <2>. QED
      BY <1>2, <1>3, <1>4, <2>1, <2>2
  <1>6. CASE len = 0
    <2>1. SubSeq(t, from + 1, upto) = <<>>
      BY <1>4, <1>6, SubSeqEmpty
    <2>2. t = <<>>
      BY <1>1, <1>6, EmptySeq
    <2>3. SdsRange(h, first, end) = h
      BY <1>1, <1>6 DEF SdsRange
    <2>. QED
      BY <1>1, <1>5, <2>1, <2>2, <2>3
  <1>7. CASE len # 0
    <2>1. PICK last \in Int : last = Min({to, len - 1}) /\ last = upto - 1
      BY <1>4, LesserOfTwo
    <2>2. PICK n \in Nat :
            /\ n = IF from > to \/ from >= len \/ from > last THEN 0 ELSE last - from + 1
            /\ n = 0 => from >= upto
            /\ n # 0 => from + n = upto
      <3>1. from > to \/ from >= len \/ from > last <=> from > last
        BY <1>4, <2>1
      <3>2. CASE from > last
        BY <2>1, <3>2
      <3>3. CASE ~(from > last)
        <4>1. last - from + 1 \in Nat
          BY <3>3
        <4>. QED
          BY <2>1, <3>1, <3>3, <4>1
      <3>. QED
        BY <3>2, <3>3
    <2>3. SdsRange(h, first, end) = Ended(h, 0, SubSeq(h.mem, from + 1, from + n))
      BY <1>1, <1>2, <1>3, <1>7, <2>1, <2>2 DEF SdsRange
    <2>4. CASE n = 0
      <3>1. SubSeq(h.mem, from + 1, from + n) = SubSeq(h.mem, 1, 0)
        BY <2>4, SubSeqEmpty
      <3>2. 0 =< h.len /\ 0 - 1 + 1 =< h.len
        BY <1>0
      <3>3. PICK one \in Nat \ {0} : one = 1
        OBVIOUS
      <3>4. Text(Ended(h, 0, SubSeq(h.mem, one, 0))) = SubSeq(Text(h), one, 0)
        BY <3>2, <3>3, PartText
      <3>5. SubSeq(t, one, 0) = <<>> /\ SubSeq(t, from + 1, upto) = <<>>
        BY <2>2, <2>4, <3>3, SubSeqEmpty
      <3>. QED
        BY <1>1, <1>5, <2>3, <3>1, <3>3, <3>4, <3>5
    <2>5. CASE n # 0
      <3>1. from + n =< h.len /\ (from + n) - (from + 1) + 1 =< h.len
        <4>1. from + n = upto /\ upto =< len
          BY <1>4, <2>2, <2>5
        <4>2. (from + n) - (from + 1) + 1 =< len
          BY <4>1
        <4>. QED
          BY <1>1, <4>1, <4>2
      <3>2. Text(Ended(h, 0, SubSeq(h.mem, from + 1, from + n))) = SubSeq(Text(h), from + 1, from + n)
        BY <1>0, <3>1, PartText
      <3>. QED
        BY <1>1, <1>5, <2>2, <2>3, <2>5, <3>2
    <2>. QED
      BY <2>4, <2>5
  <1>. QED
    BY <1>1, <1>6, <1>7

(* sdsmapchars: the loop of each byte stops at the first that equals it. *)
LEMMA MapCharsText ==
  ASSUME NEW h, Fits(h), NEW map \in Maps
  PROVE  Text(SdsMapChars(h, map[1], map[2])) =
           [i \in DOMAIN Text(h) |-> String!Mapped(Text(h)[i], map[1], map[2])]
  <1>. DEFINE at(b) == {i \in DOMAIN map[1] : map[1][i] = b}
              f == [b \in Byte |-> IF at(b) = {} THEN b ELSE map[2][Min(at(b))]]
  <1>1. /\ map[1] \in Seq(Byte) /\ map[2] \in Seq(Byte) /\ Len(map[2]) = Len(map[1])
    BY ArgumentAssumption
  <1>2. ASSUME NEW b \in Byte, at(b) # {}
        PROVE  map[2][Min(at(b))] \in Byte
    <2>1. at(b) \in SUBSET (1..Len(map[1]))
      BY <1>1
    <2>2. Min(at(b)) \in at(b)
      <3>1. PICK S : S = at(b)
        OBVIOUS
      <3>2. S \in SUBSET (1..Len(map[1])) /\ S # {}
        BY <1>2, <2>1, <3>1
      <3>. HIDE DEF at
      <3>3. S \in SUBSET Nat
        BY <3>2
      <3>. QED
        BY <3>1, <3>2, <3>3, LeastOfNat
    <2>3. PICK i \in 1..Len(map[2]) : i = Min(at(b))
      BY <1>1, <2>1, <2>2
    <2>. QED
      BY <1>1, <2>3, ElementOfSeq
  <1>3. f \in [Byte -> Byte]
    BY <1>2
  <1>4. SdsMapChars(h, map[1], map[2]) = Rewritten(h, f)
    BY DEF SdsMapChars
  <1>5. ASSUME NEW b \in Byte PROVE f[b] = String!Mapped(b, map[1], map[2])
    <2>1. b \in String!ToSet(map[1]) <=> at(b) # {}
      BY DEF String!ToSet
    <2>2. String!Mapped(b, map[1], map[2]) =
            IF b \in String!ToSet(map[1]) THEN map[2][Min(at(b))] ELSE b
      BY StringMin DEF String!Mapped
    <2>3. f[b] = IF at(b) = {} THEN b ELSE map[2][Min(at(b))]
      OBVIOUS
    <2>. HIDE DEF f, at
    <2>. QED
      BY <2>1, <2>2, <2>3
  <1>. HIDE DEF f, at
  <1>6. PICK t \in Seq(Byte) : t = Text(h)
    BY TextBytes
  <1>7. \A i \in DOMAIN t : t[i] \in Byte
    BY ElementOfSeq
  <1>8. Text(Rewritten(h, f)) = [i \in DOMAIN t |-> f[t[i]]]
    BY <1>3, <1>6, RewrittenText
  <1>. QED
    BY <1>4, <1>5, <1>6, <1>7, <1>8

(* While sdscatfmt is at work, the block holds the string it began with and
   what it has read since. *)
FormatText ==
  fmt # Null =>
    /\ fmt.initlen =< s.len
    /\ Text(s) = Take(s.mem, fmt.initlen) \o fmt.text

TInv == IInv /\ FormatText

(* A step of the string the caller sees, or none. *)
StringStep == String!Next \/ UNCHANGED <<Value, op>>

LEMMA FitsIsString ==
  ASSUME NEW h, Fits(h)
  PROVE  h # Null /\ Text(h) \in Seq(Byte) /\ Text(h) # Null
  BY TextBytes, NullAssumption DEF Fits

LEMMA AtRest == fmt = Null => Value = IF s = Null THEN Null ELSE Text(s)
  BY DEF Value, Text

(* A call that leaves a string does to the caller's what it does to the text. *)
LEMMA CallText ==
  ASSUME IInv, NEW h, NEW call, Changes(h, call), Fits(h)
  PROVE  /\ Fits(s) /\ Closed(s) /\ Value # Null
         /\ Value = Text(s) /\ Value' = Text(h) /\ op' = call
         /\ FormatText'
  <1>1. Fits(s) /\ Closed(s)
    BY StringAtACall
  <1>2. s # Null /\ fmt = Null /\ s' = h /\ fmt' = Null /\ op' = call
    BY DEF Changes
  <1>3. Value = Text(s) /\ Value # Null
    BY <1>1, <1>2, AtRest, FitsIsString
  <1>4. h # Null
    BY FitsIsString
  <1>5. Value' = Text(h)
    BY <1>2, <1>4 DEF Value, Text
  <1>. QED
    BY <1>1, <1>2, <1>3, <1>5 DEF FormatText

LEMMA CreationText ==
  ASSUME TInv, NewLen \/ NewZeros
  PROVE  StringStep /\ FormatText'
  <1>1. ASSUME NEW t \in Seq(Byte), NEW call, Creates(SdsNewLen(t), call)
        PROVE  Value = Null /\ Value' = t /\ op' = call /\ FormatText'
    <2>1. PICK h : h = SdsNewLen(t)
      OBVIOUS
    <2>2. Fits(h) /\ Text(h) = t /\ h # Null
      BY <2>1, NewLenFits, NewLenText, FitsIsString
    <2>3. s = Null /\ s' = h /\ op' = call /\ fmt' = fmt
      BY <1>1, <2>1 DEF Creates
    <2>4. fmt = Null
      BY <2>3, FitsIsString DEF TInv, IInv, FormatGoesOn
    <2>5. Value = Null
      BY <2>3 DEF Value
    <2>6. Value' = Text(h)
      BY <2>2, <2>3, <2>4 DEF Value, Text
    <2>. QED
      BY <2>2, <2>3, <2>4, <2>5, <2>6 DEF FormatText
  <1>2. CASE NewLen
    <2>1. PICK t \in Texts : Creates(SdsNewLen(t), Call("newlen", t, <<>>, 0, 0))
      BY <1>2 DEF NewLen
    <2>2. Value = Null /\ Value' = t /\ op' = Call("newlen", t, <<>>, 0, 0) /\ FormatText'
      BY <1>1, <2>1, TextsAreBytes
    <2>3. op'.name = "newlen" /\ op'.t = t
      BY <2>2 DEF Call
    <2>. QED
      BY <2>2, <2>3 DEF StringStep, String!Next, String!Create, String!Becomes
  <1>3. CASE NewZeros
    <2>1. PICK n \in 0..MaxText :
            Creates(SdsNewLen([i \in 1..n |-> NUL]), Call("zeros", <<>>, <<>>, n, 0))
      BY <1>3 DEF NewZeros
    <2>2. n \in Nat
      BY <2>1, ArgumentAssumption
    <2>3. PICK zeros \in Seq(Byte) : zeros = [i \in 1..n |-> NUL]
      BY <2>2, ZerosAreBytes
    <2>4. /\ Value = Null /\ Value' = zeros /\ op' = Call("zeros", <<>>, <<>>, n, 0)
          /\ FormatText'
      BY <1>1, <2>1, <2>3
    <2>5. op'.name = "zeros" /\ op'.n = n
      BY <2>4 DEF Call
    <2>6. Value' = String!Zeros(op'.n)
      BY <2>3, <2>4, <2>5 DEF String!Zeros
    <2>. QED
      BY <2>4, <2>5, <2>6 DEF StringStep, String!Next, String!Create, String!Becomes
  <1>. QED
    BY <1>2, <1>3

(* The calls that take nothing but the string. *)
LEMMA PlainText ==
  ASSUME IInv, Dup \/ Free \/ UpdateLen \/ Clear \/ RemoveFreeSpace \/ ToLower \/ ToUpper
  PROVE  StringStep /\ FormatText'
  <1>1. CASE Dup
    <2>1. PICK h : h = SdsNewLen(Text(s))
      OBVIOUS
    <2>2. Changes(h, Call("dup", <<>>, <<>>, 0, 0))
      BY <1>1, <2>1 DEF Dup, Text
    <2>3. Fits(s) /\ Text(s) \in Seq(Byte)
      BY <2>2, StringAtACall, TextBytes
    <2>4. Fits(h) /\ Text(h) = Text(s)
      BY <2>1, <2>3, NewLenFits, NewLenText
    <2>5. Value # Null /\ Value' = Value /\ op'.name = "dup" /\ FormatText'
      <3>1. /\ op' = Call("dup", <<>>, <<>>, 0, 0) /\ FormatText'
            /\ Value # Null /\ Value = Text(s) /\ Value' = Text(h)
        BY <2>2, <2>4, CallText
      <3>. QED
        BY <2>2, <2>4, <3>1 DEF Call
    <2>. QED
      BY <2>5 DEF StringStep, String!Next, String!Change, String!Look, String!Becomes
  <1>2. CASE Free
    <2>1. Fits(s)
      BY <1>2, StringAtACall DEF Free
    <2>2. s # Null /\ fmt = Null /\ s' = Null /\ fmt' = Null /\ op'.name = "free"
      BY <1>2 DEF Free, Changes, Call
    <2>3. Value # Null
      BY <2>1, <2>2, AtRest, FitsIsString
    <2>4. Value' = Null
      BY <2>2 DEF Value
    <2>. QED
      BY <2>2, <2>3, <2>4 DEF StringStep, FormatText, String!Next, String!Free, String!Becomes
  <1>3. CASE UpdateLen
    <2>1. Changes(SdsUpdateLen(s), Call("updatelen", <<>>, <<>>, 0, 0))
      BY <1>3 DEF UpdateLen
    <2>2. Fits(s) /\ Closed(s) /\ Fits(SdsUpdateLen(s))
      BY <2>1, StringAtACall, UpdateLenFits
    <2>3. /\ Value # Null /\ Value = Text(s) /\ Value' = Text(SdsUpdateLen(s))
          /\ op'.name = "updatelen" /\ FormatText'
      <3>1. /\ op' = Call("updatelen", <<>>, <<>>, 0, 0) /\ FormatText'
            /\ Value # Null /\ Value = Text(s) /\ Value' = Text(SdsUpdateLen(s))
        BY <2>1, <2>2, CallText
      <3>. QED
        BY <2>1, <2>2, <3>1 DEF Call
    <2>4. Value' = String!CString(Value)
      BY <2>2, <2>3, UpdateLenText, TextBytes, StringC
    <2>. QED
      BY <2>3, <2>4 DEF StringStep, String!Next, String!Change, String!Shorten, String!Becomes
  <1>4. CASE Clear
    <2>1. Changes(SdsClear(s), Call("clear", <<>>, <<>>, 0, 0))
      BY <1>4 DEF Clear
    <2>2. Fits(s) /\ Fits(SdsClear(s))
      BY <2>1, StringAtACall, ClearFits
    <2>3. Value # Null /\ Value' = <<>> /\ op'.name = "clear" /\ FormatText'
      <3>1. /\ op' = Call("clear", <<>>, <<>>, 0, 0) /\ FormatText'
            /\ Value # Null /\ Value = Text(s) /\ Value' = Text(SdsClear(s))
        BY <2>1, <2>2, CallText
      <3>. QED
        BY <2>1, <2>2, ClearText, <3>1 DEF Call
    <2>. QED
      BY <2>3 DEF StringStep, String!Next, String!Change, String!Shorten, String!Becomes
  <1>5. CASE RemoveFreeSpace
    <2>1. Changes(SdsRemoveFreeSpace(s), Call("removefree", <<>>, <<>>, 0, 0))
      BY <1>5 DEF RemoveFreeSpace
    <2>2. Fits(s) /\ Fits(SdsRemoveFreeSpace(s))
      BY <2>1, StringAtACall, RemoveFreeFits
    <2>3. Value # Null /\ Value' = Value /\ op'.name = "removefree" /\ FormatText'
      <3>1. /\ op' = Call("removefree", <<>>, <<>>, 0, 0) /\ FormatText'
            /\ Value # Null /\ Value = Text(s) /\ Value' = Text(SdsRemoveFreeSpace(s))
        BY <2>1, <2>2, CallText
      <3>. QED
        BY <2>1, <2>2, RemoveFreeText, <3>1 DEF Call
    <2>. QED
      BY <2>3 DEF StringStep, String!Next, String!Change, String!Look, String!Becomes
  <1>6. CASE ToLower
    <2>1. Changes(Rewritten(s, Lower), Call("tolower", <<>>, <<>>, 0, 0))
      BY <1>6 DEF ToLower
    <2>2. Fits(s) /\ Closed(s) /\ Fits(Rewritten(s, Lower))
      BY <2>1, StringAtACall, ArgumentAssumption, RewrittenFits
    <2>3. /\ Value # Null /\ Value = Text(s) /\ Value' = Text(Rewritten(s, Lower))
          /\ op'.name = "tolower" /\ FormatText'
      <3>1. /\ op' = Call("tolower", <<>>, <<>>, 0, 0) /\ FormatText'
            /\ Value # Null /\ Value = Text(s) /\ Value' = Text(Rewritten(s, Lower))
        BY <2>1, <2>2, CallText
      <3>. QED
        BY <2>1, <2>2, <3>1 DEF Call
    <2>4. Value' = [i \in DOMAIN Value |-> Lower[Value[i]]]
      <3>1. Lower \in [Byte -> Byte]
        BY ArgumentAssumption
      <3>2. Text(Rewritten(s, Lower)) = [i \in DOMAIN Text(s) |-> Lower[Text(s)[i]]]
        BY <2>2, <3>1, RewrittenText
      <3>. QED
        BY <2>3, <3>2, Zenon
    <2>. QED
      BY <2>3, <2>4 DEF StringStep, String!Next, String!Change, String!Rewrite, String!Becomes
  <1>7. CASE ToUpper
    <2>1. Changes(Rewritten(s, Upper), Call("toupper", <<>>, <<>>, 0, 0))
      BY <1>7 DEF ToUpper
    <2>2. Fits(s) /\ Closed(s) /\ Fits(Rewritten(s, Upper))
      BY <2>1, StringAtACall, ArgumentAssumption, RewrittenFits
    <2>3. /\ Value # Null /\ Value = Text(s) /\ Value' = Text(Rewritten(s, Upper))
          /\ op'.name = "toupper" /\ FormatText'
      <3>1. /\ op' = Call("toupper", <<>>, <<>>, 0, 0) /\ FormatText'
            /\ Value # Null /\ Value = Text(s) /\ Value' = Text(Rewritten(s, Upper))
        BY <2>1, <2>2, CallText
      <3>. QED
        BY <2>1, <2>2, <3>1 DEF Call
    <2>4. Value' = [i \in DOMAIN Value |-> Upper[Value[i]]]
      <3>1. Upper \in [Byte -> Byte]
        BY ArgumentAssumption
      <3>2. Text(Rewritten(s, Upper)) = [i \in DOMAIN Text(s) |-> Upper[Text(s)[i]]]
        BY <2>2, <3>1, RewrittenText
      <3>. QED
        BY <2>3, <3>2, Zenon
    <2>. QED
      BY <2>3, <2>4 DEF StringStep, String!Next, String!Change, String!Rewrite, String!Becomes
  <1>. QED
    BY <1>1, <1>2, <1>3, <1>4, <1>5, <1>6, <1>7

(* The calls that ask for room, or take a number. *)
LEMMA NumberText ==
  ASSUME IInv, MakeRoomFor \/ Shortened \/ GrowZero \/ SubRange
  PROVE  StringStep /\ FormatText'
  <1>1. CASE MakeRoomFor
    <2>1. PICK n \in 0..MaxText : Changes(SdsMakeRoomFor(s, n), Call("makeroom", <<>>, <<>>, n, 0))
      BY <1>1 DEF MakeRoomFor
    <2>2. Fits(s) /\ n \in Nat
      BY <2>1, StringAtACall, ArgumentAssumption
    <2>3. Fits(SdsMakeRoomFor(s, n)) /\ Text(SdsMakeRoomFor(s, n)) = Text(s)
      BY <2>2, MakeRoomFits, MakeRoomText
    <2>4. Value # Null /\ Value' = Value /\ op'.name = "makeroom" /\ FormatText'
      <3>1. /\ op' = Call("makeroom", <<>>, <<>>, n, 0) /\ FormatText'
            /\ Value # Null /\ Value = Text(s) /\ Value' = Text(SdsMakeRoomFor(s, n))
        BY <2>1, <2>3, CallText
      <3>. QED
        BY <2>1, <2>3, <3>1 DEF Call
    <2>. QED
      BY <2>4 DEF StringStep, String!Next, String!Change, String!Look, String!Becomes
  <1>2. CASE Shortened
    <2>1. PICK n \in 1..MaxLen :
            n =< s.len /\ Changes(SdsDecrLen(s, n), Call("shortened", <<>>, <<>>, n, 0))
      BY <1>2 DEF Shortened
    <2>2. Fits(s) /\ n \in Nat
      BY <2>1, StringAtACall, ArgumentAssumption
    <2>3. /\ Fits(SdsDecrLen(s, n)) /\ Text(SdsDecrLen(s, n)) = SubSeq(Text(s), 1, s.len - n)
          /\ Len(Text(s)) = s.len
      BY <2>1, <2>2, DecrLenFits, DecrLenText, TextBytes
    <2>4. /\ Value # Null /\ Value = Text(s) /\ Value' = Text(SdsDecrLen(s, n))
          /\ op'.name = "shortened" /\ op'.n = n /\ FormatText'
      <3>1. /\ op' = Call("shortened", <<>>, <<>>, n, 0) /\ FormatText'
            /\ Value # Null /\ Value = Text(s) /\ Value' = Text(SdsDecrLen(s, n))
        BY <2>1, <2>3, CallText
      <3>. QED
        BY <2>1, <2>3, <3>1 DEF Call
    <2>5. Value' = SubSeq(Value, 1, Len(Value) - op'.n)
      BY <2>3, <2>4, Zenon
    <2>. QED
      BY <2>4, <2>5 DEF StringStep, String!Next, String!Change, String!Shorten, String!Becomes
  <1>3. CASE GrowZero
    <2>1. PICK n \in 0..MaxLen : Changes(SdsGrowZero(s, n), Call("growzero", <<>>, <<>>, n, 0))
      BY <1>3 DEF GrowZero
    <2>2. Fits(s) /\ Closed(s) /\ n \in Nat
      BY <2>1, StringAtACall, ArgumentAssumption
    <2>3. /\ Fits(SdsGrowZero(s, n)) /\ Len(Text(s)) = s.len
          /\ Text(SdsGrowZero(s, n)) = Text(s) \o [i \in 1..n - s.len |-> NUL]
      BY <2>2, GrowZeroFits, GrowZeroText, TextBytes
    <2>4. /\ Value # Null /\ Value = Text(s) /\ Value' = Text(SdsGrowZero(s, n))
          /\ op'.name = "growzero" /\ op'.n = n /\ FormatText'
      <3>1. /\ op' = Call("growzero", <<>>, <<>>, n, 0) /\ FormatText'
            /\ Value # Null /\ Value = Text(s) /\ Value' = Text(SdsGrowZero(s, n))
        BY <2>1, <2>3, CallText
      <3>. QED
        BY <2>1, <2>3, <3>1 DEF Call
    <2>5. Value' = Value \o String!Zeros(op'.n - Len(Value))
      BY <2>3, <2>4, Zenon DEF String!Zeros
    <2>. QED
      BY <2>4, <2>5 DEF StringStep, String!Next, String!Change, String!Grow, String!Becomes
  <1>4. CASE SubRange
    <2>1. PICK first \in Ends, end \in Ends :
            Changes(SdsRange(s, first, end), Call("range", <<>>, <<>>, first, end))
      BY <1>4 DEF SubRange
    <2>2. Fits(s) /\ Closed(s) /\ first \in Int /\ end \in Int
      BY <2>1, StringAtACall, ArgumentAssumption
    <2>3. /\ Fits(SdsRange(s, first, end))
          /\ Text(SdsRange(s, first, end)) = String!Between(Text(s), first, end)
      BY <2>2, RangeFits, RangeText
    <2>4. /\ Value # Null /\ Value = Text(s) /\ Value' = Text(SdsRange(s, first, end))
          /\ op'.name = "range" /\ op'.n = first /\ op'.m = end /\ FormatText'
      <3>1. /\ op' = Call("range", <<>>, <<>>, first, end) /\ FormatText'
            /\ Value # Null /\ Value = Text(s) /\ Value' = Text(SdsRange(s, first, end))
        BY <2>1, <2>3, CallText
      <3>. QED
        BY <2>1, <2>3, <3>1 DEF Call
    <2>5. Value' = String!Between(Value, op'.n, op'.m)
      BY <2>3, <2>4, Zenon
    <2>. QED
      BY <2>4, <2>5 DEF StringStep, String!Next, String!Change, String!Shorten, String!Becomes
  <1>. QED
    BY <1>1, <1>2, <1>3, <1>4

(* The calls that take a text. *)
LEMMA GivenText ==
  ASSUME IInv, Written \/ CatLen \/ CpyLen \/ CatPrintf \/ Trim \/ MapChars
  PROVE  StringStep /\ FormatText'
  <1>1. CASE Written
    <2>1. PICK t \in Texts :
            Len(t) <= SdsAvail(s) /\ Changes(SdsIncrLen(s, t), Call("written", t, <<>>, 0, 0))
      BY <1>1 DEF Written
    <2>2. Fits(s) /\ t \in Seq(Byte)
      BY <2>1, StringAtACall, TextsAreBytes
    <2>3. s.len \in 0..Len(s.mem) /\ s.len + Len(t) =< SdsAlloc(s)
      BY <2>1, <2>2, FitsNumbers DEF Fits
    <2>4. Fits(SdsIncrLen(s, t)) /\ Text(SdsIncrLen(s, t)) = Text(s) \o t
      BY <2>2, <2>3, EndedFits, EndedText DEF SdsIncrLen, Text
    <2>5. /\ Value # Null /\ Value' = Value \o t
          /\ op'.name = "written" /\ op'.t = t /\ FormatText'
      <3>1. /\ op' = Call("written", t, <<>>, 0, 0) /\ FormatText'
            /\ Value # Null /\ Value = Text(s) /\ Value' = Text(SdsIncrLen(s, t))
        BY <2>1, <2>4, CallText
      <3>. QED
        BY <2>1, <2>4, <3>1 DEF Call
    <2>. QED
      BY <2>5 DEF StringStep, String!Next, String!Change, String!Extend, String!Becomes
  <1>2. CASE CatLen
    <2>1. PICK t \in Texts : Changes(SdsCatLen(s, t), Call("catlen", t, <<>>, 0, 0))
      BY <1>2 DEF CatLen
    <2>2. Fits(s) /\ t \in Seq(Byte)
      BY <2>1, StringAtACall, TextsAreBytes
    <2>3. Fits(SdsCatLen(s, t)) /\ Text(SdsCatLen(s, t)) = Text(s) \o t
      BY <2>2, CatLenFits, CatLenText
    <2>4. /\ Value # Null /\ Value' = Value \o t
          /\ op'.name = "catlen" /\ op'.t = t /\ FormatText'
      <3>1. /\ op' = Call("catlen", t, <<>>, 0, 0) /\ FormatText'
            /\ Value # Null /\ Value = Text(s) /\ Value' = Text(SdsCatLen(s, t))
        BY <2>1, <2>3, CallText
      <3>. QED
        BY <2>1, <2>3, <3>1 DEF Call
    <2>. QED
      BY <2>4 DEF StringStep, String!Next, String!Change, String!Extend, String!Becomes
  <1>3. CASE CpyLen
    <2>1. PICK t \in Texts : Changes(SdsCpyLen(s, t), Call("cpylen", t, <<>>, 0, 0))
      BY <1>3 DEF CpyLen
    <2>2. Fits(s) /\ t \in Seq(Byte)
      BY <2>1, StringAtACall, TextsAreBytes
    <2>3. Fits(SdsCpyLen(s, t)) /\ Text(SdsCpyLen(s, t)) = t
      BY <2>2, CpyLenFits, CpyLenText
    <2>4. Value # Null /\ Value' = t /\ op'.name = "cpylen" /\ op'.t = t /\ FormatText'
      <3>1. /\ op' = Call("cpylen", t, <<>>, 0, 0) /\ FormatText'
            /\ Value # Null /\ Value = Text(s) /\ Value' = Text(SdsCpyLen(s, t))
        BY <2>1, <2>3, CallText
      <3>. QED
        BY <2>1, <2>3, <3>1 DEF Call
    <2>. QED
      BY <2>4 DEF StringStep, String!Next, String!Change, String!Replace, String!Becomes
  <1>4. CASE CatPrintf
    <2>1. PICK t \in Texts, n \in BufLens :
            /\ ~Overflows(t, n)
            /\ Changes(SdsCatLen(s, Printed(t, n)), Call("catprintf", t, <<>>, 0, 0))
      BY <1>4 DEF CatPrintf, Suffices
    <2>2. Fits(s) /\ t \in Seq(Byte) /\ n \in Nat \ {0, 1}
      BY <2>1, StringAtACall, TextsAreBytes DEF BufLens
    <2>3. Printed(t, n) = String!CString(t) /\ Printed(t, n) \in Seq(Byte)
      BY <2>1, <2>2, PrintedText, PrintedBytes, StringC
    <2>4. /\ Fits(SdsCatLen(s, Printed(t, n)))
          /\ Text(SdsCatLen(s, Printed(t, n))) = Text(s) \o String!CString(t)
      BY <2>2, <2>3, CatLenFits, CatLenText
    <2>5. /\ Value # Null /\ Value' = Value \o String!CString(t)
          /\ op'.name = "catprintf" /\ op'.t = t /\ FormatText'
      <3>1. /\ op' = Call("catprintf", t, <<>>, 0, 0) /\ FormatText'
            /\ Value # Null /\ Value = Text(s) /\ Value' = Text(SdsCatLen(s, Printed(t, n)))
        BY <2>1, <2>4, CallText
      <3>. QED
        BY <2>1, <2>4, <3>1 DEF Call
    <2>. QED
      BY <2>5 DEF StringStep, String!Next, String!Change, String!PrintText, String!Becomes
  <1>5. CASE Trim
    <2>1. PICK t \in Texts : Changes(SdsTrim(s, ToSet(t)), Call("trim", t, <<>>, 0, 0))
      BY <1>5 DEF Trim
    <2>2. Fits(s)
      BY <2>1, StringAtACall
    <2>3. /\ Fits(SdsTrim(s, ToSet(t)))
          /\ Text(SdsTrim(s, ToSet(t))) = String!Trimmed(Text(s), String!ToSet(t))
      BY <2>2, TrimFits, TrimText, StringBytes
    <2>4. /\ Value # Null /\ Value = Text(s) /\ Value' = Text(SdsTrim(s, ToSet(t)))
          /\ op'.name = "trim" /\ op'.t = t /\ FormatText'
      <3>1. /\ op' = Call("trim", t, <<>>, 0, 0) /\ FormatText'
            /\ Value # Null /\ Value = Text(s) /\ Value' = Text(SdsTrim(s, ToSet(t)))
        BY <2>1, <2>3, CallText
      <3>. QED
        BY <2>1, <2>3, <3>1 DEF Call
    <2>5. Value' = String!Trimmed(Value, String!ToSet(op'.t))
      BY <2>3, <2>4, Zenon
    <2>. QED
      BY <2>4, <2>5 DEF StringStep, String!Next, String!Change, String!Shorten, String!Becomes
  <1>6. CASE MapChars
    <2>1. PICK map \in Maps :
            Changes(SdsMapChars(s, map[1], map[2]), Call("mapchars", map[1], map[2], 0, 0))
      BY <1>6 DEF MapChars
    <2>2. Fits(s) /\ Closed(s)
      BY <2>1, StringAtACall
    <2>3. /\ Fits(SdsMapChars(s, map[1], map[2]))
          /\ Text(SdsMapChars(s, map[1], map[2])) =
               [i \in DOMAIN Text(s) |-> String!Mapped(Text(s)[i], map[1], map[2])]
      BY <2>2, MapCharsFits, MapCharsText
    <2>4. /\ Value # Null /\ Value = Text(s) /\ Value' = Text(SdsMapChars(s, map[1], map[2]))
          /\ op'.name = "mapchars" /\ op'.t = map[1] /\ op'.u = map[2] /\ FormatText'
      <3>1. /\ op' = Call("mapchars", map[1], map[2], 0, 0) /\ FormatText'
            /\ Value # Null /\ Value = Text(s) /\ Value' = Text(SdsMapChars(s, map[1], map[2]))
        BY <2>1, <2>3, CallText
      <3>. QED
        BY <2>1, <2>3, <3>1 DEF Call
    <2>5. Value' = [i \in DOMAIN Value |-> String!Mapped(Value[i], op'.t, op'.u)]
      BY <2>3, <2>4, Zenon
    <2>. QED
      BY <2>4, <2>5 DEF StringStep, String!Next, String!Change, String!Rewrite, String!Becomes
  <1>. QED
    BY <1>1, <1>2, <1>3, <1>4, <1>5, <1>6

(* sdscatfmt: the caller's string is what it was until the end. *)
LEMMA BeginText ==
  ASSUME TInv, BeginFormat
  PROVE  StringStep /\ FormatText'
  <1>1. PICK pieces \in Formats :
          /\ s # Null /\ fmt = Null
          /\ fmt' = [left |-> pieces, text |-> <<>>, initlen |-> s.len]
          /\ s' = s /\ op' = op
    BY DEF BeginFormat
  <1>2. Fits(s) /\ s.len \in Nat /\ s.mem \in Seq(Byte) /\ Text(s) \in Seq(Byte)
    BY <1>1, FitsNumbers, TextBytes DEF TInv, IInv, StringFits
  <1>3. fmt' \in Format /\ fmt'.text = <<>> /\ fmt'.initlen = s.len
    BY <1>1, <1>2, ArgumentAssumption DEF Format
  <1>4. fmt' # Null
    BY <1>3, NullAssumption
  <1>5. Value' = Take(s.mem, s.len) /\ Value = Take(s.mem, s.len)
    BY <1>1, <1>3, <1>4 DEF Value
  <1>6. Text(s) = Take(s.mem, s.len) \o <<>>
    BY <1>2, NothingBefore DEF Text
  <1>7. Text(s') = Text(s) /\ s'.len = s.len /\ s'.mem = s.mem
    BY <1>1
  <1>8. FormatText'
    BY <1>2, <1>3, <1>6, <1>7 DEF FormatText
  <1>. QED
    BY <1>1, <1>5, <1>8 DEF StringStep

LEMMA BytesAssociate ==
  ASSUME NEW p \in Seq(Byte), NEW q \in Seq(Byte), NEW r \in Seq(Byte)
  PROVE  (p \o q) \o r = p \o (q \o r)
  BY ConcatAssociative

(* What has been read goes on behind what was there. *)
LEMMA PieceAfter ==
  ASSUME NEW h, Fits(h), NEW piece \in Piece, piece.kind = "byte" => Len(piece.text) = 1,
         NEW k \in Nat, k =< h.len, NEW read \in Seq(Byte),
         Text(h) = Take(h.mem, k) \o read
  PROVE  LET r == Formatted(h, piece)
         IN  /\ k =< r.len /\ Take(r.mem, k) = Take(h.mem, k)
             /\ Text(r) = Take(h.mem, k) \o (read \o piece.text)
  <1>1. PICK r : r = Formatted(h, piece)
    OBVIOUS
  <1>2. PICK x \in Seq(Byte) : x = piece.text
    BY DEF Piece
  <1>3. PICK p \in Seq(Byte) : p = Take(h.mem, k) /\ Len(p) = k
    <2>1. h.mem \in Seq(Byte) /\ h.len \in Nat /\ h.len =< Len(h.mem)
      BY FitsNumbers DEF Fits
    <2>2. k =< Len(h.mem)
      BY <2>1
    <2>3. Take(h.mem, k) \in Seq(Byte) /\ Len(Take(h.mem, k)) = k
      BY <2>1, <2>2, TakeBytes
    <2>. QED
      BY <2>3
  <1>4. Fits(r) /\ Text(r) = Text(h) \o x
    BY <1>1, <1>2, FormattedFits, PieceText
  <1>5. PICK t \in Seq(Byte) : t = read \o x
    BY ConcatProperties
  <1>6. Text(r) = p \o t
    <2>1. (p \o read) \o x = p \o (read \o x)
      BY BytesAssociate
    <2>2. Text(h) = p \o read
      BY <1>3
    <2>3. Text(r) = (p \o read) \o x
      BY <1>4, <2>2
    <2>. QED
      BY <1>5, <2>1, <2>3
  <1>7. /\ r.mem \in Seq(Byte) /\ r.len \in Nat /\ r.len =< Len(r.mem)
        /\ Len(Text(r)) = r.len
    BY <1>4, FitsNumbers, TextBytes DEF Fits
  <1>8. k =< r.len
    <2>1. Len(p \o t) = Len(p) + Len(t)
      BY ConcatProperties
    <2>. QED
      BY <1>3, <1>6, <1>7, <2>1
  <1>9. Take(Text(r), k) = Take(r.mem, k)
    <2>1. r.len \in 0..Len(r.mem) /\ k \in 0..r.len
      BY <1>7, <1>8
    <2>. QED
      BY <1>7, <2>1, TakeTake DEF Text
  <1>10. Take(p \o t, k) = p
    <2>1. 0 \in 0..Len(t) /\ Len(p) + 0 = k
      BY <1>3
    <2>2. Take(p \o t, Len(p) + 0) = p \o Take(t, 0)
      BY <2>1, TakeOfBoth
    <2>3. Take(t, 0) = <<>> /\ p \o <<>> = p
      BY TakeAll, NothingBefore
    <2>. QED
      BY <2>1, <2>2, <2>3
  <1>. QED
    BY <1>1, <1>2, <1>3, <1>5, <1>6, <1>8, <1>9, <1>10

LEMMA PieceStep ==
  ASSUME TInv, FormatPiece
  PROVE  StringStep /\ FormatText'
  <1>1. /\ fmt # Null /\ fmt \in Format /\ WholePieces(fmt.left) /\ fmt.left # <<>> /\ Fits(s)
        /\ fmt.initlen =< s.len /\ Text(s) = Take(s.mem, fmt.initlen) \o fmt.text
    BY DEF FormatPiece, TInv, IInv, FormatGoesOn, StringFits, FormatText
  <1>2. PICK left \in Seq(Piece), read \in Seq(Byte), k \in Nat :
          left = fmt.left /\ left # <<>> /\ read = fmt.text /\ k = fmt.initlen
    BY <1>1 DEF Format
  <1>3. PICK piece \in Piece :
          piece = Head(left) /\ (piece.kind = "byte" => Len(piece.text) = 1)
    <2>1. Head(left) \in Piece /\ 1 \in DOMAIN left /\ Head(left) = left[1]
      BY <1>2, HeadTailProperties
    <2>. QED
      BY <1>1, <1>2, <2>1 DEF WholePieces
  <1>4. PICK x \in Seq(Byte), rest \in Seq(Piece) : x = read \o piece.text /\ rest = Tail(left)
    <2>1. PICK text \in Seq(Byte) : text = piece.text
      BY DEF Piece
    <2>2. read \o text \in Seq(Byte)
      BY ConcatProperties
    <2>3. Tail(left) \in Seq(Piece)
      BY <1>2, HeadTailProperties
    <2>. QED
      BY <2>1, <2>2, <2>3
  <1>5. PICK r : r = Formatted(s, piece)
    OBVIOUS
  <1>6. /\ Fits(r) /\ r # Null /\ k =< r.len /\ Take(r.mem, k) = Take(s.mem, k)
        /\ Text(r) = Take(s.mem, k) \o x
    <2>1. k =< s.len /\ Text(s) = Take(s.mem, k) \o read
      BY <1>1, <1>2
    <2>2. Fits(r) /\ r # Null
      BY <1>1, <1>3, <1>5, FormattedFits, FitsIsString
    <2>3. /\ k =< r.len /\ Take(r.mem, k) = Take(s.mem, k)
          /\ Text(r) = Take(s.mem, k) \o (read \o piece.text)
      BY <1>1, <1>3, <1>5, <2>1, PieceAfter
    <2>. QED
      BY <1>4, <2>2, <2>3
  <1>7. s' = r /\ op' = op /\ fmt' = [fmt EXCEPT !.left = rest, !.text = x]
    BY <1>2, <1>3, <1>4, <1>5 DEF FormatPiece
  <1>8. fmt' = [left |-> rest, text |-> x, initlen |-> k]
    BY <1>1, <1>2, <1>7 DEF Format
  <1>9. fmt' \in Format /\ fmt'.text = x /\ fmt'.initlen = k
    BY <1>4, <1>8 DEF Format
  <1>10. fmt' # Null
    BY <1>9, NullAssumption
  <1>11. Value' = Take(r.mem, k)
    BY <1>6, <1>7, <1>9, <1>10 DEF Value
  <1>12. s # Null
    BY <1>1, FitsIsString
  <1>13. Value = Take(s.mem, k)
    BY <1>1, <1>2, <1>12 DEF Value
  <1>14. FormatText'
    BY <1>6, <1>7, <1>9 DEF FormatText
  <1>. QED
    BY <1>6, <1>7, <1>11, <1>13, <1>14 DEF StringStep

LEMMA EndText ==
  ASSUME TInv, EndFormat
  PROVE  StringStep /\ FormatText'
  <1>1. /\ fmt # Null /\ Fits(s) /\ Text(s) = Take(s.mem, fmt.initlen) \o fmt.text
    BY DEF EndFormat, TInv, IInv, FormatGoesOn, FormatText
  <1>2. PICK r : r = Put(s, s.len, <<NUL>>)
    OBVIOUS
  <1>3. Fits(r) /\ r # Null /\ s # Null /\ Text(r) = Text(s)
    BY <1>1, <1>2, EndFormatFits, TerminatorText, FitsIsString
  <1>4. s' = r /\ fmt' = Null /\ op' = Call("catfmt", fmt.text, <<>>, 0, 0)
    BY <1>2 DEF EndFormat
  <1>5. Value = Take(s.mem, fmt.initlen)
    BY <1>1, <1>3 DEF Value
  <1>6. Value' = Text(r)
    BY <1>3, <1>4 DEF Value, Text
  <1>7. op'.name = "catfmt" /\ op'.t = fmt.text
    BY <1>4 DEF Call
  <1>8. Value' = Value \o op'.t
    BY <1>1, <1>3, <1>5, <1>6, <1>7
  <1>9. Value # Null
    <2>1. fmt.initlen \in Nat /\ s.mem \in Seq(Byte)
      BY <1>1, FitsNumbers DEF TInv, IInv, FormatGoesOn, Format
    <2>2. Take(s.mem, fmt.initlen) \in Seq(Byte)
      BY <2>1, TakeBytes
    <2>. QED
      BY <1>5, <2>2, NullAssumption
  <1>. QED
    BY <1>4, <1>7, <1>8, <1>9
       DEF StringStep, FormatText, String!Next, String!Change, String!Extend, String!Becomes

LEMMA InitText == Init => TInv /\ String!Init
  <1>. SUFFICES ASSUME Init PROVE TInv /\ String!Init
    OBVIOUS
  <1>1. s = Null /\ fmt = Null /\ op.name = "none"
    BY DEF Init, Call
  <1>. QED
    BY <1>1, InitFits DEF TInv, FormatText, String!Init, Value

LEMMA StepText == TInv /\ [Next]_vars => TInv' /\ StringStep
  <1>. SUFFICES ASSUME TInv, [Next]_vars PROVE TInv' /\ StringStep
    OBVIOUS
  <1>1. IInv /\ IInv'
    BY StepKeepsFit DEF TInv
  <1>2. FormatText' /\ StringStep
    <2>1. CASE UNCHANGED vars
      BY <2>1 DEF vars, TInv, FormatText, StringStep, Value
    <2>2. CASE Next
      BY <1>1, <2>2, CreationText, PlainText, NumberText, GivenText, BeginText, PieceStep, EndText
         DEF Next
    <2>. QED
      BY <2>1, <2>2
  <1>. QED
    BY <1>1, <1>2 DEF TInv

(* sds.c implements the plain string of SdsString: every call, whatever the
   type of the header, the space left and the growth it sets off, does to the
   caller's string what its comment says, and sdscatfmt, which grows it piece
   by piece, is one step. *)
THEOREM ImplementsString == Spec => IsString
  <1>1. TInv /\ [Next]_vars => [String!Next]_<<Value, op>>
    BY StepText DEF StringStep
  <1>. QED
    BY <1>1, InitText, StepText, PTL DEF Spec, IsString, String!Spec
-----------------------------------------------------------------------------
(* Splitting and joining: an invariant of the two loops, in which the cuts *)
(* are the places where tokens begin.                                      *)

SplitTyped ==
  /\ str \in Seq(Alphabet) /\ sep \in Seq(Alphabet) /\ Len(sep) >= 1
  /\ slots \in Nat /\ tokens \in Seq(Seq(Alphabet))
  /\ start \in 0..Len(str) /\ j \in Nat /\ start <= j
  /\ doing \in {"splitting", "joining", "joined"}

\* No separator begins from place p on and before place q.
NoSep(p, q) == \A r \in p..q - 1 : r + Len(sep) <= Len(str) => ~SepIsAt(r)

\* The k-th token lies between its cut, which is the place where it begins, and
\* the separator before the next one.  Behind the last token one is imagined.
TokenLies(c, k) ==
  /\ c[k] + Len(sep) <= c[k + 1] /\ c[k + 1] <= Len(str) + Len(sep)
  /\ tokens[k] = SubSeq(str, c[k] + 1, c[k + 1] - Len(sep))
  /\ NoSep(c[k], c[k + 1] - Len(sep))
  /\ k < Len(tokens) \/ doing = "splitting" =>
       c[k + 1] <= Len(str) /\ SepIsAt(c[k + 1] - Len(sep))

CutsAre(c) ==
  /\ c \in Seq(Nat) /\ Len(c) = Len(tokens) + 1 /\ c[1] = 0
  /\ c[Len(c)] = (IF doing = "splitting" THEN start
                  ELSE IF tokens = <<>> THEN 0 ELSE Len(str) + Len(sep))
  /\ \A k \in 1..Len(tokens) : TokenLies(c, k)

JoinedTo(c) == IF joined = Len(tokens) THEN Len(str) ELSE c[joined + 1]
JoinIs(c) ==
  IF doing = "splitting" THEN joined = 0 /\ join = <<>>
  ELSE /\ joined \in 0..Len(tokens) /\ join = SubSeq(str, 1, JoinedTo(c))
       /\ doing = "joined" => joined = Len(tokens)

SplitInv ==
  /\ SplitTyped
  /\ doing = "splitting" => NoSep(start, j) /\ Len(tokens) + 1 <= slots
  /\ doing # "splitting" /\ tokens = <<>> => str = <<>>
  /\ Len(tokens) <= slots
  /\ \E c \in Seq(Nat) : CutsAre(c) /\ JoinIs(c)
-----------------------------------------------------------------------------
LEMMA PartOfPart ==
  ASSUME NEW S, NEW q \in Seq(S), NEW b \in Nat, NEW f \in Nat, f <= Len(q),
         NEW m \in Nat, NEW n \in Nat, 1 <= m, m <= n, b + n <= f
  PROVE  SubSeq(SubSeq(q, b + 1, f), m, n) = SubSeq(q, b + m, b + n)
  <1>1. /\ b + 1 \in 1..Len(q) /\ f \in 1..Len(q)
        /\ m \in 1..f - (b + 1) + 1 /\ n \in 1..f - (b + 1) + 1
    OBVIOUS
  <1>2. SubSeq(SubSeq(q, b + 1, f), m, n) = SubSeq(q, b + 1 + m - 1, b + 1 + n - 1)
    BY <1>1, SubSeqOfSubSeq
  <1>3. b + 1 + m - 1 = b + m /\ b + 1 + n - 1 = b + n
    OBVIOUS
  <1>. QED
    BY <1>2, <1>3

LEMMA AdjacentParts ==
  ASSUME NEW S, NEW q \in Seq(S), NEW b \in Nat, NEW e \in b..Len(q), NEW f \in e..Len(q)
  PROVE  SubSeq(q, b + 1, e) \o SubSeq(q, e + 1, f) = SubSeq(q, b + 1, f)
  <1>1. b + 1 \in 1..Len(q) + 1 /\ e \in b + 1 - 1..Len(q)
    OBVIOUS
  <1>. QED
    BY <1>1, ConcatAdjacentSubSeq

LEMMA SplitStarts ==
  ASSUME SplitInit PROVE SplitInv
  <1>1. /\ str \in Seq(Alphabet) /\ sep \in Seq(Alphabet)
        /\ Len(str) \in Nat /\ Len(sep) \in Nat /\ Len(sep) >= 1
    <2>1. PICK n \in 0..MaxStr : str \in [1..n -> Alphabet]
      BY DEF SplitInit
    <2>2. PICK m \in 1..MaxSep : sep \in [1..m -> Alphabet]
      BY DEF SplitInit
    <2>. QED
      BY <2>1, <2>2
  <1>2. tokens = <<>> /\ tokens \in Seq(Seq(Alphabet)) /\ Len(tokens) = 0
    BY DEF SplitInit
  <1>3. SplitTyped
    BY <1>1, <1>2 DEF SplitInit, SplitTyped
  <1>4. <<0>> \in Seq(Nat) /\ Len(<<0>>) = 1 /\ <<0>>[1] = 0
    OBVIOUS
  <1>5. CutsAre(<<0>>)
    BY <1>2, <1>4 DEF CutsAre, SplitInit
  <1>6. JoinIs(<<0>>)
    <2>1. CASE str = <<>>
      <3>1. JoinedTo(<<0>>) = 0 /\ doing = "joining" /\ joined = 0 /\ join = <<>>
        BY <1>2, <2>1 DEF JoinedTo, SplitInit
      <3>2. SubSeq(str, 1, 0) = <<>>
        BY SubSeqEmpty
      <3>. QED
        BY <1>2, <3>1, <3>2 DEF JoinIs
    <2>2. CASE str # <<>>
      BY <2>2 DEF JoinIs, SplitInit
    <2>. QED
      BY <2>1, <2>2
  <1>7. NoSep(start, j) /\ slots = 5 /\ (doing # "splitting" => str = <<>>)
    BY DEF SplitInit, NoSep
  <1>8. \E c \in Seq(Nat) : CutsAre(c) /\ JoinIs(c)
    BY <1>4, <1>5, <1>6
  <1>. QED
    BY <1>2, <1>3, <1>7, <1>8 DEF SplitInv, SplitInit

LEMMA SplitNumbers ==
  ASSUME SplitTyped
  PROVE  /\ Len(str) \in Nat /\ Len(sep) \in Nat /\ Len(tokens) \in Nat /\ start \in Nat
         /\ Len(sep) >= 1
  BY LenProperties DEF SplitTyped

LEMMA SlotsGrow ==
  ASSUME SplitInv, doing = "splitting", GrowSlots
  PROVE  slots' \in Nat /\ Len(tokens) + 2 <= slots' /\ slots <= slots'
  BY SplitNumbers DEF SplitInv, SplitTyped, GrowSlots, NeedsSlots

\* One more token
LEMMA CutsAppended ==
  ASSUME SplitTyped, NEW c, CutsAre(c), NEW d \in Nat, doing = "splitting",
         tokens' = Append(tokens, SubSeq(str, start + 1, d - Len(sep))),
         UNCHANGED <<str, sep>>, start + Len(sep) <= d, d <= Len(str) + Len(sep),
         NoSep(start, d - Len(sep)),
         doing' = "splitting" => d <= Len(str) /\ SepIsAt(d - Len(sep)) /\ start' = d,
         doing' # "splitting" => d = Len(str) + Len(sep)
  PROVE  CutsAre(Append(c, d))' /\ Append(c, d) \in Seq(Nat)
  <1>. DEFINE n == Len(tokens)
  <1>1. /\ c \in Seq(Nat) /\ Len(c) = n + 1 /\ n \in Nat
        /\ c[n + 1] = start /\ c[1] = 0
    BY SplitNumbers DEF CutsAre
  <1>0. PICK e : e = Append(c, d)
    OBVIOUS
  <1>2. /\ e \in Seq(Nat) /\ e = Append(c, d) /\ Len(e) = n + 2 /\ e[n + 2] = d
        /\ \A k \in 1..n + 1 : e[k] = c[k]
    BY <1>0, <1>1, AppendProperties
  <1>3. /\ Len(tokens') = n + 1 /\ tokens' # <<>>
        /\ tokens'[n + 1] = SubSeq(str, start + 1, d - Len(sep))
        /\ \A k \in 1..n : tokens'[k] = tokens[k]
    <2>1. SubSeq(str, start + 1, d - Len(sep)) \in Seq(Alphabet)
      <3>1. \A q \in start + 1..d - Len(sep) : str[q] \in Alphabet
        BY SplitNumbers, ElementOfSeq DEF SplitTyped
      <3>. QED
        BY <3>1, SplitNumbers, SubSeqProperties
    <2>2. tokens \in Seq(Seq(Alphabet))
      BY DEF SplitTyped
    <2>. DEFINE w == SubSeq(str, start + 1, d - Len(sep))
    <2>3. tokens' = Append(tokens, w) /\ w \in Seq(Alphabet)
      BY <2>1
    <2>. HIDE DEF w
    <2>4. Len(tokens') = n + 1 /\ tokens'[n + 1] = w /\ \A k \in 1..n : tokens'[k] = tokens[k]
      BY <2>2, <2>3, AppendProperties
    <2>5. tokens' # <<>>
      BY <2>2, <2>3, AppendProperties
    <2>. QED
      BY <2>4, <2>5 DEF w
  <1>4. str' = str /\ sep' = sep
    OBVIOUS
  <1>5. ASSUME NEW k \in 1..n + 1 PROVE TokenLies(e, k)'
    <2>1. CASE k = n + 1
      <3>0. k + 1 = n + 2 /\ n + 1 \in 1..n + 1
        BY <1>1, <2>1
      <3>1. e[k] = start /\ e[k + 1] = d /\ tokens'[k] = SubSeq(str, start + 1, d - Len(sep))
        BY <1>1, <1>2, <1>3, <2>1, <3>0
      <3>2. NoSep(start, d - Len(sep)) /\ str' = str /\ sep' = sep
        OBVIOUS
      <3>3. \A r \in start..d - Len(sep) - 1 :
              r + Len(sep) <= Len(str) => SubSeq(str, r + 1, r + Len(sep)) # sep
        BY <3>2 DEF NoSep, SepIsAt
      <3>4. k < Len(tokens') \/ doing' = "splitting" =>
              d <= Len(str) /\ SubSeq(str, d - Len(sep) + 1, d - Len(sep) + Len(sep)) = sep
        BY <1>1, <1>3, <2>1 DEF SepIsAt
      <3>. QED
        BY <1>4, <3>1, <3>3, <3>4 DEF TokenLies, NoSep, SepIsAt
    <2>2. CASE k # n + 1
      <3>1. k \in 1..n /\ k < n + 1 /\ k \in 1..n + 1 /\ k + 1 \in 1..n + 1
        BY <1>1, <2>2
      <3>2. e[k] = c[k] /\ e[k + 1] = c[k + 1] /\ tokens'[k] = tokens[k]
        BY <1>2, <1>3, <3>1
      <3>3. TokenLies(c, k)
        BY <3>1 DEF CutsAre
      <3>. QED
        BY <1>4, <3>2, <3>3 DEF TokenLies, NoSep, SepIsAt
    <2>. QED
      BY <2>1, <2>2
  <1>6. e[1] = 0
    BY <1>1, <1>2
  <1>7. e[Len(e)] = IF doing' = "splitting" THEN start'
                   ELSE IF tokens' = <<>> THEN 0 ELSE Len(str') + Len(sep')
    BY <1>2, <1>3, <1>4
  <1>8. Len(e) = Len(tokens') + 1 /\ \A k \in 1..Len(tokens') : TokenLies(e, k)'
    BY <1>1, <1>2, <1>3, <1>5
  <1>9. CutsAre(e)'
    BY <1>2, <1>6, <1>7, <1>8 DEF CutsAre
  <1>. QED
    BY <1>2, <1>9

LEMMA TakesToken ==
  ASSUME SplitInv, TakeToken PROVE SplitInv'
  <1>1. /\ doing = "splitting" /\ doing' = "splitting" /\ SplitTyped
        /\ NoSep(start, j) /\ SepIsAt(j) /\ InRange
    BY DEF SplitInv, TakeToken
  <1>2. PICK c \in Seq(Nat) : CutsAre(c) /\ JoinIs(c)
    BY DEF SplitInv
  <1>0. PICK d : d = j + Len(sep)
    OBVIOUS
  <1>3. /\ d \in Nat /\ d - Len(sep) = j /\ start + Len(sep) <= d
        /\ d <= Len(str) /\ d <= Len(str) + Len(sep) /\ start' = d /\ j' = d
    BY <1>0, <1>1, SplitNumbers DEF SplitTyped, InRange, TakeToken
  <1>4. UNCHANGED <<str, sep>> /\ tokens' = Append(tokens, SubSeq(str, start + 1, d - Len(sep)))
    BY <1>3 DEF TakeToken
  <1>5. SubSeq(str, start + 1, j) \in Seq(Alphabet)
    <2>1. \A q \in start + 1..j : str[q] \in Alphabet
      BY <1>1, <1>3, SplitNumbers, ElementOfSeq DEF SplitTyped
    <2>. QED
      BY <1>1, <2>1, SplitNumbers, SubSeqProperties DEF SplitTyped
  <1>6. CutsAre(Append(c, d))' /\ Append(c, d) \in Seq(Nat)
    <2>1. NoSep(start, d - Len(sep)) /\ SepIsAt(d - Len(sep))
      BY <1>1, <1>3
    <2>. QED
      BY <1>1, <1>2, <1>3, <1>4, <2>1, CutsAppended
  <1>7. JoinIs(Append(c, d))'
    BY <1>1, <1>2 DEF JoinIs, TakeToken
  <1>8. tokens' \in Seq(Seq(Alphabet)) /\ Len(tokens') = Len(tokens) + 1
    BY <1>1, <1>5, AppendProperties DEF TakeToken, SplitTyped
  <1>9. slots' \in Nat /\ Len(tokens) + 2 <= slots'
    BY <1>1, SlotsGrow DEF TakeToken
  <1>10. SplitTyped'
    BY <1>1, <1>3, <1>4, <1>8, <1>9, SplitNumbers DEF SplitTyped
  <1>11. NoSep(start, j)'
    BY <1>3 DEF NoSep
  <1>. QED
    <2>1. Len(tokens') + 1 <= slots' /\ Len(tokens') <= slots'
      BY <1>1, <1>8, <1>9, SplitNumbers
    <2>2. \E e \in Seq(Nat) : CutsAre(e)' /\ JoinIs(e)'
      BY <1>6, <1>7
    <2>. QED
      BY <1>1, <1>10, <1>11, <2>1, <2>2 DEF SplitInv

\* Cuts and what was joined do not depend on j and the slots.
LEMMA PassesOver ==
  ASSUME SplitInv, PassOver PROVE SplitInv'
  <1>1. /\ doing = "splitting" /\ doing' = "splitting" /\ SplitTyped
        /\ NoSep(start, j) /\ ~SepIsAt(j) /\ j' = j + 1
        /\ UNCHANGED <<str, sep, tokens, start, join, joined, doing>>
    BY DEF SplitInv, PassOver
  <1>2. slots' \in Nat /\ Len(tokens) + 2 <= slots'
    BY <1>1, SlotsGrow DEF PassOver
  <1>3. SplitTyped'
    BY <1>1, <1>2, SplitNumbers DEF SplitTyped
  <1>4. NoSep(start, j)'
    <2>1. ASSUME NEW q \in start..j PROVE q + Len(sep) <= Len(str) => ~SepIsAt(q)
      <3>1. q = j \/ q \in start..j - 1
        BY <1>1, SplitNumbers DEF SplitTyped
      <3>. QED
        BY <1>1, <3>1 DEF NoSep
    <2>2. j' - 1 = j /\ start' = start /\ str' = str /\ sep' = sep
      BY <1>1 DEF SplitTyped
    <2>. QED
      BY <2>1, <2>2 DEF NoSep, SepIsAt
  <1>5. \E c \in Seq(Nat) : CutsAre(c)' /\ JoinIs(c)'
    <2>1. PICK c \in Seq(Nat) : CutsAre(c) /\ JoinIs(c)
      BY DEF SplitInv
    <2>2. CutsAre(c)'
      BY <1>1, <2>1 DEF CutsAre, TokenLies, NoSep, SepIsAt
    <2>3. JoinIs(c)'
      BY <1>1, <2>1 DEF JoinIs, JoinedTo
    <2>. QED
      BY <2>2, <2>3
  <1>. QED
    BY <1>1, <1>2, <1>3, <1>4, <1>5, SplitNumbers DEF SplitInv

LEMMA TakesLast ==
  ASSUME SplitInv, TakeLast PROVE SplitInv'
  <1>1. /\ doing = "splitting" /\ doing' = "joining" /\ SplitTyped
        /\ NoSep(start, j) /\ ~InRange /\ Len(tokens) + 1 <= slots
        /\ UNCHANGED <<str, sep, slots, start, j, join, joined>>
    BY DEF SplitInv, TakeLast
  <1>2. PICK c \in Seq(Nat) : CutsAre(c) /\ JoinIs(c)
    BY DEF SplitInv
  <1>0. PICK d : d = Len(str) + Len(sep)
    OBVIOUS
  <1>3. /\ d \in Nat /\ d - Len(sep) = Len(str) /\ start + Len(sep) <= d
        /\ d <= Len(str) + Len(sep) /\ d = Len(str) + Len(sep)
    BY <1>0, <1>1, SplitNumbers DEF SplitTyped
  <1>4. tokens' = Append(tokens, SubSeq(str, start + 1, d - Len(sep)))
    BY <1>3 DEF TakeLast
  <1>5. SubSeq(str, start + 1, Len(str)) \in Seq(Alphabet)
    <2>1. \A q \in start + 1..Len(str) : str[q] \in Alphabet
      BY <1>1, SplitNumbers, ElementOfSeq DEF SplitTyped
    <2>. QED
      BY <1>1, <2>1, SplitNumbers, SubSeqProperties DEF SplitTyped
  <1>6. NoSep(start, d - Len(sep))
    BY <1>1, <1>3, SplitNumbers DEF NoSep, InRange, SplitTyped
  <1>8. CutsAre(Append(c, d))' /\ Append(c, d) \in Seq(Nat)
    <2>1. UNCHANGED <<str, sep>> /\ doing' # "splitting"
      BY <1>1
    <2>. QED
      BY <1>1, <1>2, <1>3, <1>4, <1>6, <2>1, CutsAppended
  <1>9. tokens' \in Seq(Seq(Alphabet)) /\ Len(tokens') = Len(tokens) + 1
    BY <1>1, <1>5, AppendProperties DEF TakeLast, SplitTyped
  <1>10. JoinIs(Append(c, d))'
    <2>1. joined' = 0 /\ join' = <<>>
      BY <1>1, <1>2 DEF JoinIs
    <2>2. Append(c, d)[0 + 1] = 0
      BY <1>8 DEF CutsAre
    <2>3. JoinedTo(Append(c, d))' = 0
      <3>1. joined' # Len(tokens')
        BY <1>1, <1>9, <2>1, SplitNumbers
      <3>. QED
        BY <2>1, <2>2, <3>1 DEF JoinedTo
    <2>4. SubSeq(str', 1, 0) = <<>>
      BY SubSeqEmpty
    <2>. QED
      BY <1>1, <1>9, <2>1, <2>3, <2>4, SplitNumbers DEF JoinIs
  <1>11. SplitTyped'
    BY <1>1, <1>9 DEF SplitTyped
  <1>12. tokens' # <<>> /\ Len(tokens') <= slots'
    <2>1. Len(tokens') # 0
      BY <1>1, <1>9, SplitNumbers
    <2>. QED
      BY <1>1, <1>9, <2>1
  <1>. QED
    <2>1. \E e \in Seq(Nat) : CutsAre(e)' /\ JoinIs(e)'
      BY <1>8, <1>10
    <2>. QED
      BY <1>1, <2>1, <1>11, <1>12 DEF SplitInv

LEMMA JoinsToken ==
  ASSUME SplitInv, JoinToken PROVE SplitInv'
  <1>1. /\ doing = "joining" /\ doing' = "joining" /\ SplitTyped
        /\ joined < Len(tokens) /\ joined' = joined + 1
        /\ UNCHANGED <<str, sep, slots, tokens, start, j, doing>>
    BY DEF SplitInv, JoinToken
  <1>2. PICK c \in Seq(Nat) : CutsAre(c) /\ JoinIs(c)
    BY DEF SplitInv
  <1>3. /\ joined \in Nat /\ joined + 1 \in 1..Len(tokens) /\ Len(tokens) \in Nat
        /\ join = SubSeq(str, 1, c[joined + 1])
    BY <1>1, <1>2, SplitNumbers DEF JoinIs, JoinedTo
  <1>4. PICK k \in 1..Len(tokens) : k = joined + 1
    BY <1>3
  <1>5. TokenLies(c, k)
    BY <1>2 DEF CutsAre
  <1>6. c[k] \in Nat /\ c[k + 1] \in Nat
    <2>1. c \in Seq(Nat) /\ k \in 1..Len(c) /\ k + 1 \in 1..Len(c)
      BY <1>2, <1>3 DEF CutsAre
    <2>. QED
      BY <2>1, ElementOfSeq
  <1>b. PICK b \in Nat : b = c[k]
    BY <1>6
  <1>e. PICK e \in Int : e = c[k + 1] - Len(sep)
    <2>1. c[k + 1] - Len(sep) \in Int
      BY <1>6, <1>1, SplitNumbers
    <2>. QED
      BY <2>1
  <1>7. /\ b \in 0..Len(str) /\ e \in b..Len(str) /\ Len(str) \in Nat
        /\ tokens[k] = SubSeq(str, b + 1, e) /\ e + Len(sep) = c[k + 1]
    <2>1. /\ b + Len(sep) <= c[k + 1] /\ c[k + 1] <= Len(str) + Len(sep)
          /\ tokens[k] = SubSeq(str, b + 1, e)
      BY <1>5, <1>b, <1>e DEF TokenLies
    <2>2. Len(str) \in Nat /\ Len(sep) \in Nat
      BY <1>1, SplitNumbers
    <2>3. b \in 0..Len(str) /\ e \in b..Len(str) /\ e + Len(sep) = c[k + 1]
      <3>1. PICK next \in Nat : next = c[k + 1]
        BY <1>6
      <3>2. b \in Nat /\ e = next - Len(sep) /\ b + Len(sep) <= next /\ next <= Len(str) + Len(sep)
        BY <1>6, <1>b, <1>e, <2>1, <3>1
      <3>3. PICK m \in Nat : m = Len(sep)
        BY <2>2
      <3>4. PICK n \in Nat : n = Len(str)
        BY <2>2
      <3>5. e = next - m /\ b + m <= next /\ next <= n + m
        BY <3>2, <3>3, <3>4
      <3>6. e \in Nat /\ b <= e /\ e <= n /\ e + m = next
        BY <3>5
      <3>7. b \in 0..n /\ e \in b..n
        BY <3>2, <3>4, <3>6
      <3>. QED
        BY <3>1, <3>3, <3>4, <3>6, <3>7
    <2>. QED
      BY <2>1, <2>2, <2>3
  <1>8. str \in Seq(Alphabet)
    BY <1>1 DEF SplitTyped
  <1>9. SubSeq(str, 1, b) \o SubSeq(str, b + 1, e) = SubSeq(str, 1, e)
    <2>1. 1 \in 1..Len(str) + 1 /\ b \in 1 - 1..Len(str)
      BY <1>7
    <2>. QED
      BY <1>7, <1>8, <2>1, ConcatAdjacentSubSeq
  <1>10. join' = SubSeq(str, 1, JoinedTo(c)')
    <2>1. CASE k = Len(tokens)
      <3>1. e = Len(str) /\ joined = Len(tokens) - 1
        <4>1. Len(c) = k + 1 /\ tokens # <<>>
          BY <1>2, <1>4, <2>1, SplitNumbers DEF CutsAre
        <4>2. c[k + 1] = Len(str) + Len(sep)
          BY <1>1, <1>2, <4>1 DEF CutsAre
        <4>3. e = Len(str) + Len(sep) - Len(sep)
          BY <1>e, <4>2
        <4>4. Len(str) \in Nat /\ Len(sep) \in Nat
          BY <1>1, SplitNumbers
        <4>5. e = Len(str)
          BY <4>3, <4>4
        <4>. QED
          BY <1>3, <1>4, <2>1, <4>5
      <3>2. join' = join \o tokens[k] \o <<>>
        BY <1>4, <3>1 DEF JoinToken
      <3>3. join \o tokens[k] = SubSeq(str, 1, e)
        BY <1>3, <1>4, <1>7, <1>9, <1>b
      <3>4. SubSeq(str, 1, e) \in Seq(Alphabet)
        BY <3>1, <1>8, SubSeqFull
      <3>5. JoinedTo(c)' = e
        BY <1>1, <1>4, <2>1, <3>1 DEF JoinedTo
      <3>. QED
        BY <3>2, <3>3, <3>4, <3>5, ConcatEmptySeq
    <2>2. CASE k # Len(tokens)
      <3>1. k < Len(tokens) /\ joined # Len(tokens) - 1
        BY <1>3, <1>4, <2>2
      <3>2. c[k + 1] <= Len(str) /\ sep = SubSeq(str, e + 1, e + Len(sep))
        BY <1>5, <1>e, <3>1 DEF TokenLies, SepIsAt
      <3>3. e + Len(sep) = c[k + 1] /\ c[k + 1] \in e..Len(str)
        <4>1. c[k + 1] \in Nat /\ e \in Nat /\ Len(sep) \in Nat
          BY <1>1, <1>6, <1>7, SplitNumbers
        <4>. QED
          BY <1>7, <3>2, <4>1
      <3>4. join' = join \o tokens[k] \o sep
        BY <1>4, <3>1 DEF JoinToken
      <3>5. join \o tokens[k] = SubSeq(str, 1, e)
        BY <1>3, <1>4, <1>7, <1>9, <1>b
      <3>6. SubSeq(str, 1, e) \o SubSeq(str, e + 1, c[k + 1]) = SubSeq(str, 1, c[k + 1])
        <4>1. 1 \in 1..Len(str) + 1 /\ e \in 1 - 1..Len(str)
          BY <1>7
        <4>. QED
          BY <1>8, <3>3, <4>1, ConcatAdjacentSubSeq
      <3>7. JoinedTo(c)' = c[k + 1]
        BY <1>1, <1>4, <2>2, <1>3 DEF JoinedTo
      <3>. QED
        BY <3>2, <3>3, <3>4, <3>5, <3>6, <3>7, <1>1
    <2>. QED
      BY <2>1, <2>2
  <1>11. JoinIs(c)'
    BY <1>1, <1>3, <1>10 DEF JoinIs
  <1>12. CutsAre(c)'
    BY <1>1, <1>2 DEF CutsAre, TokenLies, NoSep, SepIsAt
  <1>13. SplitTyped'
    BY <1>1 DEF SplitTyped
  <1>. QED
    BY <1>1, <1>2, <1>11, <1>12, <1>13 DEF SplitInv

LEMMA JoinEnds ==
  ASSUME SplitInv, JoinReturns PROVE SplitInv'
  <1>1. /\ doing = "joining" /\ doing' = "joined" /\ SplitTyped
        /\ joined >= Len(tokens)
        /\ UNCHANGED <<str, sep, slots, tokens, start, j, join, joined>>
    BY DEF SplitInv, JoinReturns
  <1>2. PICK c \in Seq(Nat) : CutsAre(c) /\ JoinIs(c)
    BY DEF SplitInv
  <1>3. JoinIs(c)'
    BY <1>1, <1>2, SplitNumbers DEF JoinIs, JoinedTo
  <1>4. CutsAre(c)'
    BY <1>1, <1>2 DEF CutsAre, TokenLies, NoSep, SepIsAt
  <1>5. SplitTyped'
    BY <1>1 DEF SplitTyped
  <1>. QED
    BY <1>1, <1>2, <1>3, <1>4, <1>5 DEF SplitInv

LEMMA SplitKeeps ==
  ASSUME SplitInv, [SplitNext]_splitVars PROVE SplitInv'
  <1>1. CASE UNCHANGED splitVars
    <2>1. UNCHANGED <<str, sep, slots, tokens, start, j, join, joined, doing>>
      BY <1>1 DEF splitVars
    <2>2. PICK c \in Seq(Nat) : CutsAre(c) /\ JoinIs(c)
      BY DEF SplitInv
    <2>3. CutsAre(c)' /\ JoinIs(c)'
      BY <2>1, <2>2 DEF CutsAre, TokenLies, NoSep, SepIsAt, JoinIs, JoinedTo
    <2>4. SplitTyped' /\ (NoSep(start, j) => NoSep(start, j)')
      BY <2>1 DEF SplitInv, SplitTyped, NoSep, SepIsAt
    <2>. QED
      BY <2>1, <2>3, <2>4 DEF SplitInv
  <1>2. CASE SplitNext
    BY <1>1, <1>2, TakesToken, PassesOver, TakesLast, JoinsToken, JoinEnds DEF SplitNext, SplitDone
  <1>. QED
    BY <1>1, <1>2

\* A token and what follows it are a part of the string, where no separator begins.
LEMMA TokensLackSep ==
  ASSUME SplitInv, NEW k \in 1..Len(tokens) PROVE ~HoldsSep(Followed(k))
  <1>1. SplitTyped
    BY DEF SplitInv
  <1>2. PICK c \in Seq(Nat) : CutsAre(c)
    BY DEF SplitInv
  <1>3. TokenLies(c, k)
    BY <1>2 DEF CutsAre
  <1>4. c[k] \in Nat /\ c[k + 1] \in Nat
    <2>1. c \in Seq(Nat) /\ k \in 1..Len(c) /\ k + 1 \in 1..Len(c)
      BY <1>1, <1>2, SplitNumbers DEF CutsAre
    <2>. QED
      BY <2>1, ElementOfSeq
  <1>b. PICK b \in Nat : b = c[k]
    BY <1>4
  <1>e. PICK e \in Int : e = c[k + 1] - Len(sep)
    <2>1. c[k + 1] - Len(sep) \in Int
      BY <1>4, <1>1, SplitNumbers
    <2>. QED
      BY <2>1
  <1>f. PICK f \in Int :
          f = IF k = Len(tokens) /\ doing # "splitting" THEN e ELSE e + Len(sep) - 1
    <2>1. e + Len(sep) - 1 \in Int
      BY <1>1, SplitNumbers
    <2>. QED
      BY <2>1
  <1>5. /\ b \in Nat /\ e \in b..Len(str) /\ f \in e..Len(str)
        /\ Len(str) \in Nat /\ Len(sep) \in Nat /\ Len(sep) >= 1
        /\ tokens[k] = SubSeq(str, b + 1, e) /\ NoSep(b, e)
        /\ f - Len(sep) < e /\ e + Len(sep) = c[k + 1]
    <2>1. /\ b + Len(sep) <= c[k + 1] /\ c[k + 1] <= Len(str) + Len(sep)
          /\ tokens[k] = SubSeq(str, b + 1, e) /\ NoSep(b, e)
          /\ k < Len(tokens) \/ doing = "splitting" => c[k + 1] <= Len(str)
      BY <1>3, <1>b, <1>e DEF TokenLies
    <2>2. Len(str) \in Nat /\ Len(sep) \in Nat /\ Len(sep) >= 1
      BY <1>1, SplitNumbers
    <2>3. b \in 0..Len(str) /\ e \in b..Len(str) /\ e + Len(sep) = c[k + 1] /\ e \in Nat
      <3>1. PICK next \in Nat : next = c[k + 1]
        BY <1>4
      <3>2. b \in Nat /\ e = next - Len(sep) /\ b + Len(sep) <= next /\ next <= Len(str) + Len(sep)
        BY <1>4, <1>b, <1>e, <2>1, <3>1
      <3>3. PICK m \in Nat : m = Len(sep)
        BY <2>2
      <3>4. PICK n \in Nat : n = Len(str)
        BY <2>2
      <3>5. e = next - m /\ b + m <= next /\ next <= n + m
        BY <3>2, <3>3, <3>4
      <3>6. e \in Nat /\ b <= e /\ e <= n /\ e + m = next
        BY <3>5
      <3>7. b \in 0..n /\ e \in b..n
        BY <3>2, <3>4, <3>6
      <3>. QED
        BY <3>1, <3>3, <3>4, <3>6, <3>7
    <2>4. CASE k = Len(tokens) /\ doing # "splitting"
      <3>1. f = e
        BY <1>f, <2>4
      <3>. QED
        BY <2>1, <2>2, <2>3, <3>1
    <2>5. CASE ~(k = Len(tokens) /\ doing # "splitting")
      <3>1. k < Len(tokens) \/ doing = "splitting"
        BY <1>1, <2>5, SplitNumbers
      <3>2. f = e + Len(sep) - 1 /\ e + Len(sep) <= Len(str)
        BY <1>f, <2>1, <2>3, <2>5, <3>1
      <3>3. PICK m \in Nat, n \in Nat, g \in Nat : m = Len(sep) /\ n = Len(str) /\ g = e
        BY <2>2, <2>3
      <3>4. g + m - 1 \in g..n /\ g + m - 1 - m < g
        BY <2>2, <3>2, <3>3
      <3>5. f \in e..Len(str) /\ f - Len(sep) < e
        BY <3>2, <3>3, <3>4
      <3>. QED
        BY <2>1, <2>2, <2>3, <3>5
    <2>. QED
      BY <2>4, <2>5
  <1>6. str \in Seq(Alphabet)
    BY <1>1 DEF SplitTyped
  <1>7. Followed(k) = SubSeq(str, b + 1, f)
    <2>1. CASE k = Len(tokens) /\ doing # "splitting"
      BY <1>5, <1>f, <2>1 DEF Followed
    <2>2. CASE ~(k = Len(tokens) /\ doing # "splitting")
      <3>1. k < Len(tokens) \/ doing = "splitting"
        BY <1>1, <2>2, SplitNumbers
      <3>2. e + Len(sep) <= Len(str) /\ sep = SubSeq(str, e + 1, e + Len(sep)) /\ f = e + Len(sep) - 1
        <4>1. c[k + 1] <= Len(str) /\ SubSeq(str, e + 1, e + Len(sep)) = sep
          BY <1>3, <1>e, <3>1 DEF TokenLies, SepIsAt
        <4>2. f = e + Len(sep) - 1
          BY <1>f, <2>2
        <4>. QED
          BY <1>5, <4>1, <4>2
      <3>3. SubSeq(sep, 1, Len(sep) - 1) = SubSeq(str, e + 1, f)
        <4>1. CASE Len(sep) = 1
          BY <1>5, <3>2, <4>1, SubSeqEmpty
        <4>2. CASE Len(sep) # 1
          <5>0. e \in Nat
            BY <1>5
          <5>1. e \in Nat /\ Len(sep) - 1 \in Nat /\ e + Len(sep) \in Nat
            BY <1>5, <4>2, <5>0
          <5>2. 1 <= Len(sep) - 1 /\ e + (Len(sep) - 1) <= e + Len(sep)
            <6>1. PICK m \in Nat : m = Len(sep)
              BY <1>5
            <6>2. m >= 1 /\ m # 1
              BY <1>5, <4>2, <6>1
            <6>3. 1 <= m - 1 /\ e + (m - 1) <= e + m
              BY <6>2
            <6>. QED
              BY <6>1, <6>3
          <5>3. SubSeq(SubSeq(str, e + 1, e + Len(sep)), 1, Len(sep) - 1)
                  = SubSeq(str, e + 1, e + (Len(sep) - 1))
            BY <1>6, <3>2, <5>1, <5>2, PartOfPart
          <5>4. e + (Len(sep) - 1) = f
            BY <1>5, <3>2
          <5>. QED
            BY <3>2, <5>3, <5>4
        <4>. QED
          BY <4>1, <4>2
      <3>4. SubSeq(str, b + 1, e) \o SubSeq(str, e + 1, f) = SubSeq(str, b + 1, f)
        BY <1>5, <1>6, AdjacentParts
      <3>. QED
        BY <1>5, <2>2, <3>3, <3>4 DEF Followed
    <2>. QED
      BY <2>1, <2>2
  <1>8. Len(Followed(k)) = f - b
    <2>1. \A q \in b + 1..f : str[q] \in Alphabet
      BY <1>5, <1>6, ElementOfSeq
    <2>. QED
      BY <1>5, <1>7, <2>1, SubSeqProperties
  <1>9. ASSUME NEW q \in 1..Len(Followed(k)) - Len(sep) + 1,
               SubSeq(Followed(k), q, q + Len(sep) - 1) = sep
        PROVE  FALSE
    <2>1. q \in Nat /\ 1 <= q /\ q <= f - b - Len(sep) + 1
      BY <1>5, <1>8
    <2>2. PICK r \in Nat : r = b + q - 1
      <3>1. b + q - 1 \in Nat
        BY <1>5, <2>1
      <3>. QED
        BY <3>1
    <2>3. PICK n \in Nat : n = q + Len(sep) - 1
      <3>1. q + Len(sep) - 1 \in Nat
        BY <1>5, <2>1
      <3>. QED
        BY <3>1
    <2>4. SubSeq(SubSeq(str, b + 1, f), q, n) = SubSeq(str, b + q, b + n)
      <3>1. f \in Nat /\ f <= Len(str) /\ q <= n /\ b + n <= f
        BY <1>5, <2>1, <2>3
      <3>. QED
        BY <1>5, <1>6, <2>1, <3>1, PartOfPart
    <2>5. b + q = r + 1 /\ b + n = r + Len(sep)
      BY <1>5, <2>1, <2>2, <2>3
    <2>6. SepIsAt(r)
      BY <1>7, <1>9, <2>3, <2>4, <2>5 DEF SepIsAt
    <2>7. r \in b..e - 1 /\ r + Len(sep) <= Len(str)
      BY <1>5, <2>1, <2>2
    <2>. QED
      BY <1>5, <2>6, <2>7 DEF NoSep
  <1>. QED
    BY <1>9 DEF HoldsSep

\* sds.c: joining with sdsjoinsds what sdssplitlen has split gives the string back,
\* for every string and separator; no token is stored beyond the slots, none holds
\* the separator, and separators are taken where they first occur.
THEOREM SplitsAndJoins == SplitSpec => []SplitThenJoin
  <1>1. SplitInv => SplitThenJoin
    <2>. SUFFICES ASSUME SplitInv PROVE SplitThenJoin
      OBVIOUS
    <2>1. doing = "joined" => join = str
      <3>. SUFFICES ASSUME doing = "joined" PROVE join = str
        OBVIOUS
      <3>1. join = SubSeq(str, 1, Len(str)) /\ str \in Seq(Alphabet)
        BY DEF SplitInv, JoinIs, JoinedTo, SplitTyped
      <3>. QED
        BY <3>1, SubSeqFull
    <2>2. DOMAIN tokens = 1..Len(tokens) /\ Len(tokens) <= slots
      BY DEF SplitInv, SplitTyped
    <2>. QED
      BY <2>1, <2>2, TokensLackSep DEF SplitThenJoin
  <1>. QED
    BY <1>1, SplitStarts, SplitKeeps, PTL DEF SplitSpec

-----------------------------------------------------------------------------
(* Writing text and reading it: an invariant of sdscatrepr and of        *)
(* sdssplitargs, in which every piece of the line has its place.          *)

\* Where the pieces lie, which are numbered by argument and byte
Places(at) == at \in [Nat -> [Nat -> Nat]]

\* Where the next piece of the line lies, after that of byte b of argument a
NextPlace(at, a, b) == IF b <= Len(argv[a]) THEN at[a][b + 1] ELSE at[a + 1][0]

\* The b-th piece of the a-th argument lies at its place.
PieceLies(at, a, b) ==
  /\ at[a][b] >= 1 /\ NextPlace(at, a, b) = at[a][b] + Len(Repr(a, b))
  /\ NextPlace(at, a, b) <= Len(line) + 1
  /\ \A k \in 1..Len(Repr(a, b)) : line[at[a][b] + k - 1] = Repr(a, b)[k]

Pieces(a) == 0..Len(argv[a]) + 1

LineGrows(at) ==
  /\ arg \in 1..Len(argv) + 1
  /\ nth \in (IF arg <= Len(argv) THEN Pieces(arg) ELSE {0})
  /\ at[1][0] = 1 /\ at[arg][nth] = Len(line) + 1
  /\ \A a \in 1..Len(argv) : \A b \in Pieces(a) :
       a < arg \/ (a = arg /\ b < nth) => PieceLies(at, a, b)
  /\ cursor = 1 /\ current = <<>> /\ vector = <<>>

LineLies(at) ==
  /\ at[1][0] = 1 /\ at[Len(argv) + 1][0] = Len(line) + 1
  /\ \A a \in 1..Len(argv) : \A b \in Pieces(a) : PieceLies(at, a, b)

\* The arguments read so far are those written, and p stands where the next one
\* begins, on the blank before it, or where the next byte of it lies.
Reading(at) ==
  /\ vector \in Seq(Seq(Octet)) /\ Len(vector) <= Len(argv)
  /\ \A k \in 1..Len(vector) : vector[k] = argv[k]
  /\ current \in Seq(Octet)
  /\ LET k == Len(vector) + 1
     IN  \/ /\ mode = "blanks" /\ current = <<>>
            /\ cursor = at[k][0] \/ (k > 1 /\ cursor = at[k][0] - 1)
         \/ mode = "word" /\ k <= Len(argv) /\ current = <<>> /\ cursor = at[k][0]
         \/ /\ mode = "quotes" /\ k <= Len(argv) /\ Len(current) <= Len(argv[k])
            /\ \A b \in 1..Len(current) : current[b] = argv[k][b]
            /\ cursor = at[k][Len(current) + 1]
         \/ mode = "read" /\ k = Len(argv) + 1

ReprInv ==
  /\ argv \in Seq(Seq(Octet)) /\ line \in Seq(Octet)
  /\ cursor \in 1..Len(line) + 1 
  /\ mode = "writing" => quoted
  /\ quoted => \E at : /\ Places(at)
                       /\ IF mode = "writing" THEN LineGrows(at) ELSE LineLies(at) /\ Reading(at)
-----------------------------------------------------------------------------
LEMMA HexDigitIs ==
  ASSUME NEW n \in 0..15
  PROVE  HexDigit(n) \in 48..57 \union 97..102 /\ HexDigitToInt(HexDigit(n)) = n
  <1>1. CASE n < 10
    <2>1. HexDigit(n) = 48 + n
      BY <1>1 DEF HexDigit, Zero
    <2>2. PICK d \in 48..57 : d = 48 + n
      BY <1>1
    <2>3. HexDigitToInt(d) = d - 48
      BY DEF HexDigitToInt, Zero
    <2>. QED
      BY <2>1, <2>2, <2>3
  <1>2. CASE ~(n < 10)
    <2>1. HexDigit(n) = 97 + n - 10
      BY <1>2 DEF HexDigit
    <2>2. PICK d \in 97..102 : d = 97 + n - 10
      BY <1>2
    <2>3. HexDigitToInt(d) = d - 97 + 10
      BY DEF HexDigitToInt
    <2>. QED
      BY <2>1, <2>2, <2>3
  <1>. QED
    BY <1>1, <1>2

LEMMA HexCodeIs ==
  ASSUME NEW x \in Octet
  PROVE  /\ x \div 16 \in 0..15 /\ x % 16 \in 0..15
         /\ Code(HexDigitToInt(HexDigit(x \div 16)), HexDigitToInt(HexDigit(x % 16))) = x
  <1>1. x \div 16 \in 0..15 /\ x % 16 \in 0..15 /\ (x \div 16) * 16 + (x % 16) = x
    BY DEF Octet
  <1>2. PICK h \in 0..15, l \in 0..15 : h = x \div 16 /\ l = x % 16
    BY <1>1
  <1>3. HexDigitToInt(HexDigit(h)) = h /\ HexDigitToInt(HexDigit(l)) = l
    BY HexDigitIs
  <1>4. Code(h, l) = h * 16 + l
    BY DEF Code
  <1>. QED
    BY <1>1, <1>2, <1>3, <1>4

\* The forms of a byte: as it is, behind a backslash, or as hexadecimal digits.
PlainForm(x) == x \notin {0, Backslash, DoubleQuote} /\ ByteRepr(x) = <<x>>
EscapedForm(x) == \E c \in Octet \ {0, X} : Unescaped(c) = x /\ ByteRepr(x) = <<Backslash, c>>
HexForm(x) ==
  \E h \in Octet, l \in Octet :
    /\ IsHexDigit(h) /\ IsHexDigit(l) /\ Code(HexDigitToInt(h), HexDigitToInt(l)) = x
    /\ ByteRepr(x) = <<Backslash, X, h, l>>

LEMMA FormsOfByte ==
  ASSUME NEW x \in Octet
  PROVE  PlainForm(x) \/ EscapedForm(x) \/ HexForm(x)
  <1>1. CASE x \in {Backslash, DoubleQuote}
    <2>1. ByteRepr(x) = <<Backslash, x>>
      BY <1>1 DEF ByteRepr, Letter, IsPrint, Backslash, DoubleQuote
    <2>2. Unescaped(x) = x /\ x \in Octet \ {0, X}
      BY <1>1 DEF Unescaped, Backslash, DoubleQuote, Octet, X
    <2>. QED
      BY <2>1, <2>2 DEF EscapedForm
  <1>2. CASE x \in {7, 8, 9, 10, 13}
    <2>1. x \notin {Backslash, DoubleQuote} /\ x \in DOMAIN Letter /\ ~IsPrint(x)
      BY <1>2 DEF Letter, IsPrint, Backslash, DoubleQuote
    <2>2. ByteRepr(x) = <<Backslash, Letter[x]>>
      BY <2>1 DEF ByteRepr
    <2>3. Letter[x] \in Octet \ {0, X} /\ Unescaped(Letter[x]) = x
      BY <1>2 DEF Letter, Unescaped, Octet, X
    <2>. QED
      BY <2>2, <2>3 DEF EscapedForm
  <1>3. CASE IsPrint(x) /\ x \notin {Backslash, DoubleQuote}
    <2>1. x \notin DOMAIN Letter /\ x # 0
      BY <1>3 DEF Letter, IsPrint
    <2>2. ByteRepr(x) = <<x>>
      BY <1>3, <2>1 DEF ByteRepr
    <2>. QED
      BY <1>3, <2>1, <2>2 DEF PlainForm
  <1>4. CASE ~IsPrint(x) /\ x \notin {7, 8, 9, 10, 13} /\ x \notin {Backslash, DoubleQuote}
    <2>1. x \notin DOMAIN Letter
      BY <1>4 DEF Letter
    <2>2. ByteRepr(x) = <<Backslash, X, HexDigit(x \div 16), HexDigit(x % 16)>>
      BY <1>4, <2>1 DEF ByteRepr
    <2>3. PICK h, l : h = HexDigit(x \div 16) /\ l = HexDigit(x % 16)
      OBVIOUS
    <2>4. /\ h \in 48..57 \union 97..102 /\ l \in 48..57 \union 97..102
          /\ Code(HexDigitToInt(h), HexDigitToInt(l)) = x
      BY <2>3, HexCodeIs, HexDigitIs
    <2>5. h \in Octet /\ l \in Octet /\ IsHexDigit(h) /\ IsHexDigit(l)
      BY <2>4 DEF Octet, IsHexDigit
    <2>. QED
      BY <2>2, <2>3, <2>4, <2>5 DEF HexForm
  <1>. QED
    BY <1>1, <1>2, <1>3, <1>4

LEMMA ReprIs ==
  ASSUME argv \in Seq(Seq(Octet)), NEW a \in 1..Len(argv), NEW b \in Pieces(a)
  PROVE  Repr(a, b) \in Seq(Octet) /\ Len(Repr(a, b)) >= 1
  <1>1. CASE b = 0
    BY <1>1 DEF Repr, Octet, DoubleQuote
  <1>2. CASE b # 0 /\ b <= Len(argv[a])
    <2>1. b \in 1..Len(argv[a])
      BY <1>2 DEF Pieces
    <2>2. argv[a][b] \in Octet
      BY <2>1, ElementOfSeq
    <2>3. PICK x \in Octet : x = argv[a][b] /\ Repr(a, b) = ByteRepr(x)
      BY <1>2, <2>2 DEF Repr
    <2>4. ByteRepr(x) \in Seq(Octet) /\ Len(ByteRepr(x)) >= 1
      <3>1. CASE PlainForm(x)
        BY <3>1 DEF PlainForm
      <3>2. CASE EscapedForm(x)
        BY <3>2 DEF EscapedForm, Octet, Backslash
      <3>3. CASE HexForm(x)
        BY <3>3 DEF HexForm, Octet, Backslash, X
      <3>. QED
        BY <3>1, <3>2, <3>3, FormsOfByte
    <2>. QED
      BY <2>3, <2>4
  <1>3. CASE b # 0 /\ ~(b <= Len(argv[a]))
    BY <1>3 DEF Repr, Octet, DoubleQuote, Blank
  <1>. QED
    BY <1>1, <1>2, <1>3
-----------------------------------------------------------------------------
LEMMA ReprStarts ==
  ASSUME ReprInit PROVE ReprInv
  <1>1. CASE quoted = FALSE /\ argv = <<>> /\ line \in CommandLines /\ mode = "blanks"
    <2>1. line \in Seq(Octet) /\ Len(line) \in Nat
      BY <1>1, TextAssumption
    <2>2. cursor \in 1..Len(line) + 1 /\ argv \in Seq(Seq(Octet))
      BY <1>1, <2>1 DEF ReprInit
    <2>. QED
      BY <1>1, <2>1, <2>2 DEF ReprInv
  <1>2. CASE quoted = TRUE /\ argv \in Arguments /\ line = <<>> /\ mode = "writing"
    <2>1. argv \in Seq(Seq(Octet)) /\ Len(argv) \in Nat /\ line \in Seq(Octet) /\ Len(line) = 0
      BY <1>2, TextAssumption
    <2>2. PICK at : at = [a \in Nat |-> [b \in Nat |-> 1]]
      OBVIOUS
    <2>3. Places(at) /\ at[1][0] = 1
      BY <2>2 DEF Places
    <2>4. nth \in (IF arg <= Len(argv) THEN Pieces(arg) ELSE {0})
      <3>1. CASE arg <= Len(argv)
        <4>1. Len(argv[1]) \in Nat
          BY <2>1, <3>1, ElementOfSeq, LenProperties DEF ReprInit
        <4>. QED
          BY <3>1, <4>1 DEF ReprInit, Pieces
      <3>. QED
        BY <3>1 DEF ReprInit
    <2>5. ASSUME NEW a \in 1..Len(argv), NEW b \in Pieces(a)
          PROVE  ~(a < arg \/ (a = arg /\ b < nth))
      BY <2>1 DEF ReprInit, Pieces
    <2>6. arg \in 1..Len(argv) + 1 /\ at[arg][nth] = Len(line) + 1
      BY <2>1, <2>3 DEF ReprInit
    <2>8. cursor = 1 /\ current = <<>> /\ vector = <<>>
      BY DEF ReprInit
    <2>9. LineGrows(at)
      BY <2>3, <2>4, <2>5, <2>6, <2>8 DEF LineGrows
    <2>7. cursor \in 1..Len(line) + 1
      BY <2>1 DEF ReprInit
    <2>. QED
      BY <1>2, <2>1, <2>3, <2>7, <2>9 DEF ReprInv
  <1>. QED
    BY <1>1, <1>2 DEF ReprInit

LEMMA ArgumentIs ==
  ASSUME argv \in Seq(Seq(Octet)), NEW a \in 1..Len(argv)
  PROVE  /\ argv[a] \in Seq(Octet) /\ Len(argv[a]) \in Nat
         /\ Pieces(a) = 0..Len(argv[a]) + 1
  <1>1. argv[a] \in Seq(Octet)
    BY ElementOfSeq
  <1>. QED
    BY <1>1 DEF Pieces

LEMMA PlaceIs ==
  ASSUME NEW at, Places(at), NEW a \in Nat, NEW b \in Nat
  PROVE  at[a][b] \in Nat
  BY DEF Places

IsChanged(now, at, a2, b2, e) ==
  /\ Places(now) /\ now[a2][b2] = e
  /\ \A a \in Nat, b \in Nat : ~(a = a2 /\ b = b2) => now[a][b] = at[a][b]

LEMMA PlaceChanges ==
  ASSUME NEW at, Places(at), NEW a2 \in Nat, NEW b2 \in Nat, NEW e \in Nat
  PROVE  \E now : IsChanged(now, at, a2, b2, e)
  <1>1. PICK now : now = [at EXCEPT ![a2] = [at[a2] EXCEPT ![b2] = e]]
    OBVIOUS
  <1>2. at[a2] \in [Nat -> Nat]
    BY DEF Places
  <1>3. [at[a2] EXCEPT ![b2] = e] \in [Nat -> Nat]
    BY <1>2
  <1>4. Places(now) /\ now[a2] = [at[a2] EXCEPT ![b2] = e]
    BY <1>1, <1>3 DEF Places
  <1>5. now[a2][b2] = e
    BY <1>2, <1>4
  <1>6. ASSUME NEW a \in Nat, NEW b \in Nat, ~(a = a2 /\ b = b2) PROVE now[a][b] = at[a][b]
    <2>1. CASE a = a2
      BY <1>2, <1>4, <1>6, <2>1
    <2>2. CASE a # a2
      BY <1>1, <2>2 DEF Places
    <2>. QED
      BY <2>1, <2>2
  <1>. QED
    BY <1>4, <1>5, <1>6 DEF IsChanged

LEMMA PieceNumbers ==
  ASSUME argv \in Seq(Seq(Octet)), NEW a \in 1..Len(argv), NEW b \in Pieces(a)
  PROVE  a \in Nat /\ b \in Nat /\ a >= 1 /\ a + 1 \in Nat /\ b + 1 \in Nat
  <1>1. PICK n \in Nat : n = Len(argv)
    BY LenProperties
  <1>2. PICK v \in Nat : Pieces(a) = 0..v + 1
    BY ArgumentIs
  <1>3. a \in 1..n /\ b \in 0..v + 1
    BY <1>1, <1>2
  <1>. QED
    BY <1>3

LEMMA LongerLine ==
  ASSUME NEW l \in Seq(Octet), NEW p \in Seq(Octet)
  PROVE  /\ l \o p \in Seq(Octet) /\ Len(l \o p) = Len(l) + Len(p)
         /\ Len(l) \in Nat /\ Len(p) \in Nat
         /\ \A k \in 1..Len(l) : (l \o p)[k] = l[k]
         /\ \A k \in 1..Len(p) : (l \o p)[Len(l) + k] = p[k]
  <1>1. /\ l \o p \in Seq(Octet) /\ Len(l \o p) = Len(l) + Len(p)
        /\ \A k \in 1..Len(l) + Len(p) :
             (l \o p)[k] = IF k <= Len(l) THEN l[k] ELSE p[k - Len(l)]
    BY ConcatProperties
  <1>2. Len(l) \in Nat /\ Len(p) \in Nat
    OBVIOUS
  <1>3. ASSUME NEW k \in 1..Len(p) PROVE (l \o p)[Len(l) + k] = p[k]
    <2>1. Len(l) + k \in 1..Len(l) + Len(p) /\ ~(Len(l) + k <= Len(l)) /\ Len(l) + k - Len(l) = k
      BY <1>2
    <2>. QED
      BY <1>1, <2>1
  <1>4. ASSUME NEW k \in 1..Len(l) PROVE (l \o p)[k] = l[k]
    <2>1. k \in 1..Len(l) + Len(p) /\ k <= Len(l)
      BY <1>2
    <2>. QED
      BY <1>1, <2>1
  <1>. QED
    BY <1>1, <1>2, <1>3, <1>4

\* A piece that lies where it should goes on doing so when the line grows.
LEMMA Writes ==
  ASSUME ReprInv, Write PROVE ReprInv'
  <1>1. PICK at : Places(at) /\ LineGrows(at)
    BY DEF ReprInv, Write
  <1>2. /\ argv \in Seq(Seq(Octet)) /\ Len(argv) \in Nat /\ arg \in 1..Len(argv) /\ nth \in Pieces(arg)
        /\ UNCHANGED <<quoted, argv, cursor, current, vector, mode>> /\ mode = "writing" /\ quoted
    <2>1. arg \in 1..Len(argv) + 1 /\ arg <= Len(argv) /\ Len(argv) \in Nat
      BY <1>1, LenProperties DEF ReprInv, Write, LineGrows
    <2>2. arg \in 1..Len(argv)
      BY <2>1
    <2>. QED
      BY <1>1, <2>1, <2>2 DEF ReprInv, Write, LineGrows
  <1>3. PICK w \in Nat : w = Len(argv[arg]) /\ nth \in 0..w + 1
    BY <1>2, ArgumentIs
  <1>14. arg \in Nat /\ arg >= 1 /\ nth \in Nat /\ nth <= w + 1
    BY <1>2, <1>3
  <1>4. PICK p \in Seq(Octet) : p = Repr(arg, nth) /\ Len(p) >= 1
    BY <1>2, ReprIs
  <1>5. PICK l \in Seq(Octet), m \in Seq(Octet) :
          /\ l = line /\ m = line' /\ Len(m) = Len(l) + Len(p)
          /\ \A k \in 1..Len(l) : m[k] = l[k]
          /\ \A k \in 1..Len(p) : m[Len(l) + k] = p[k]
    <2>1. line \in Seq(Octet) /\ line' = line \o p
      BY <1>4 DEF ReprInv, Write
    <2>. QED
      BY <2>1, LongerLine
  <1>6. PICK e \in Nat, n \in Nat, z \in Nat :
          n = Len(l) /\ z = Len(p) /\ z >= 1 /\ e = n + z + 1 /\ e = Len(m) + 1
    <2>1. PICK n \in Nat, z \in Nat : n = Len(l) /\ z = Len(p)
      BY LenProperties
    <2>2. Len(m) = n + z /\ z >= 1
      BY <1>4, <1>5, <2>1
    <2>3. n + z + 1 \in Nat
      OBVIOUS
    <2>. QED
      BY <2>1, <2>2, <2>3
  <1>7. PICK a2 \in Nat, b2 \in Nat :
          /\ a2 = arg' /\ b2 = nth'
          /\ nth <= w => a2 = arg /\ b2 = nth + 1
          /\ ~(nth <= w) => a2 = arg + 1 /\ b2 = 0
    <2>1. arg \in Nat /\ nth \in Nat /\ arg + 1 \in Nat /\ nth + 1 \in Nat
      BY <1>2, <1>3
    <2>2. CASE nth <= w
      BY <1>3, <2>1, <2>2 DEF Write
    <2>3. CASE ~(nth <= w)
      BY <1>3, <2>1, <2>3 DEF Write
    <2>. QED
      BY <2>2, <2>3
  <1>8. a2 \in 1..Len(argv) + 1 /\ b2 \in (IF a2 <= Len(argv) THEN Pieces(a2) ELSE {0})
    <2>1. CASE nth <= w
      <3>1. a2 \in 1..Len(argv) /\ b2 \in 0..w + 1 /\ a2 = arg
        <4>1. a2 = arg /\ b2 = nth + 1
          BY <1>7, <2>1
        <4>. QED
          BY <1>2, <1>14, <2>1, <4>1
      <3>2. Pieces(a2) = 0..w + 1
        BY <1>2, <1>3, <3>1, ArgumentIs
      <3>. QED
        BY <1>2, <3>1, <3>2
    <2>2. CASE ~(nth <= w)
      <3>1. a2 \in 1..Len(argv) + 1 /\ b2 = 0
        BY <1>2, <1>7, <2>2
      <3>2. ASSUME a2 <= Len(argv) PROVE 0 \in Pieces(a2)
        <4>1. a2 \in 1..Len(argv)
          BY <1>2, <3>1, <3>2
        <4>2. PICK v \in Nat : Pieces(a2) = 0..v + 1
          BY <1>2, <4>1, ArgumentIs
        <4>. QED
          BY <4>2
      <3>. QED
        BY <3>1, <3>2
    <2>. QED
      BY <2>1, <2>2
  <1>9. PICK now :
          /\ Places(now) /\ now[a2][b2] = e
          /\ \A a \in Nat, b \in Nat : ~(a = a2 /\ b = b2) => now[a][b] = at[a][b]
    <2>1. PICK now : IsChanged(now, at, a2, b2, e)
      BY <1>1, PlaceChanges
    <2>. QED
      BY <2>1 DEF IsChanged
  <1>10. ASSUME NEW a \in 1..Len(argv), NEW b \in Pieces(a), a < a2 \/ (a = a2 /\ b < b2)
         PROVE  PieceLies(now, a, b)'
    <2>1. PICK v \in Nat : v = Len(argv[a]) /\ b \in 0..v + 1
      BY <1>2, ArgumentIs
    <2>2. PICK x \in Nat : x = at[a][b] /\ x = now[a][b]
      <3>1. a \in Nat /\ b \in Nat /\ ~(a = a2 /\ b = b2)
        BY <1>10, <2>1
      <3>2. at[a][b] \in Nat
        BY <1>1, <3>1, PlaceIs
      <3>. QED
        BY <1>9, <3>1, <3>2
    <2>3. PICK q \in Seq(Octet) : q = Repr(a, b)
      BY <1>2, ReprIs
    <2>4. Repr(a, b)' = q
      BY <1>2, <2>3 DEF Repr
    <2>5. CASE a = arg /\ b = nth
      <3>1. q = p /\ x = n + 1
        BY <1>1, <1>4, <1>5, <1>6, <2>2, <2>3, <2>5 DEF LineGrows
      <3>2. NextPlace(now, a, b)' = e
        BY <1>2, <1>3, <1>7, <1>9, <2>5 DEF NextPlace
      <3>3. e = x + z /\ x >= 1
        BY <1>6, <3>1
      <3>4. ASSUME NEW k \in 1..z PROVE m[x + k - 1] = q[k]
        <4>1. x + k - 1 = n + k
          BY <3>1
        <4>. QED
          BY <1>5, <1>6, <3>1, <4>1
      <3>. QED
        BY <1>5, <1>6, <2>2, <2>4, <3>1, <3>2, <3>3, <3>4 DEF PieceLies
    <2>6. CASE ~(a = arg /\ b = nth)
      <3>1. a < arg \/ (a = arg /\ b < nth)
        <4>1. arg \in Nat /\ nth \in Nat /\ a \in Nat /\ b \in Nat
          BY <1>2, <1>3, <2>1
        <4>2. CASE nth <= w
          BY <1>7, <1>10, <2>6, <4>1, <4>2
        <4>3. CASE ~(nth <= w)
          <5>1. a < arg + 1
            BY <1>7, <1>10, <2>1, <4>1, <4>3
          <5>2. CASE a = arg
            <6>1. b <= w + 1 /\ nth = w + 1
              <7>1. b <= w + 1
                BY <1>3, <2>1, <5>2
              <7>. QED
                BY <1>14, <4>3, <7>1
            <6>. QED
              BY <2>6, <4>1, <5>2, <6>1
          <5>. QED
            BY <4>1, <5>1, <5>2
        <4>. QED
          BY <4>2, <4>3
      <3>2. PieceLies(at, a, b)
        BY <1>1, <3>1 DEF LineGrows
      <3>3. NextPlace(now, a, b)' = NextPlace(at, a, b)
        <4>1. CASE b <= v
          <5>1. ~(a = a2 /\ b + 1 = b2) /\ b + 1 \in Nat
            <6>1. arg \in Nat /\ nth \in Nat /\ a \in Nat /\ b \in Nat /\ b + 1 \in Nat
              BY <1>2, <1>3, <2>1
            <6>2. CASE nth <= w
              BY <1>7, <3>1, <6>1, <6>2
            <6>3. CASE ~(nth <= w)
              BY <1>7, <6>1, <6>3
            <6>. QED
              BY <6>1, <6>2, <6>3
          <5>. QED
            <6>1. NextPlace(at, a, b) = at[a][b + 1] /\ NextPlace(now, a, b)' = now[a][b + 1]
              BY <1>2, <2>1, <4>1 DEF NextPlace
            <6>2. a \in Nat
              BY <1>2, PieceNumbers
            <6>. QED
              BY <1>9, <5>1, <6>1, <6>2
        <4>2. CASE ~(b <= v)
          <5>1. ~(a + 1 = a2 /\ 0 = b2) /\ a + 1 \in Nat
            <6>1. CASE a < arg
              <7>2. nth + 1 # 0
                BY <1>14
              <7>3. a + 1 # arg + 1 /\ a + 1 \in Nat
                BY <1>14, <6>1
              <7>1. nth + 1 # 0 /\ a + 1 # arg + 1 /\ a + 1 \in Nat
                BY <7>2, <7>3
              <7>. QED
                BY <1>7, <7>1
            <6>2. CASE a = arg
              <7>1. w = v
                BY <1>3, <2>1, <6>2
              <7>2. nth <= v + 1 /\ nth \in Nat /\ b = v + 1
                <8>1. b <= v + 1 /\ b \in Nat
                  BY <2>1
                <8>. QED
                  BY <1>14, <4>2, <7>1, <8>1
              <7>3. b < nth
                BY <1>2, <3>1, <6>2
              <7>. QED
                BY <7>2, <7>3
            <6>. QED
              BY <3>1, <6>1, <6>2
          <5>. QED
            BY <1>2, <1>9, <2>1, <4>2, <5>1 DEF NextPlace
        <4>. QED
          BY <4>1, <4>2
      <3>4. PICK y : y = NextPlace(at, a, b)
        OBVIOUS
      <3>5. PICK u \in Nat : u = Len(q)
        BY LenProperties
      <3>6. /\ x >= 1 /\ y = x + u /\ y <= n + 1
            /\ \A k \in 1..u : l[x + k - 1] = q[k]
        BY <1>5, <1>6, <2>2, <2>3, <3>2, <3>4, <3>5 DEF PieceLies
      <3>7. ASSUME NEW k \in 1..u PROVE m[x + k - 1] = q[k]
        <4>1. x + k - 1 \in 1..n
          BY <3>6
        <4>. QED
          BY <1>5, <1>6, <3>6, <4>1
      <3>8. y <= e
        BY <1>6, <3>6
      <3>. QED
        BY <1>5, <1>6, <2>2, <2>4, <3>3, <3>4, <3>5, <3>6, <3>7, <3>8 DEF PieceLies
    <2>. QED
      BY <2>5, <2>6
  <1>11. now[1][0] = 1
    <2>1. ~(1 = a2 /\ 0 = b2)
      <3>1. arg + 1 # 1
        BY <1>14
      <3>2. nth + 1 # 0
        BY <1>14
      <3>. QED
        BY <1>7, <3>1, <3>2
    <2>. QED
      BY <1>1, <1>9, <2>1 DEF LineGrows
  <1>12. LineGrows(now)'
    BY <1>1, <1>2, <1>5, <1>6, <1>7, <1>8, <1>9, <1>10, <1>11 DEF LineGrows, Pieces
  <1>13. cursor' \in 1..Len(line') + 1
    <2>1. cursor' = 1 /\ Len(line') \in Nat
      BY <1>1, <1>2, <1>5 DEF LineGrows
    <2>. QED
      BY <2>1
  <1>. QED
    BY <1>2, <1>5, <1>9, <1>12, <1>13 DEF ReprInv

LEMMA LineStays ==
  ASSUME NEW at, LineLies(at), UNCHANGED <<argv, line>>
  PROVE  LineLies(at)'
  <1>1. ASSUME NEW a \in 1..Len(argv)', NEW b \in Pieces(a)'
        PROVE  PieceLies(at, a, b)'
    <2>1. a \in 1..Len(argv) /\ b \in Pieces(a)
      BY DEF Pieces
    <2>2. PieceLies(at, a, b) /\ Repr(a, b)' = Repr(a, b) /\ NextPlace(at, a, b)' = NextPlace(at, a, b)
      BY <2>1 DEF LineLies, Repr, NextPlace
    <2>. QED
      BY <2>2 DEF PieceLies
  <1>. QED
    BY <1>1 DEF LineLies

LEMMA WritingEnds ==
  ASSUME ReprInv, WriteEnds PROVE ReprInv'
  <1>1. PICK at : Places(at) /\ LineGrows(at)
    BY DEF ReprInv, WriteEnds
  <1>2. /\ argv \in Seq(Seq(Octet)) /\ Len(argv) \in Nat /\ line \in Seq(Octet)
        /\ UNCHANGED <<quoted, argv, arg, nth, line, cursor, current, vector>>
        /\ mode' = "blanks" /\ quoted
    BY LenProperties DEF ReprInv, WriteEnds
  <1>3. arg = Len(argv) + 1 /\ nth = 0
    <2>1. arg \in 1..Len(argv) + 1 /\ arg > Len(argv)
      BY <1>1 DEF LineGrows, WriteEnds
    <2>2. nth \in (IF arg <= Len(argv) THEN Pieces(arg) ELSE {0})
      BY <1>1 DEF LineGrows
    <2>. QED
      <3>3. PICK n \in Nat : n = Len(argv) /\ arg \in 1..n + 1 /\ arg > n
        BY <1>2, <2>1
      <3>4. arg = n + 1
        BY <3>3
      <3>1. arg = Len(argv) + 1
        BY <3>3, <3>4
      <3>2. ~(arg <= Len(argv))
        BY <1>2, <3>1
      <3>. QED
        BY <2>2, <3>1, <3>2
  <1>4. ASSUME NEW a \in 1..Len(argv), NEW b \in Pieces(a)
        PROVE  PieceLies(at, a, b)
    <2>1. a < arg
      BY <1>2, <1>3
    <2>. QED
      BY <1>1, <2>1 DEF LineGrows
  <1>5. LineLies(at)
    BY <1>1, <1>3, <1>4 DEF LineGrows, LineLies
  <1>6. LineLies(at)'
    BY <1>2, <1>5, LineStays
  <1>7. Reading(at)'
    <2>1. vector' = <<>> /\ current' = <<>> /\ cursor' = at[1][0]
      BY <1>1, <1>2 DEF LineGrows
    <2>2. vector' \in Seq(Seq(Octet)) /\ Len(vector') = 0 /\ current' \in Seq(Octet)
      BY <2>1
    <2>. QED
      BY <1>2, <2>1, <2>2 DEF Reading
  <1>8. cursor' \in 1..Len(line') + 1 /\ argv' \in Seq(Seq(Octet)) /\ line' \in Seq(Octet)
    BY <1>2 DEF ReprInv
  <1>. QED
    BY <1>1, <1>2, <1>6, <1>7, <1>8 DEF ReprInv
-----------------------------------------------------------------------------
\* What stays as it is while a line is read, and where p may go
LEMMA StaysInLine ==
  ASSUME line \in Seq(Octet), cursor \in 1..Len(line) + 1,
         mode # "writing", ReprNext
  PROVE  /\ UNCHANGED <<quoted, argv, arg, nth, line>> /\ mode' # "writing"
         /\ cursor' \in 1..Len(line) + 1
  <1>1. PICK n \in Nat : n = Len(line)
    BY LenProperties
  <1>2. \A q \in Nat : ByteAt(q) # 0 => q <= n
    BY <1>1 DEF ByteAt
  <1>3. cursor \in Nat /\ 1 <= cursor /\ cursor <= n + 1
    BY <1>1
  <1>4. cursor + 1 \in Nat /\ cursor + 2 \in Nat /\ cursor + 3 \in Nat
    BY <1>3
  <1>5. Here # 0 => cursor <= n
    BY <1>2, <1>3 DEF Here
  <1>6. Following # 0 => cursor + 1 <= n
    BY <1>2, <1>4 DEF Following
  <1>7. HexEscape => cursor + 3 <= n
    <2>2. ~IsHexDigit(0)
      BY DEF IsHexDigit
    <2>1. HexEscape => ByteAt(cursor + 3) # 0
      BY <2>2 DEF HexEscape
    <2>. QED
      BY <1>2, <1>4, <2>1
  <1>8. /\ IsSpace(0) = FALSE /\ Apostrophe # 0 /\ DoubleQuote # 0 /\ EndsWord(0)
    BY DEF IsSpace, Blank, Apostrophe, DoubleQuote, EndsWord
  <1>9. ASSUME NEW size \in 0..4, NEW next, Goes(size, next), cursor + size <= n + 1, next # "writing"
        PROVE  /\ UNCHANGED <<quoted, argv, arg, nth, line>> /\ mode' # "writing"
               /\ cursor' \in 1..Len(line) + 1
    BY <1>1, <1>3, <1>9 DEF Goes
  <1>10. ASSUME NEW size \in 0..4, TokenEnds(size), cursor + size <= n + 1
         PROVE  /\ UNCHANGED <<quoted, argv, arg, nth, line>> /\ mode' # "writing"
                /\ cursor' \in 1..Len(line) + 1
    BY <1>1, <1>3, <1>10 DEF TokenEnds
  <1>11. ASSUME Refuse
         PROVE  /\ UNCHANGED <<quoted, argv, arg, nth, line>> /\ mode' # "writing"
                /\ cursor' \in 1..Len(line) + 1
    BY <1>11 DEF Refuse
  <1>12. CASE SkipBlank \/ OpenQuotes \/ OpenApostrophes
    <2>1. Here # 0
      BY <1>8, <1>12 DEF SkipBlank, OpenQuotes, OpenApostrophes
    <2>2. cursor + 1 <= n + 1
      BY <1>3, <1>5, <2>1
    <2>3. Goes(1, "blanks") \/ Goes(1, "quotes") \/ Goes(1, "apostrophes")
      BY <1>12 DEF SkipBlank, OpenQuotes, OpenApostrophes
    <2>. QED
      BY <1>9, <2>2, <2>3
  <1>13. CASE BeginToken \/ ReturnTokens
    <2>1. Goes(0, "word") \/ Goes(0, "read")
      BY <1>13 DEF BeginToken, ReturnTokens
    <2>2. cursor + 0 <= n + 1
      BY <1>3
    <2>. QED
      BY <1>9, <2>1, <2>2
  <1>14. CASE RefuseClosed \/ RefuseOpen
    BY <1>11, <1>14 DEF RefuseClosed, RefuseOpen
  <1>15. CASE EndWord
    <2>1. CASE Here = 0
      <3>1. TokenEnds(0) /\ cursor + 0 <= n + 1
        BY <1>3, <1>15, <2>1 DEF EndWord
      <3>. QED
        BY <1>10, <3>1
    <2>2. CASE Here # 0
      <3>1. TokenEnds(1) /\ cursor + 1 <= n + 1
        BY <1>3, <1>5, <1>15, <2>2 DEF EndWord
      <3>. QED
        BY <1>10, <3>1
    <2>. QED
      BY <2>1, <2>2
  <1>16. CASE AddToWord \/ AddQuoted \/ AddInApostrophes
    <2>1. Here # 0 /\ Goes(1, mode)
      BY <1>8, <1>16 DEF AddToWord, AddQuoted, AddInApostrophes, Adds
    <2>2. cursor + 1 <= n + 1
      BY <1>3, <1>5, <2>1
    <2>. QED
      BY <1>9, <2>1, <2>2
  <1>17. CASE AddHex
    <2>1. Goes(4, mode) /\ cursor + 3 <= n
      BY <1>7, <1>17 DEF AddHex, Adds
    <2>2. cursor + 4 <= n + 1
      BY <1>3, <2>1
    <2>. QED
      BY <1>9, <2>1, <2>2
  <1>18. CASE AddEscaped \/ AddApostrophe
    <2>1. Goes(2, mode) /\ Following # 0
      BY <1>8, <1>18 DEF AddEscaped, AddApostrophe, Adds
    <2>2. cursor + 2 <= n + 1
      BY <1>3, <1>6, <2>1
    <2>. QED
      BY <1>9, <2>1, <2>2
  <1>19. CASE Close
    <2>1. Here # 0 /\ TokenEnds(1)
      BY <1>8, <1>19 DEF Close, Closing
    <2>2. cursor + 1 <= n + 1
      BY <1>3, <1>5, <2>1
    <2>. QED
      BY <1>10, <2>1, <2>2
  <1>20. CASE ReprDone
    BY <1>20 DEF ReprDone, reprVars
  <1>. QED
    BY <1>12, <1>13, <1>14, <1>15, <1>16, <1>17, <1>18, <1>19, <1>20
    DEF ReprNext, Write, WriteEnds, InWord, InQuotes, InApostrophes

LEMMA EndOfPiece ==
  ASSUME NEW c \in Nat, NEW u \in Nat, NEW k \in Nat, NEW n \in Nat,
         c + u <= n + 1, k <= u
  PROVE  c + k - 1 <= n
  OBVIOUS

\* What p finds where a piece lies
LEMMA FindsPiece ==
  ASSUME NEW at, Places(at), LineLies(at),
         argv \in Seq(Seq(Octet)), line \in Seq(Octet),
         NEW a \in 1..Len(argv), NEW b \in Pieces(a), cursor = at[a][b]
  PROVE  /\ NextPlace(at, a, b) = cursor + Len(Repr(a, b))
         /\ Here = Repr(a, b)[1]
         /\ Len(Repr(a, b)) >= 2 => Following = Repr(a, b)[2]
         /\ Len(Repr(a, b)) >= 4 => /\ ByteAt(cursor + 2) = Repr(a, b)[3]
                                    /\ ByteAt(cursor + 3) = Repr(a, b)[4]
  <1>1. PieceLies(at, a, b)
    BY DEF LineLies
  <1>2. PICK q \in Seq(Octet), u \in Nat, n \in Nat :
          q = Repr(a, b) /\ u = Len(q) /\ n = Len(line) /\ u >= 1
    BY ReprIs, LenProperties
  <1>3. cursor \in Nat
    <2>1. a \in Nat /\ b \in Nat
      BY PieceNumbers
    <2>. QED
      BY <2>1, PlaceIs
  <1>4. /\ cursor >= 1 /\ NextPlace(at, a, b) = cursor + u /\ cursor + u <= n + 1
        /\ \A k \in 1..u : line[cursor + k - 1] = q[k]
    BY <1>1, <1>2 DEF PieceLies
  <1>5. ASSUME NEW k \in 1..4, k <= u, NEW i, i = cursor + k - 1
        PROVE  ByteAt(i) = q[k]
    <2>3. PICK c \in Nat : c = cursor /\ c + u <= n + 1 /\ i = c + k - 1
      BY <1>3, <1>4, <1>5
    <2>4. k \in Nat /\ k >= 1 /\ k <= u
      BY <1>5
    <2>5. i <= n
      BY <2>3, <2>4, EndOfPiece
    <2>1. i <= n /\ k \in 1..u
      BY <2>4, <2>5
    <2>2. line[i] = q[k]
      BY <1>4, <1>5, <2>1
    <2>. QED
      BY <1>2, <2>1, <2>2 DEF ByteAt
  <1>6. /\ cursor = cursor + 1 - 1 /\ cursor + 1 = cursor + 2 - 1
        /\ cursor + 2 = cursor + 3 - 1 /\ cursor + 3 = cursor + 4 - 1
    BY <1>3
  <1>7. Here = q[1]
    BY <1>2, <1>5, <1>6 DEF Here
  <1>8. u >= 2 => Following = q[2]
    BY <1>5, <1>6 DEF Following
  <1>9. u >= 4 => ByteAt(cursor + 2) = q[3] /\ ByteAt(cursor + 3) = q[4]
    BY <1>5, <1>6
  <1>. QED
    BY <1>2, <1>4, <1>7, <1>8, <1>9

\* Behind a blank, or at the end
LEMMA FindsBlank ==
  ASSUME NEW at, Places(at), LineLies(at),
         argv \in Seq(Seq(Octet)), line \in Seq(Octet),
         NEW a \in 1..Len(argv), cursor = at[a + 1][0] - 1
  PROVE  Here = Blank
  <1>1. PICK v \in Nat : v = Len(argv[a]) /\ Pieces(a) = 0..v + 1
    BY ArgumentIs
  <1>2. PICK b \in Pieces(a) : b = v + 1 /\ b # 0 /\ ~(b <= v)
    <2>1. v + 1 \in 0..v + 1 /\ v + 1 # 0 /\ ~(v + 1 <= v)
      OBVIOUS
    <2>. QED
      BY <1>1, <2>1
  <1>3. Repr(a, b) = <<DoubleQuote, Blank>>
    BY <1>1, <1>2 DEF Repr
  <1>4. PICK x \in Nat, n \in Nat : x = at[a][b] /\ n = Len(line)
    <2>2. at[a][b] \in Nat
      BY PieceNumbers, PlaceIs
    <2>. QED
      BY <2>2, LenProperties
  <1>5. at[a + 1][0] = x + 2 /\ x + 2 <= n + 1 /\ line[x + 1] = Blank
    <2>1. PieceLies(at, a, b) /\ NextPlace(at, a, b) = at[a + 1][0]
      BY <1>1, <1>2 DEF LineLies, NextPlace
    <2>2. PICK q : q = Repr(a, b) /\ Len(q) = 2 /\ q[2] = Blank
      BY <1>3
    <2>3. at[a + 1][0] = x + 2 /\ x + 2 <= n + 1
      BY <1>4, <2>1, <2>2 DEF PieceLies
    <2>4. 2 \in 1..2 /\ x + 2 - 1 = x + 1
      BY <1>4
    <2>5. line[x + 1] = Blank
      BY <1>4, <2>1, <2>2, <2>4 DEF PieceLies
    <2>. QED
      BY <2>3, <2>5
  <1>6. cursor = x + 1 /\ cursor <= n
    <2>1. cursor = x + 2 - 1
      BY <1>5
    <2>2. x + 2 <= n + 1
      BY <1>5
    <2>3. x + 2 - 1 = x + 1 /\ x + 1 <= n
      BY <2>2
    <2>. QED
      BY <2>1, <2>3
  <1>. QED
    BY <1>4, <1>5, <1>6 DEF Here, ByteAt

LEMMA FindsEnd ==
  ASSUME line \in Seq(Octet), cursor = Len(line) + 1
  PROVE  Here = 0
  BY LenProperties DEF Here, ByteAt
-----------------------------------------------------------------------------
\* What a turn does to the arguments that are read back, in each of the modes
LEMMA ReadsBlank ==
  ASSUME NEW at, Places(at), LineLies(at), Reading(at),
         argv \in Seq(Seq(Octet)), line \in Seq(Octet), mode = "blanks", ReprNext
  PROVE  Reading(at)'
  <1>1. PICK k \in Nat, n \in Nat : k = Len(vector) + 1 /\ n = Len(argv) /\ k >= 1 /\ k <= n + 1
    <2>1. PICK m \in Nat, n \in Nat : m = Len(vector) /\ n = Len(argv) /\ m <= n
      BY LenProperties DEF Reading
    <2>2. m + 1 \in Nat /\ m + 1 >= 1 /\ m + 1 <= n + 1
      BY <2>1
    <2>. QED
      BY <2>1, <2>2
  <1>2. /\ current = <<>> /\ vector \in Seq(Seq(Octet)) /\ Len(vector) <= Len(argv)
        /\ \A i \in 1..Len(vector) : vector[i] = argv[i]
        /\ cursor = at[k][0] \/ (k > 1 /\ cursor = at[k][0] - 1)
    BY <1>1 DEF Reading
  <1>3. SkipBlank \/ BeginToken \/ ReturnTokens
    BY DEF ReprNext, Write, WriteEnds, InWord, InQuotes, InApostrophes, EndWord, OpenQuotes,
           OpenApostrophes, AddToWord, AddHex, AddEscaped, AddQuoted, AddApostrophe,
           AddInApostrophes, Close, RefuseClosed, Closing, RefuseOpen, ReprDone
  <1>4. CASE k > 1 /\ cursor = at[k][0] - 1
    <2>1. PICK a \in 1..n : a + 1 = k
      <3>1. k - 1 \in 1..n /\ (k - 1) + 1 = k
        BY <1>1, <1>4
      <3>2. PICK a : a = k - 1
        OBVIOUS
      <3>. QED
        BY <3>1, <3>2
    <2>2. Here = Blank
      BY <1>1, <1>4, <2>1, FindsBlank
    <2>3. SkipBlank
      BY <1>3, <2>2 DEF BeginToken, ReturnTokens, IsSpace, Blank
    <2>4. PICK x \in Nat : x = at[k][0]
      <3>1. at[k][0] \in Nat
        BY PlaceIs
      <3>. QED
        BY <3>1
    <2>7. cursor' = cursor + 1 /\ mode' = "blanks"
      BY <2>3 DEF SkipBlank, Goes
    <2>8. cursor = x - 1 /\ (x - 1) + 1 = x
      BY <1>4, <2>4
    <2>5. cursor' = at[k][0] /\ mode' = "blanks"
      BY <2>4, <2>7, <2>8
    <2>6. UNCHANGED <<argv, vector, current>>
      BY <2>3 DEF SkipBlank, Goes
    <2>. QED
      BY <1>1, <1>2, <2>5, <2>6 DEF Reading
  <1>5. CASE cursor = at[k][0] /\ k <= n
    <2>1. k \in 1..Len(argv) /\ 0 \in Pieces(k)
      <3>1. k \in 1..Len(argv)
        BY <1>1, <1>5
      <3>2. PICK v \in Nat : Pieces(k) = 0..v + 1
        BY <3>1, ArgumentIs
      <3>. QED
        BY <3>1, <3>2
    <2>2. Here = DoubleQuote
      BY <1>5, <2>1, FindsPiece DEF Repr
    <2>3. BeginToken
      BY <1>3, <2>2 DEF SkipBlank, ReturnTokens, IsSpace, Blank, DoubleQuote
    <2>4. mode' = "word" /\ cursor' = cursor + 0 /\ UNCHANGED <<argv, vector, current>>
      BY <2>3 DEF BeginToken, Goes
    <2>7. at[k][0] \in Nat
      BY PlaceIs
    <2>5. cursor' = at[k][0]
      BY <1>5, <2>4, <2>7
    <2>. QED
      BY <1>1, <1>2, <1>5, <2>4, <2>5 DEF Reading
  <1>6. CASE cursor = at[k][0] /\ ~(k <= n)
    <2>1. k = n + 1 /\ cursor = Len(line) + 1
      <3>1. k = n + 1
        BY <1>1, <1>6
      <3>2. at[n + 1][0] = Len(line) + 1
        BY <1>1 DEF LineLies
      <3>. QED
        BY <1>6, <3>1, <3>2
    <2>2. Here = 0
      BY <2>1, FindsEnd
    <2>3. ReturnTokens
      BY <1>3, <2>2 DEF SkipBlank, BeginToken, IsSpace, Blank
    <2>4. mode' = "read" /\ UNCHANGED <<argv, vector, current>>
      BY <2>3 DEF ReturnTokens, Goes
    <2>5. current' \in Seq(Octet)
      BY <1>2, <2>4
    <2>. QED
      BY <1>1, <1>2, <2>1, <2>4, <2>5 DEF Reading
  <1>. QED
    BY <1>2, <1>4, <1>5, <1>6

LEMMA ReadsWord ==
  ASSUME NEW at, Places(at), LineLies(at), Reading(at),
         argv \in Seq(Seq(Octet)), line \in Seq(Octet), mode = "word", ReprNext
  PROVE  Reading(at)'
  <1>1. PICK k \in Nat : k = Len(vector) + 1 /\ k \in 1..Len(argv)
    <2>1. PICK m \in Nat, n \in Nat : m = Len(vector) /\ n = Len(argv) /\ m + 1 <= n
      BY LenProperties DEF Reading
    <2>. QED
      BY <2>1
  <1>2. /\ current = <<>> /\ vector \in Seq(Seq(Octet)) /\ Len(vector) <= Len(argv)
        /\ \A i \in 1..Len(vector) : vector[i] = argv[i]
        /\ cursor = at[k][0] /\ k <= Len(argv)
    BY <1>1 DEF Reading
  <1>3. PICK v \in Nat : v = Len(argv[k]) /\ Pieces(k) = 0..v + 1
    BY <1>1, ArgumentIs
  <1>4. 0 \in Pieces(k)
    BY <1>3
  <1>12. PICK q : q = <<DoubleQuote>> /\ q = Repr(k, 0) /\ Len(q) = 1 /\ q[1] = DoubleQuote
    <2>1. Repr(k, 0) = <<DoubleQuote>>
      BY DEF Repr
    <2>. QED
      BY <2>1
  <1>5. Here = DoubleQuote /\ NextPlace(at, k, 0) = cursor + 1
    <2>1. NextPlace(at, k, 0) = cursor + Len(Repr(k, 0)) /\ Here = Repr(k, 0)[1]
      BY <1>1, <1>2, <1>4, FindsPiece
    <2>. QED
      BY <1>12, <2>1
  <1>6. EndWord \/ OpenQuotes \/ OpenApostrophes \/ AddToWord
    BY DEF ReprNext, Write, WriteEnds, InWord, InQuotes, InApostrophes, SkipBlank, BeginToken,
           ReturnTokens, AddHex, AddEscaped, AddQuoted, AddApostrophe,
           AddInApostrophes, Close, RefuseClosed, Closing, RefuseOpen, ReprDone
  <1>7. OpenQuotes
    <2>1. ~EndsWord(DoubleQuote) /\ DoubleQuote # Apostrophe
      BY DEF EndsWord, DoubleQuote, Apostrophe, Blank
    <2>. QED
      BY <1>5, <1>6, <2>1 DEF EndWord, OpenApostrophes, AddToWord
  <1>8. cursor' = cursor + 1 /\ mode' = "quotes" /\ UNCHANGED <<argv, vector, current>>
    BY <1>7 DEF OpenQuotes, Goes
  <1>9. NextPlace(at, k, 0) = at[k][1]
    BY <1>3 DEF NextPlace
  <1>10. current' \in Seq(Octet) /\ Len(current') = 0
    BY <1>2, <1>8
  <1>13. cursor' = at[k][1]
    BY <1>5, <1>8, <1>9
  <1>14. cursor' = at[k][Len(current') + 1]
    BY <1>10, <1>13
  <1>11. Len(current') <= Len(argv[k]) /\ 1..Len(current') = {}
    BY <1>3, <1>10
  <1>. QED
    BY <1>1, <1>2, <1>8, <1>10, <1>11, <1>14 DEF Reading

LEMMA QuotesStep ==
  ASSUME mode = "quotes", ReprNext
  PROVE  AddHex \/ AddEscaped \/ AddQuoted \/ Close \/ RefuseClosed \/ RefuseOpen
  BY DEF ReprNext, Write, WriteEnds, InWord, InQuotes, InApostrophes, SkipBlank, BeginToken,
         ReturnTokens, EndWord, OpenQuotes, OpenApostrophes, AddToWord, AddApostrophe,
         AddInApostrophes, ReprDone

\* Within quotes, each form of a byte is read as the byte.
LEMMA ReadsByte ==
  ASSUME mode = "quotes", ReprNext, NEW x \in Octet, NEW q, q = ByteRepr(x),
         Here = q[1], Len(q) >= 2 => Following = q[2],
         Len(q) >= 4 => ByteAt(cursor + 2) = q[3] /\ ByteAt(cursor + 3) = q[4]
  PROVE  Adds(x, Len(q))
  <1>1. CASE PlainForm(x)
    <2>1. x \notin {0, Backslash, DoubleQuote} /\ q = <<x>> /\ Here = x
      BY <1>1 DEF PlainForm
    <2>2. AddQuoted
      BY <2>1, QuotesStep DEF AddHex, HexEscape, AddEscaped, Close, RefuseClosed, Closing, RefuseOpen
    <2>3. Adds(x, 1) /\ Len(q) = 1
      BY <2>1, <2>2 DEF AddQuoted
    <2>. QED
      BY <2>3
  <1>2. CASE EscapedForm(x)
    <2>1. PICK c \in Octet \ {0, X} : Unescaped(c) = x /\ q = <<Backslash, c>>
      BY <1>2 DEF EscapedForm
    <2>2. Here = Backslash /\ Following = c /\ c # 0 /\ c # X /\ Len(q) = 2
      BY <2>1
    <2>3. Backslash # 0 /\ Backslash # DoubleQuote
      BY DEF Backslash, DoubleQuote
    <2>4. AddEscaped
      BY <2>2, <2>3, QuotesStep DEF AddHex, HexEscape, AddQuoted, Close, RefuseClosed, Closing, RefuseOpen
    <2>. QED
      BY <2>1, <2>2, <2>4 DEF AddEscaped
  <1>3. CASE HexForm(x)
    <2>1. PICK h \in Octet, l \in Octet :
            /\ IsHexDigit(h) /\ IsHexDigit(l) /\ Code(HexDigitToInt(h), HexDigitToInt(l)) = x
            /\ q = <<Backslash, X, h, l>>
      BY <1>3 DEF HexForm
    <2>2. /\ Here = Backslash /\ Following = X /\ Len(q) = 4
          /\ ByteAt(cursor + 2) = h /\ ByteAt(cursor + 3) = l
      BY <2>1
    <2>3. Backslash # 0 /\ Backslash # DoubleQuote /\ X # 0
      BY DEF Backslash, DoubleQuote, X
    <2>4. AddHex
      BY <2>1, <2>2, <2>3, QuotesStep
      DEF HexEscape, AddEscaped, AddQuoted, Close, RefuseClosed, Closing, RefuseOpen
    <2>. QED
      BY <2>1, <2>2, <2>4 DEF AddHex
  <1>. QED
    BY <1>1, <1>2, <1>3, FormsOfByte

LEMMA ReadsQuotes ==
  ASSUME NEW at, Places(at), LineLies(at), Reading(at),
         argv \in Seq(Seq(Octet)), line \in Seq(Octet), mode = "quotes", ReprNext
  PROVE  Reading(at)'
  <1>1. PICK m \in Nat, k \in Nat, n \in Nat :
          m = Len(vector) /\ k = m + 1 /\ n = Len(argv) /\ m + 1 <= n /\ k \in 1..Len(argv)
    <2>1. PICK m \in Nat, n \in Nat : m = Len(vector) /\ n = Len(argv) /\ m + 1 <= n
      BY LenProperties DEF Reading
    <2>2. m + 1 \in Nat /\ m + 1 \in 1..n
      BY <2>1
    <2>. QED
      BY <2>1, <2>2
  <1>2. /\ vector \in Seq(Seq(Octet)) /\ current \in Seq(Octet)
        /\ \A i \in 1..m : vector[i] = argv[i]
        /\ Len(current) <= Len(argv[k]) /\ cursor = at[k][Len(current) + 1]
        /\ \A i \in 1..Len(current) : current[i] = argv[k][i]
    BY <1>1 DEF Reading
  <1>3. PICK v \in Nat : v = Len(argv[k]) /\ Pieces(k) = 0..v + 1 /\ argv[k] \in Seq(Octet)
    BY <1>1, ArgumentIs
  <1>4. PICK c \in Nat, b \in Nat : c = Len(current) /\ c <= v /\ b = c + 1 /\ b \in Pieces(k)
    <2>1. PICK c \in Nat : c = Len(current) /\ c <= v
      BY <1>2, <1>3, LenProperties
    <2>2. c + 1 \in Nat /\ c + 1 \in 0..v + 1
      BY <2>1
    <2>. QED
      BY <1>3, <2>1, <2>2
  <1>5. PICK q \in Seq(Octet) : q = Repr(k, b)
    BY <1>1, <1>4, ReprIs
  <1>6. /\ NextPlace(at, k, b) = cursor + Len(q) /\ Here = q[1]
        /\ Len(q) >= 2 => Following = q[2]
        /\ Len(q) >= 4 => ByteAt(cursor + 2) = q[3] /\ ByteAt(cursor + 3) = q[4]
    <2>1. cursor = at[k][b] /\ k \in 1..Len(argv) /\ b \in Pieces(k)
      BY <1>1, <1>2, <1>4
    <2>2. /\ NextPlace(at, k, b) = cursor + Len(Repr(k, b)) /\ Here = Repr(k, b)[1]
          /\ Len(Repr(k, b)) >= 2 => Following = Repr(k, b)[2]
          /\ Len(Repr(k, b)) >= 4 => /\ ByteAt(cursor + 2) = Repr(k, b)[3]
                                     /\ ByteAt(cursor + 3) = Repr(k, b)[4]
      BY <2>1, FindsPiece
    <2>. QED
      BY <1>5, <2>2
  <1>7. b # 0
    BY <1>4
  <1>8. CASE b <= v
    <2>1. PICK x \in Octet : x = argv[k][b]
      <3>1. b \in 1..v
        BY <1>4, <1>8
      <3>. QED
        BY <1>3, <3>1, ElementOfSeq
    <2>2. q = ByteRepr(x)
      BY <1>3, <1>5, <1>7, <1>8, <2>1 DEF Repr
    <2>3. Adds(x, Len(q))
      BY <1>6, <2>2, ReadsByte
    <2>4. /\ cursor' = NextPlace(at, k, b) /\ current' = Append(current, x) /\ mode' = "quotes"
          /\ UNCHANGED <<argv, vector>>
      BY <1>6, <2>3 DEF Adds, Goes
    <2>5. NextPlace(at, k, b) = at[k][b + 1]
      BY <1>3, <1>8 DEF NextPlace
    <2>6. /\ current' \in Seq(Octet) /\ Len(current') = b
          /\ \A i \in 1..c : current'[i] = current[i]
          /\ current'[b] = x
      BY <1>2, <1>4, <2>4, AppendProperties
    <2>7. ASSUME NEW i \in 1..b PROVE current'[i] = argv[k][i]
      <3>1. CASE i = b
        BY <2>1, <2>6, <3>1
      <3>2. CASE i # b
        <4>1. i \in 1..c
          BY <1>4, <3>2
        <4>. QED
          BY <1>2, <1>4, <2>6, <4>1
      <3>. QED
        BY <3>1, <3>2
    <2>8. cursor' = at[k][Len(current') + 1]
      BY <2>4, <2>5, <2>6
    <2>9. Len(current') <= Len(argv[k]) /\ k <= Len(argv)
      BY <1>1, <1>3, <1>8, <2>6
    <2>10. k = Len(vector) + 1 /\ Len(vector) <= Len(argv)
      BY <1>1
    <2>. QED
      BY <1>1, <1>2, <2>4, <2>6, <2>7, <2>8, <2>9, <2>10 DEF Reading
  <1>9. CASE ~(b <= v)
    <2>1. q = <<DoubleQuote, Blank>> /\ Len(q) = 2
      BY <1>3, <1>5, <1>7, <1>9 DEF Repr
    <2>2. Here = DoubleQuote /\ Following = Blank
      BY <1>6, <2>1
    <2>3. DoubleQuote # 0 /\ DoubleQuote # Backslash /\ IsSpace(Blank)
      BY DEF DoubleQuote, Backslash, IsSpace
    <2>4. Close
      BY <2>2, <2>3, QuotesStep
      DEF AddHex, HexEscape, AddEscaped, AddQuoted, RefuseClosed, CanClose, RefuseOpen
    <2>5. /\ vector' = Append(vector, current) /\ current' = <<>> /\ cursor' = cursor + 1
          /\ mode' = "blanks" /\ UNCHANGED argv
      BY <2>4 DEF Close, TokenEnds
    <2>6. current = argv[k]
      <3>1. Len(current) = Len(argv[k])
        BY <1>3, <1>4, <1>9
      <3>. QED
        BY <1>2, <1>3, <3>1, SeqEqual
    <2>7. /\ vector' \in Seq(Seq(Octet)) /\ Len(vector') = k
          /\ \A i \in 1..m : vector'[i] = vector[i]
          /\ vector'[k] = argv[k]
      BY <1>1, <1>2, <2>5, <2>6, AppendProperties
    <2>8. ASSUME NEW i \in 1..k PROVE vector'[i] = argv[i]
      <3>1. CASE i = k
        BY <2>7, <3>1
      <3>2. CASE i # k
        <4>1. i \in 1..m
          BY <1>1, <3>2
        <4>. QED
          BY <1>2, <2>7, <4>1
      <3>. QED
        BY <3>1, <3>2
    <2>9. cursor' = at[k + 1][0] - 1 /\ k + 1 > 1
      <3>1. at[k + 1][0] = cursor + 2
        BY <1>3, <1>6, <1>9, <2>1 DEF NextPlace
      <3>2. PICK y \in Nat : y = cursor
        BY <1>2, <1>4, PlaceIs
      <3>3. k + 1 > 1 /\ y + 1 = y + 2 - 1
        BY <1>1
      <3>. QED
        BY <2>5, <3>1, <3>2, <3>3
    <2>10. current' \in Seq(Octet) /\ Len(vector') <= Len(argv') /\ Len(vector') + 1 = k + 1
      BY <1>1, <2>5, <2>7
    <2>. QED
      BY <2>5, <2>7, <2>8, <2>9, <2>10 DEF Reading
  <1>. QED
    BY <1>8, <1>9

LEMMA ReadIsDone ==
  ASSUME mode = "read", ReprNext
  PROVE  UNCHANGED reprVars
  BY DEF ReprNext, Write, WriteEnds, InWord, InQuotes, InApostrophes, SkipBlank, BeginToken,
         ReturnTokens, EndWord, OpenQuotes, OpenApostrophes, AddToWord, AddHex, AddEscaped,
         AddQuoted, AddApostrophe, AddInApostrophes, Close, RefuseClosed, Closing, RefuseOpen,
         ReprDone

LEMMA ReprKeeps ==
  ASSUME ReprInv, [ReprNext]_reprVars PROVE ReprInv'
  <1>1. CASE UNCHANGED reprVars
    <2>1. UNCHANGED <<quoted, argv, arg, nth, line, cursor, current, vector, mode>>
      BY <1>1 DEF reprVars
    <2>2. ASSUME NEW at, Places(at), LineGrows(at) PROVE LineGrows(at)'
      <3>1. ASSUME NEW a \in 1..Len(argv'), NEW b \in Pieces(a)',
                   a < arg' \/ (a = arg' /\ b < nth')
            PROVE  PieceLies(at, a, b)'
        <4>1. PieceLies(at, a, b)
          BY <2>1, <2>2, <3>1 DEF LineGrows, Pieces
        <4>2. Repr(a, b)' = Repr(a, b) /\ NextPlace(at, a, b)' = NextPlace(at, a, b)
          BY <2>1 DEF Repr, NextPlace
        <4>. QED
          BY <2>1, <4>1, <4>2 DEF PieceLies
      <3>2. /\ arg' \in 1..Len(argv') + 1
            /\ nth' \in (IF arg' <= Len(argv') THEN Pieces(arg)' ELSE {0})
            /\ at[1][0] = 1 /\ at[arg'][nth'] = Len(line') + 1
            /\ cursor' = 1 /\ current' = <<>> /\ vector' = <<>>
        BY <2>1, <2>2 DEF LineGrows, Pieces
      <3>. QED
        BY <3>1, <3>2 DEF LineGrows
    <2>3. ASSUME NEW at, Reading(at) PROVE Reading(at)'
      BY <2>1, <2>3 DEF Reading
    <2>. QED
      BY <2>1, <2>2, <2>3, LineStays DEF ReprInv
  <1>2. CASE Write \/ WriteEnds
    BY <1>2, Writes, WritingEnds
  <1>3. CASE ReprNext /\ mode # "writing"
    <2>1. /\ line \in Seq(Octet) /\ argv \in Seq(Seq(Octet))
          /\ UNCHANGED <<quoted, argv, line>> /\ mode' # "writing"
          /\ cursor' \in 1..Len(line') + 1
      BY <1>3, StaysInLine DEF ReprInv
    <2>2. CASE quoted
      <3>1. PICK at : Places(at) /\ LineLies(at) /\ Reading(at)
        BY <1>3, <2>2 DEF ReprInv
      <3>2. LineLies(at)'
        BY <2>1, <3>1, LineStays
      <3>3. mode \in {"blanks", "word", "quotes", "read"}
        BY <3>1 DEF Reading
      <3>4. CASE mode = "read"
        BY <1>1, <1>3, <3>4, ReadIsDone
      <3>5. CASE mode # "read"
        <4>1. Reading(at)'
          BY <1>3, <2>1, <3>1, <3>3, <3>5, ReadsBlank, ReadsWord, ReadsQuotes
        <4>. QED
          BY <2>1, <3>1, <3>2, <4>1 DEF ReprInv
      <3>. QED
        BY <3>4, <3>5
    <2>3. CASE ~quoted
      BY <2>1, <2>3 DEF ReprInv
    <2>. QED
      BY <2>2, <2>3
  <1>4. ReprNext /\ mode = "writing" => Write \/ WriteEnds
    BY DEF ReprNext, InWord, InQuotes, InApostrophes, SkipBlank, BeginToken,
           ReturnTokens, EndWord, OpenQuotes, OpenApostrophes, AddToWord, AddHex, AddEscaped,
           AddQuoted, AddApostrophe, AddInApostrophes, Close, RefuseClosed, Closing, RefuseOpen,
           ReprDone
  <1>. QED
    BY <1>1, <1>2, <1>3, <1>4

LEMMA ReadIsWritten ==
  ASSUME ReprInv
  PROVE  /\ quoted => mode # "refused" /\ (mode = "read" => vector = argv)
         /\ cursor <= Len(line) + 1
  <1>1. cursor <= Len(line) + 1
    BY LenProperties DEF ReprInv
  <1>2. ASSUME quoted, mode # "writing"
        PROVE  mode # "refused" /\ (mode = "read" => vector = argv)
    <2>1. PICK at : Reading(at)
      BY <1>2 DEF ReprInv
    <2>2. mode # "refused"
      BY <2>1 DEF Reading
    <2>3. ASSUME mode = "read" PROVE vector = argv
      <3>1. /\ vector \in Seq(Seq(Octet)) /\ argv \in Seq(Seq(Octet))
            /\ \A k \in 1..Len(vector) : vector[k] = argv[k]
            /\ Len(vector) + 1 = Len(argv) + 1
        BY <2>1, <2>3 DEF Reading, ReprInv
      <3>2. Len(vector) = Len(argv)
        BY <3>1, LenProperties
      <3>. QED
        BY <3>1, <3>2, SeqEqual
    <2>. QED
      BY <2>2, <2>3
  <1>. QED
    BY <1>1, <1>2
-----------------------------------------------------------------------------
(* The digits of a number: an invariant of the division and of the sum, in *)
(* which both go through the same quotients.                               *)

\* The numbers that the conversion divides, the first one being the magnitude
Quotients(h) ==
  /\ Len(h) >= 1 /\ h[1] = Magnitude(value)
  /\ \A k \in 1..Len(h) - 1 : h[k + 1] = h[k] \div 10

SignLength == IF value < 0 THEN 1 ELSE 0

\* The digits from the right, before they are reversed
Divided(h) ==
  /\ Len(digits) = Len(h) - 1 /\ dividend = h[Len(h)]
  /\ \A k \in 1..Len(digits) : digits[k] = Zero + (h[k] % 10)
  /\ sum = 0 /\ digit = 1
  /\ converting = "signing" => h[Len(h)] = 0

\* ... and from the left, after it: the sum goes through the quotients backwards.
Summed(h) ==
  /\ h[Len(h)] = 0 /\ Len(digits) = Len(h) - 1 + SignLength
  /\ value < 0 => digits[1] = Minus
  /\ \A k \in 1..Len(h) - 1 : digits[SignLength + k] = Zero + (h[Len(h) - k] % 10)
  /\ digit \in 1..Len(digits) + 1
  /\ sum = IF digit = 1 THEN 0 ELSE h[Len(digits) + 2 - digit]
  /\ converting = "summed" => digit = Len(digits) + 1 /\ digit # 1

NumberInv ==
  /\ value \in Numbers /\ digits \in Seq(Nat)
  /\ converting \in {"dividing", "signing", "summing", "summed"}
  /\ \E h \in Seq(Nat) :
       /\ Quotients(h) /\ (converting # "dividing" => Len(h) >= 2)
       /\ IF converting \in {"dividing", "signing"} THEN Divided(h) ELSE Summed(h)
-----------------------------------------------------------------------------
LEMMA MagnitudeIs ==
  ASSUME value \in Numbers
  PROVE  Magnitude(value) \in Nat /\ Magnitude(value) = IF value < 0 THEN -value ELSE value
  <1>1. Width \in Nat /\ Width > 0 /\ value \in -(Width \div 2)..Width - 1
    BY TextAssumption
  <1>2. CASE value < 0
    <2>1. PICK m \in Nat : m = -value
      BY <1>1, <1>2
    <2>2. m < Width /\ 0 <= m
      BY <1>1, <1>2, <2>1
    <2>3. m % Width = m
      BY <1>1, <2>2
    <2>. QED
      BY <1>2, <2>1, <2>3 DEF Magnitude
  <1>3. CASE ~(value < 0)
    BY <1>1, <1>3 DEF Magnitude
  <1>. QED
    BY <1>2, <1>3

LEMMA NumberStarts ==
  ASSUME NumberInit PROVE NumberInv
  <1>1. value \in Numbers /\ Magnitude(value) \in Nat
    BY MagnitudeIs DEF NumberInit
  <1>2. PICK h : h = <<Magnitude(value)>>
    OBVIOUS
  <1>3. h \in Seq(Nat) /\ Len(h) = 1 /\ h[1] = Magnitude(value)
    BY <1>1, <1>2
  <1>4. Quotients(h) /\ Divided(h)
    BY <1>3 DEF Quotients, Divided, NumberInit
  <1>. QED
    BY <1>1, <1>3, <1>4 DEF NumberInv, NumberInit

LEMMA DigitIs ==
  ASSUME NEW n \in Nat
  PROVE  /\ n % 10 \in 0..9 /\ n \div 10 \in Nat /\ n = 10 * (n \div 10) + (n % 10)
         /\ Zero + (n % 10) \in Nat /\ Zero + (n % 10) # Minus
  <1>1. n % 10 \in 0..9 /\ n \div 10 \in Nat
    OBVIOUS
  <1>2. n = 10 * (n \div 10) + (n % 10)
    OBVIOUS
  <1>3. PICK d \in 0..9 : d = n % 10
    BY <1>1
  <1>4. Zero + d \in Nat /\ Zero + d # Minus
    BY DEF Zero, Minus
  <1>5. Zero + (n % 10) \in Nat /\ Zero + (n % 10) # Minus
    BY <1>3, <1>4
  <1>. QED
    BY <1>1, <1>2, <1>5

LEMMA Divides ==
  ASSUME NumberInv, Divide PROVE NumberInv'
  <1>1. PICK h \in Seq(Nat) : Quotients(h) /\ Divided(h)
    BY DEF NumberInv, Divide
  <1>2. PICK n \in Nat : n = Len(h) /\ n >= 1
    BY <1>1, LenProperties DEF Quotients
  <1>3. dividend \in Nat /\ dividend = h[n]
    BY <1>1, <1>2, ElementOfSeq DEF Divided
  <1>4. dividend \div 10 \in Nat /\ Zero + (dividend % 10) \in Nat
    BY <1>3, DigitIs
  <1>5. PICK g : g = Append(h, dividend')
    OBVIOUS
  <1>6. /\ g \in Seq(Nat) /\ Len(g) = n + 1 /\ g[n + 1] = dividend'
        /\ \A k \in 1..n : g[k] = h[k]
    BY <1>2, <1>4, <1>5, AppendProperties DEF Divide
  <1>7. /\ digits' \in Seq(Nat) /\ Len(digits') = n
        /\ digits'[n] = Zero + (dividend % 10)
        /\ \A k \in 1..n - 1 : digits'[k] = digits[k]
    <2>1. Len(digits) = n - 1 /\ digits \in Seq(Nat)
      BY <1>1, <1>2 DEF Divided, NumberInv
    <2>. QED
      BY <1>2, <1>4, <2>1, AppendProperties DEF Divide
  <1>8. Quotients(g)'
    <2>1. ASSUME NEW k \in 1..n PROVE g[k + 1] = g[k] \div 10
      <3>1. CASE k = n
        BY <1>2, <1>3, <1>6, <3>1 DEF Divide
      <3>2. CASE k # n
        <4>1. k \in 1..n - 1 /\ k + 1 \in 1..n
          BY <1>2, <3>2
        <4>2. h[k + 1] = h[k] \div 10
          BY <1>1, <1>2, <4>1 DEF Quotients
        <4>. QED
          BY <1>6, <4>1, <4>2
      <3>. QED
        BY <3>1, <3>2
    <2>2. g[1] = Magnitude(value)
      BY <1>1, <1>2, <1>6 DEF Quotients
    <2>. QED
      BY <1>2, <1>6, <2>1, <2>2 DEF Quotients, Magnitude, Divide
  <1>9. Divided(g)'
    <2>1. ASSUME NEW k \in 1..n PROVE digits'[k] = Zero + (g[k] % 10)
      <3>1. CASE k = n
        BY <1>2, <1>3, <1>6, <1>7, <3>1
      <3>2. CASE k # n
        <4>1. k \in 1..n - 1
          BY <1>2, <3>2
        <4>. QED
          BY <1>1, <1>2, <1>6, <1>7, <4>1 DEF Divided
      <3>. QED
        BY <3>1, <3>2
    <2>2. sum' = 0 /\ digit' = 1 /\ (converting' = "signing" => dividend' = 0)
      BY <1>1 DEF Divided, Divide
    <2>. QED
      BY <1>6, <1>7, <2>1, <2>2 DEF Divided
  <1>10. converting' \in {"dividing", "signing"} /\ value' = value
    BY DEF Divide
  <1>. QED
    BY <1>2, <1>6, <1>7, <1>8, <1>9, <1>10 DEF NumberInv

LEMMA Signs ==
  ASSUME NumberInv, Sign PROVE NumberInv'
  <1>1. PICK h \in Seq(Nat) : Quotients(h) /\ Divided(h) /\ Len(h) >= 2
    BY DEF NumberInv, Sign
  <1>2. PICK n \in Nat : n = Len(h) - 1 /\ n >= 1
    BY <1>1, LenProperties
  <1>3. digits \in Seq(Nat) /\ Len(digits) = n /\ Minus \in Nat
    BY <1>1, <1>2 DEF NumberInv, Divided, Minus
  <1>. DEFINE sign == IF value < 0 THEN <<Minus>> ELSE <<>>
  <1>4. sign \in Seq(Nat) /\ Len(sign) = SignLength /\ SignLength \in {0, 1}
    BY <1>3 DEF SignLength
  <1>. DEFINE both == digits \o sign
  <1>5. /\ both \in Seq(Nat) /\ Len(both) = n + SignLength
        /\ \A k \in 1..n : both[k] = digits[k]
        /\ value < 0 => both[n + 1] = Minus
    BY <1>3, <1>4, ConcatProperties DEF SignLength
  <1>6. digits' = Reverse(both) /\ value' = value /\ converting' = "summing" /\ sum' = 0 /\ digit' = 1
    BY <1>1 DEF Sign, Divided
  <1>. HIDE DEF both
  <1>8. PICK m \in Nat : m = n + SignLength /\ m >= 1
    BY <1>2, <1>4
  <1>7. digits' = [k \in 1..Len(both) |-> both[(Len(both) - k) + 1]]
    BY <1>6 DEF Reverse
  <1>9. digits' \in Seq(Nat) /\ Len(digits') = m /\ \A k \in 1..m : digits'[k] = both[m - k + 1]
    <2>1. digits' = [k \in 1..m |-> both[(m - k) + 1]]
      BY <1>5, <1>7, <1>8
    <2>2. ASSUME NEW k \in 1..m PROVE both[(m - k) + 1] \in Nat /\ (m - k) + 1 = m - k + 1
      <3>1. (m - k) + 1 \in 1..Len(both)
        BY <1>5, <1>8
      <3>. QED
        BY <1>5, <3>1, ElementOfSeq
    <2>3. digits' \in [1..m -> Nat]
      BY <2>1, <2>2
    <2>4. digits' \in Seq(Nat) /\ Len(digits') = m
      BY <2>3
    <2>. QED
      BY <2>1, <2>2, <2>4
  <1>10. SignLength' = SignLength
    BY <1>6 DEF SignLength
  <1>11. value < 0 => digits'[1] = Minus
    <2>. SUFFICES ASSUME value < 0 PROVE digits'[1] = Minus
      OBVIOUS
    <2>1. SignLength = 1 /\ m = n + 1 /\ 1 \in 1..m /\ m - 1 + 1 = n + 1
      BY <1>2, <1>8 DEF SignLength
    <2>. QED
      BY <1>5, <1>9, <2>1
  <1>12. ASSUME NEW k \in 1..n
         PROVE  digits'[SignLength + k] = Zero + (h[n + 1 - k] % 10)
    <2>1. SignLength + k \in 1..m /\ m - (SignLength + k) + 1 = n + 1 - k /\ n + 1 - k \in 1..n
      BY <1>2, <1>4, <1>8
    <2>. QED
      BY <1>1, <1>3, <1>5, <1>9, <2>1 DEF Divided
  <1>13. Summed(h)'
    <2>1. h[Len(h)] = 0
      BY <1>1 DEF Divided, Sign
    <2>2. digit' \in 1..Len(digits') + 1 /\ Len(digits') = Len(h) - 1 + SignLength
      BY <1>2, <1>6, <1>8, <1>9, <1>1
    <2>3. Len(h) - 1 = n /\ \A k \in 1..n : Len(h) - k = n + 1 - k
      BY <1>1, <1>2
    <2>. QED
      BY <1>6, <1>10, <1>11, <1>12, <2>1, <2>2, <2>3 DEF Summed
  <1>14. Quotients(h)'
    BY <1>1, <1>6 DEF Quotients, Magnitude
  <1>. QED
    BY <1>1, <1>6, <1>9, <1>13, <1>14 DEF NumberInv

LEMMA SumsUp ==
  ASSUME NumberInv, SumUp PROVE NumberInv'
  <1>1. PICK h \in Seq(Nat) : Quotients(h) /\ Summed(h) /\ Len(h) >= 2
    BY DEF NumberInv, SumUp
  <1>2. PICK n \in Nat : n = Len(h) - 1 /\ n >= 1
    BY <1>1, LenProperties
  <1>3. PICK shift \in {0, 1} : shift = SignLength
    BY DEF SignLength
  <1>4. /\ Len(digits) = n + shift /\ digit \in 1..n + shift /\ digits \in Seq(Nat)
        /\ h[n + 1] = 0 /\ Len(h) = n + 1
        /\ digit' = digit + 1
    <2>1. Len(digits) = n + shift /\ digit \in 1..Len(digits) + 1 /\ Len(h) = n + 1 /\ h[n + 1] = 0
      BY <1>1, <1>2, <1>3, LenProperties DEF Summed
    <2>. QED
      BY <2>1, <1>2 DEF SumUp, NumberInv
  <1>5. UNCHANGED <<value, dividend, digits, converting>> /\ converting = "summing"
    BY DEF SumUp
  <1>6. sum' = h[Len(digits) + 2 - digit']
    <2>1. CASE shift = 1 /\ digit = 1
      <3>1. value < 0 /\ digits[digit] = Minus
        BY <1>1, <1>3, <2>1 DEF SignLength, Summed
      <3>2. sum = 0 /\ sum' = sum
        BY <1>1, <2>1, <3>1 DEF SumUp, Summed
      <3>. QED
        BY <1>2, <1>4, <2>1, <3>2
    <2>2. CASE ~(shift = 1 /\ digit = 1)
      <3>1. PICK k \in 1..n : digit = shift + k
        <4>1. PICK d \in Nat : d = digit /\ d >= 1 /\ d <= n + shift
          BY <1>2, <1>4
        <4>2. ~(shift = 1 /\ d = 1)
          BY <2>2, <4>1
        <4>3. d - shift \in 1..n /\ d = shift + (d - shift)
          <5>1. CASE shift = 0
            BY <4>1, <5>1
          <5>2. CASE shift = 1
            BY <4>1, <4>2, <5>2
          <5>. QED
            BY <5>1, <5>2
        <4>. QED
          BY <4>1, <4>3
      <3>2. PICK i \in 1..n : i = n + 1 - k
        <4>1. n + 1 - k \in 1..n
          BY <1>2
        <4>. QED
          BY <4>1
      <3>3. digits[digit] = Zero + (h[i] % 10)
        BY <1>1, <1>2, <1>3, <1>4, <3>1, <3>2 DEF Summed
      <3>4. h[i] \in Nat /\ h[i + 1] = h[i] \div 10
        <4>1. i \in 1..Len(h) /\ i \in 1..Len(h) - 1
          BY <1>4
        <4>. QED
          BY <1>1, <4>1, ElementOfSeq DEF Quotients
      <3>5. sum = h[i + 1]
        <4>1. CASE digit = 1
          <5>1. k = 1 /\ shift = 0 /\ i + 1 = n + 1
            BY <1>2, <2>2, <3>1, <3>2, <4>1
          <5>. QED
            BY <1>1, <1>4, <4>1, <5>1 DEF Summed
        <4>2. CASE digit # 1
          <5>1. Len(digits) + 2 - digit = i + 1
            <6>1. n + shift + 2 - (shift + k) = i + 1
              BY <3>2
            <6>. QED
              BY <1>4, <3>1, <6>1
          <5>. QED
            BY <1>1, <4>2, <5>1 DEF Summed
        <4>. QED
          BY <4>1, <4>2
      <3>6. digits[digit] # Minus /\ digits[digit] - Zero = h[i] % 10
        BY <3>3, <3>4, DigitIs DEF Zero
      <3>7. sum' = 10 * sum + digits[digit] - Zero
        BY <3>6 DEF SumUp
      <3>8. sum' = 10 * (h[i] \div 10) + (h[i] % 10)
        <4>1. PICK d \in Nat, r \in Nat : d = h[i] \div 10 /\ r = h[i] % 10
          BY <3>4, DigitIs
        <4>2. sum' = 10 * d + (48 + r) - 48
          BY <3>3, <3>4, <3>5, <3>7, <4>1 DEF Zero
        <4>3. 10 * d + (48 + r) - 48 = 10 * d + r
          BY <4>1
        <4>. QED
          BY <4>1, <4>2, <4>3
      <3>9. sum' = h[i]
        BY <3>4, <3>8, DigitIs
      <3>10. Len(digits) + 2 - digit' = i
        <4>1. n + shift + 2 - (shift + k + 1) = i
          BY <3>2
        <4>. QED
          BY <1>4, <3>1, <4>1
      <3>. QED
        BY <3>9, <3>10
    <2>. QED
      BY <2>1, <2>2
  <1>7. Summed(h)'
    <2>1. digit' \in 1..Len(digits) + 1 /\ digit' # 1
      BY <1>2, <1>4
    <2>. QED
      BY <1>1, <1>5, <1>6, <2>1 DEF Summed, SignLength
  <1>8. Quotients(h)'
    BY <1>1, <1>5 DEF Quotients, Magnitude
  <1>. QED
    BY <1>1, <1>5, <1>7, <1>8 DEF NumberInv

LEMMA NumberKeeps ==
  ASSUME NumberInv, [NumberNext]_numberVars PROVE NumberInv'
  <1>1. CASE SumEnds
    <2>1. PICK h \in Seq(Nat) : Quotients(h) /\ Summed(h) /\ Len(h) >= 2
      BY <1>1 DEF NumberInv, SumEnds
    <2>2. UNCHANGED <<value, dividend, digits, sum, digit>> /\ converting' = "summed"
      BY <1>1 DEF SumEnds
    <2>3. digit = Len(digits) + 1 /\ digit # 1
      <3>1. Len(h) \in Nat /\ Len(digits) = Len(h) - 1 + SignLength /\ digit \in 1..Len(digits) + 1
        BY <2>1, LenProperties DEF Summed
      <3>2. digit > Len(digits)
        BY <1>1 DEF SumEnds
      <3>. QED
        BY <2>1, <3>1, <3>2 DEF SignLength
    <2>4. Quotients(h)' /\ Summed(h)'
      BY <2>1, <2>2, <2>3 DEF Quotients, Magnitude, Summed, SignLength
    <2>. QED
      BY <2>1, <2>2, <2>4 DEF NumberInv
  <1>2. CASE UNCHANGED numberVars
    BY <1>2 DEF NumberInv, numberVars, Quotients, Magnitude, Divided, Summed, SignLength
  <1>3. CASE NumberDone
    BY <1>2, <1>3 DEF NumberDone
  <1>. QED
    BY <1>1, <1>2, <1>3, Divides, Signs, SumsUp DEF NumberNext

\* The last of the quotients that the sum goes through is the magnitude.
LEMMA SumIsNumber ==
  ASSUME NumberInv, converting = "summed"
  PROVE  /\ sum = (IF value < 0 THEN -value ELSE value)
         /\ \A k \in DOMAIN digits : digits[k] = Minus <=> (k = 1 /\ value < 0)
  <1>1. PICK h \in Seq(Nat) : Quotients(h) /\ Summed(h) /\ Len(h) >= 2
    BY DEF NumberInv
  <1>2. PICK n \in Nat : n = Len(h) - 1 /\ n >= 1
    BY <1>1, LenProperties
  <1>3. PICK shift \in {0, 1} : shift = SignLength
    BY DEF SignLength
  <1>4. Len(digits) = n + shift /\ digit = n + shift + 1 /\ digits \in Seq(Nat)
    BY <1>1, <1>2, <1>3 DEF Summed, NumberInv
  <1>5. sum = h[1]
    <2>1. Len(digits) + 2 - digit = 1 /\ digit # 1
      BY <1>2, <1>4
    <2>. QED
      BY <1>1, <2>1 DEF Summed
  <1>6. h[1] = IF value < 0 THEN -value ELSE value
    BY <1>1, MagnitudeIs DEF NumberInv, Quotients
  <1>7. ASSUME NEW k \in 1..n + shift
        PROVE  digits[k] = Minus <=> (k = 1 /\ value < 0)
    <2>1. CASE k <= shift
      BY <1>1, <1>3, <2>1 DEF Summed, SignLength
    <2>2. CASE ~(k <= shift)
      <3>1. PICK i \in 1..n : k = shift + i
        <4>1. k - shift \in 1..n /\ k = shift + (k - shift)
          BY <1>2, <2>2
        <4>. QED
          BY <4>1
      <3>2. n + 1 - i \in 1..Len(h)
        BY <1>1, <1>2, LenProperties
      <3>3. h[n + 1 - i] \in Nat /\ digits[k] = Zero + (h[n + 1 - i] % 10)
        <4>1. Len(h) - i = n + 1 - i /\ i \in 1..Len(h) - 1
          BY <1>1, <1>2, LenProperties
        <4>. QED
          BY <1>1, <1>3, <3>1, <3>2, <4>1, ElementOfSeq DEF Summed
      <3>4. digits[k] # Minus
        BY <3>3, DigitIs
      <3>5. ~(k = 1 /\ value < 0)
        BY <1>3, <3>1 DEF SignLength
      <3>. QED
        BY <3>4, <3>5
    <2>. QED
      BY <2>1, <2>2
  <1>. QED
    BY <1>4, <1>5, <1>6, <1>7
-----------------------------------------------------------------------------
(* What sdscatrepr has written sdssplitargs reads back, and the digits of a
   number have its value: for every list of strings and every number of the
   widest type. *)
THEOREM TextIsReadBack == ReprSpec /\ NumberSpec => []TextIsRead
  <1>1. ReprInit => ReprInv
    BY ReprStarts
  <1>2. ReprInv /\ [ReprNext]_reprVars => ReprInv'
    BY ReprKeeps
  <1>3. NumberInit => NumberInv
    BY NumberStarts
  <1>4. NumberInv /\ [NumberNext]_numberVars => NumberInv'
    BY NumberKeeps
  <1>5. ReprInv /\ NumberInv => TextIsRead
    BY ReadIsWritten, SumIsNumber DEF TextIsRead
  <1>. QED
    BY <1>1, <1>2, <1>3, <1>4, <1>5, PTL DEF ReprSpec, NumberSpec
=============================================================================
