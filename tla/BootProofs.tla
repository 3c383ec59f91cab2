------------------------------ MODULE BootProofs ----------------------------
(***************************************************************************)
(* The kernel comes up right on every board whose memory holds the         *)
(* partition, and what its file commands show is right whatever was done   *)
(* since: the drivers have the addresses of their devices, ls shows the    *)
(* name and the size each file was created with, and cd finds a name if    *)
(* and only if a file bears it.                                            *)
(***************************************************************************)
EXTENDS Boot, StorageProofs

-----------------------------------------------------------------------------
(* The digits of a number.  Those of x are those of Rest(x), and one more. *)
Rest(x) == x \div 10

Put(x, s) == <<x % 10>> \o s

Digits == Seq(0 .. 9)

LEMMA RestFacts ==
  ASSUME NEW x \in Nat
  PROVE  /\ Rest(x) \in Nat /\ (x # 0 => Rest(x) < x)
         /\ x % 10 \in 0 .. 9 /\ x = 10 * Rest(x) + (x % 10)
<1>1. x \div 10 \in Nat
  OBVIOUS
<1>2. x % 10 \in 0 .. 9
  OBVIOUS
<1>3. x = 10 * (x \div 10) + (x % 10)
  OBVIOUS
<1>4. x # 0 => x \div 10 < x
  OBVIOUS
<1> QED BY <1>1, <1>2, <1>3, <1>4 DEF Rest

LEMMA PutFacts ==
  ASSUME NEW x \in Nat, NEW s \in Digits
  PROVE  /\ Put(x, s) \in Digits
         /\ Len(Put(x, s)) = Len(s) + 1
         /\ Put(x, s)[1] = x % 10
         /\ \A i \in 1 .. Len(s) : Put(x, s)[i + 1] = s[i]
<1>1. x % 10 \in 0 .. 9
  OBVIOUS
<1>2. <<x % 10>> \in Digits /\ Len(<<x % 10>>) = 1 /\ Len(s) \in Nat
  BY <1>1 DEF Digits
<1>3. Put(x, s) \in Digits /\ Len(Put(x, s)) = 1 + Len(s)
  BY <1>2, ConcatProperties DEF Put, Digits
<1>4. \A i \in 1 .. 1 + Len(s) :
        Put(x, s)[i] = IF i <= 1 THEN <<x % 10>>[i] ELSE s[i - 1]
  BY <1>2, ConcatProperties DEF Put, Digits
<1>5. Put(x, s)[1] = x % 10
  BY <1>2, <1>4
<1>6. \A i \in 1 .. Len(s) : Put(x, s)[i + 1] = s[i]
  <2> SUFFICES ASSUME NEW i \in 1 .. Len(s) PROVE Put(x, s)[i + 1] = s[i]
    OBVIOUS
  <2>1. i + 1 \in 1 .. 1 + Len(s) /\ ~(i + 1 <= 1) /\ (i + 1) - 1 = i
    BY <1>2
  <2> QED BY <1>4, <2>1
<1> QED BY <1>2, <1>3, <1>5, <1>6

(* g has the digits of the numbers up to m.                                *)
DigitsTo(m, g) ==
  /\ g \in [0 .. m -> Digits]
  /\ \A x \in 0 .. m : g[x] = IF x = 0 THEN <<>> ELSE Put(x, g[Rest(x)])

LEMMA DigitsExist == \A m \in Nat : \E g : DigitsTo(m, g)
<1> DEFINE Bad == {m \in Nat : ~\E g : DigitsTo(m, g)}
<1> SUFFICES ASSUME Bad # {} PROVE FALSE
  OBVIOUS
<1>1. PICK m \in Bad : \A j \in Bad : m <= j
  <2>1. Bad \subseteq Nat
    OBVIOUS
  <2> HIDE DEF Bad
  <2> QED BY <2>1, LeastExists
<1>2. m \in Nat /\ ~(\E g : DigitsTo(m, g)) /\ \A j \in Nat : j < m => \E g : DigitsTo(j, g)
  BY <1>1
<1> HIDE DEF Bad
<1>3. <<>> \in Digits
  BY DEF Digits
<1>4. CASE m = 0
  <2> DEFINE g == [i \in 0 .. 0 |-> <<>>]
  <2>1. g \in [0 .. 0 -> Digits] /\ \A x \in 0 .. 0 : g[x] = <<>> /\ x = 0
    BY <1>3
  <2> HIDE DEF g
  <2>2. DigitsTo(0, g)
    BY <2>1 DEF DigitsTo
  <2> QED BY <1>2, <1>4, <2>2
<1>5. CASE m # 0
  <2>1. m - 1 \in Nat /\ m - 1 < m /\ \A i \in 0 .. m : i \in 0 .. m - 1 \/ i = m
    BY <1>2, <1>5
  <2>2. PICK f : DigitsTo(m - 1, f)
    BY <1>2, <2>1
  <2>3. Rest(m) \in 0 .. m - 1
    BY <1>2, <1>5, RestFacts
  <2> DEFINE g == [i \in 0 .. m |-> IF i = m THEN Put(m, f[Rest(m)]) ELSE f[i]]
  <2>4. \A i \in 0 .. m - 1 : g[i] = f[i] /\ f[i] \in Digits
    <3>1. \A i \in 0 .. m - 1 : i \in 0 .. m /\ i # m
      BY <1>2
    <3>2. \A i \in 0 .. m - 1 : f[i] \in Digits
      BY <2>2 DEF DigitsTo
    <3> QED BY <3>1, <3>2
  <2>5. g[m] = Put(m, f[Rest(m)])
    BY <1>2
  <2>6. g[m] = Put(m, g[Rest(m)])
    BY <2>3, <2>4, <2>5
  <2>7. g[m] \in Digits
    BY <1>2, <2>3, <2>4, <2>5, PutFacts
  <2>8. g \in [0 .. m -> Digits]
    <3>1. \A i \in 0 .. m : g[i] \in Digits
      <4> HIDE DEF g
      <4> QED BY <2>1, <2>4, <2>7
    <3> QED BY <3>1
  <2> HIDE DEF g
  <2>9. ASSUME NEW x \in 0 .. m PROVE g[x] = IF x = 0 THEN <<>> ELSE Put(x, g[Rest(x)])
    <3>1. CASE x = m
      BY <1>5, <2>6, <3>1
    <3>2. CASE x # m
      <4>1. x \in 0 .. m - 1
        BY <2>1, <3>2
      <4>2. f[x] = IF x = 0 THEN <<>> ELSE Put(x, f[Rest(x)])
        BY <2>2, <4>1 DEF DigitsTo
      <4>3. x # 0 => Rest(x) \in 0 .. m - 1
        BY <2>1, <4>1, RestFacts
      <4> QED BY <2>4, <4>1, <4>2, <4>3
    <3> QED BY <3>1, <3>2
  <2>10. DigitsTo(m, g)
    BY <2>8, <2>9 DEF DigitsTo
  <2> QED BY <1>2, <2>10
<1> QED BY <1>4, <1>5

LEMMA DigitsAgree ==
  ASSUME NEW m \in Nat, NEW g, DigitsTo(m, g), NEW n \in Nat, NEW h, DigitsTo(n, h),
         NEW x \in Nat, x <= m, x <= n
  PROVE  g[x] = h[x]
<1> DEFINE Bad == {y \in Nat : y <= m /\ y <= n /\ g[y] # h[y]}
<1> SUFFICES ASSUME Bad # {} PROVE FALSE
  OBVIOUS
<1>1. PICK y \in Bad : \A j \in Bad : y <= j
  <2>1. Bad \subseteq Nat
    OBVIOUS
  <2> HIDE DEF Bad
  <2> QED BY <2>1, LeastExists
<1>2. y \in 0 .. m /\ y \in 0 .. n /\ g[y] # h[y]
  BY <1>1
<1>3. /\ g[y] = IF y = 0 THEN <<>> ELSE Put(y, g[Rest(y)])
      /\ h[y] = IF y = 0 THEN <<>> ELSE Put(y, h[Rest(y)])
  BY <1>2 DEF DigitsTo
<1>4. y # 0
  BY <1>2, <1>3
<1>5. Rest(y) \in Nat /\ Rest(y) < y
  BY <1>2, <1>4, RestFacts
<1>6. Rest(y) <= m /\ Rest(y) <= n /\ ~(y <= Rest(y))
  BY <1>2, <1>5
<1>7. g[Rest(y)] = h[Rest(y)]
  BY <1>1, <1>5, <1>6
<1> QED BY <1>2, <1>3, <1>4, <1>7

LEMMA DigitsOf ==
  \A x \in Nat : revbuf[x] = IF x = 0 THEN <<>> ELSE Put(x, revbuf[Rest(x)])
<1> DEFINE E(f) == [x \in Nat |-> IF x = 0 THEN <<>> ELSE <<x % 10>> \o f[x \div 10]]
           d(x) == CHOOSE g : DigitsTo(x, g)
           f == [x \in Nat |-> d(x)[x]]
<1>1. \A x \in Nat : DigitsTo(x, d(x))
  BY DigitsExist
<1> HIDE DEF d
<1>2. ASSUME NEW x \in Nat PROVE f[x] = IF x = 0 THEN <<>> ELSE Put(x, f[Rest(x)])
  <2>1. d(x)[x] = IF x = 0 THEN <<>> ELSE Put(x, d(x)[Rest(x)])
    BY <1>1 DEF DigitsTo
  <2>2. ASSUME x # 0 PROVE d(x)[Rest(x)] = f[Rest(x)]
    <3>1. Rest(x) \in Nat /\ Rest(x) <= x /\ Rest(x) <= Rest(x)
      BY <2>2, RestFacts
    <3>2. DigitsTo(x, d(x)) /\ DigitsTo(Rest(x), d(Rest(x)))
      BY <1>1, <3>1
    <3>3. d(x)[Rest(x)] = d(Rest(x))[Rest(x)]
      BY <3>1, <3>2, DigitsAgree
    <3> QED BY <3>1, <3>3
  <2> QED BY <2>1, <2>2
<1>3. f = E(f)
  <2>1. \A x \in Nat : E(f)[x] = IF x = 0 THEN <<>> ELSE Put(x, f[Rest(x)])
    <3> HIDE DEF f
    <3> QED BY DEF Put, Rest
  <2>2. \A x \in Nat : E(f)[x] = f[x]
    <3> HIDE DEF E, f
    <3> QED BY <1>2, <2>1
  <2> QED BY <2>2
<1>4. revbuf = E(revbuf)
  <2>1. \E g : g = E(g)
    BY <1>3
  <2>2. revbuf = CHOOSE g : g = E(g)
    BY DEF revbuf
  <2> QED BY <2>1, <2>2
<1>5. \A x \in Nat : E(revbuf)[x] = IF x = 0 THEN <<>> ELSE Put(x, revbuf[Rest(x)])
  BY DEF Put, Rest
<1> QED BY <1>4, <1>5

(* v has the numbers that the digits r, taken from the last, begin.        *)
ValueFrom(r, v) ==
  /\ v \in [0 .. Len(r) -> Nat]
  /\ v[0] = 0
  /\ \A n \in 1 .. Len(r) : v[n] = 10 * v[n - 1] + r[Len(r) - n + 1]

(* The digits r of x, the lowest first.                                    *)
Spells(r, x) ==
  /\ r \in Digits
  /\ IF x = 0 THEN Len(r) = 0 ELSE Len(r) > 0 /\ r[Len(r)] # 0
  /\ \E v : ValueFrom(r, v) /\ v[Len(r)] = x

LEMMA EmptySpells == Spells(<<>>, 0)
<1> DEFINE v == [i \in 0 .. 0 |-> 0]
<1>1. v \in [0 .. 0 -> Nat] /\ v[0] = 0 /\ 1 .. 0 = {}
  OBVIOUS
<1>2. <<>> \in Digits /\ Len(<<>>) = 0
  BY DEF Digits
<1> HIDE DEF v
<1>3. ValueFrom(<<>>, v)
  BY <1>1, <1>2 DEF ValueFrom
<1> QED BY <1>1, <1>2, <1>3 DEF Spells

LEMMA PutSpells ==
  ASSUME NEW x \in Nat, x # 0, NEW r, Spells(r, Rest(x))
  PROVE  Spells(Put(x, r), x)
<1> DEFINE l == Len(r)
           q == Put(x, r)
           y == Rest(x)
           z == x % 10
<1>1. y \in Nat /\ y < x /\ z \in 0 .. 9 /\ x = 10 * y + z
  BY RestFacts
<1>2. r \in Digits /\ l \in Nat
  BY DEF Spells, Digits
<1>3. /\ q \in Digits /\ Len(q) = l + 1 /\ q[1] = z
      /\ \A i \in 1 .. l : q[i + 1] = r[i]
  BY <1>2, PutFacts
<1>4. PICK v : ValueFrom(r, v) /\ v[l] = y
  BY DEF Spells
<1>5. IF y = 0 THEN l = 0 ELSE l > 0 /\ r[l] # 0
  BY DEF Spells
<1> HIDE DEF q, y, z
<1> DEFINE u == [i \in 0 .. l + 1 |-> IF i = l + 1 THEN x ELSE v[i]]
<1>6. \A i \in 0 .. l : u[i] = v[i] /\ v[i] \in Nat
  <2> HIDE DEF l
  <2>1. \A i \in 0 .. l : i \in 0 .. l + 1 /\ i # l + 1
    BY <1>2
  <2>2. \A i \in 0 .. l : v[i] \in Nat
    BY <1>4 DEF ValueFrom, l
  <2> QED BY <2>1, <2>2
<1>7. u[l + 1] = x
  BY <1>2
<1> HIDE DEF l
<1>8. \A i \in 0 .. l + 1 : i \in 0 .. l \/ i = l + 1
  BY <1>2
<1>9. u \in [0 .. l + 1 -> Nat]
  <2>1. \A i \in 0 .. l + 1 : u[i] \in Nat
    <3> HIDE DEF u
    <3> QED BY <1>6, <1>7, <1>8
  <2> QED BY <2>1
<1> HIDE DEF u
<1>10. u[0] = 0
  <2>1. 0 \in 0 .. l
    BY <1>2
  <2> QED BY <1>4, <1>6, <2>1 DEF ValueFrom
<1>11. ASSUME NEW n \in 1 .. l + 1 PROVE u[n] = 10 * u[n - 1] + q[(l + 1) - n + 1]
  <2>1. CASE n = l + 1
    <3>1. n - 1 = l /\ l \in 0 .. l /\ (l + 1) - n + 1 = 1
      BY <1>2, <2>1
    <3>2. u[n] = x /\ u[n - 1] = y /\ q[(l + 1) - n + 1] = z
      BY <1>3, <1>4, <1>6, <1>7, <2>1, <3>1
    <3> QED BY <1>1, <3>2
  <2>2. CASE n # l + 1
    <3>1. /\ n \in 1 .. l /\ n \in 0 .. l /\ n - 1 \in 0 .. l
          /\ l - n + 1 \in 1 .. l /\ (l + 1) - n + 1 = (l - n + 1) + 1
      BY <1>2, <2>2
    <3>2. v[n] = 10 * v[n - 1] + r[l - n + 1]
      BY <1>4, <3>1 DEF ValueFrom, l
    <3>3. q[(l + 1) - n + 1] = r[l - n + 1]
      BY <1>3, <3>1
    <3>4. u[n] = v[n] /\ u[n - 1] = v[n - 1]
      BY <1>6, <3>1
    <3> QED BY <3>2, <3>3, <3>4
  <2> QED BY <2>1, <2>2
<1>12. ValueFrom(q, u)
  BY <1>3, <1>9, <1>10, <1>11 DEF ValueFrom
<1>13. q[l + 1] # 0
  <2>1. CASE l = 0
    <3>1. y = 0
      BY <1>5, <2>1
    <3>2. z = x
      BY <1>1, <3>1
    <3> QED BY <1>3, <2>1, <3>2
  <2>2. CASE l # 0
    <3>1. l \in 1 .. l /\ r[l] # 0
      BY <1>2, <1>5, <2>2
    <3> QED BY <1>3, <3>1
  <2> QED BY <2>1, <2>2
<1>14. u[Len(q)] = x /\ Len(q) > 0 /\ q[Len(q)] # 0
  BY <1>2, <1>3, <1>7, <1>13
<1> QED BY <1>3, <1>12, <1>14 DEF Spells, q

LEMMA RevbufSpells == \A x \in Nat : Spells(revbuf[x], x)
<1> DEFINE Bad == {x \in Nat : ~Spells(revbuf[x], x)}
<1> SUFFICES ASSUME Bad # {} PROVE FALSE
  OBVIOUS
<1>1. PICK x \in Bad : \A j \in Bad : x <= j
  <2>1. Bad \subseteq Nat
    OBVIOUS
  <2> HIDE DEF Bad
  <2> QED BY <2>1, LeastExists
<1>2. x \in Nat /\ ~Spells(revbuf[x], x) /\ \A j \in Nat : j < x => Spells(revbuf[j], j)
  BY <1>1
<1>3. revbuf[x] = IF x = 0 THEN <<>> ELSE Put(x, revbuf[Rest(x)])
  BY <1>2, DigitsOf
<1>4. x # 0
  BY <1>2, <1>3, EmptySpells
<1>5. Rest(x) \in Nat /\ Rest(x) < x
  BY <1>2, <1>4, RestFacts
<1>6. Spells(revbuf[Rest(x)], Rest(x))
  BY <1>2, <1>5
<1> QED BY <1>2, <1>3, <1>4, <1>6, PutSpells

(* The value of a sequence of digits is the one number its first digits    *)
(* lead to.                                                                *)
LEMMA NumberIs ==
  ASSUME NEW s, Len(s) \in Nat, NEW v \in [0 .. Len(s) -> Nat], v[0] = 0,
         \A n \in 1 .. Len(s) : v[n] = 10 * v[n - 1] + s[n]
  PROVE  Number(s) = v[Len(s)]
<1> DEFINE l == Len(s)
           E(f) == [n \in 0 .. l |-> IF n = 0 THEN 0 ELSE 10 * f[n - 1] + s[n]]
           w == CHOOSE f : f = E(f)
<1>1. v = E(v)
  <2>1. ASSUME NEW n \in 0 .. l PROVE v[n] = E(v)[n]
    <3>1. CASE n = 0
      BY <3>1
    <3>2. CASE n # 0
      <4>1. n \in 1 .. l
        BY <3>2
      <4> QED BY <3>2, <4>1
    <3> QED BY <3>1, <3>2
  <2>2. DOMAIN v = 0 .. l /\ DOMAIN E(v) = 0 .. l
    OBVIOUS
  <2> QED BY <2>1
<1>2. w = E(w)
  BY <1>1
<1>3. Number(s) = w[l]
  BY DEF Number
<1> HIDE DEF w
<1>4. w[0] = 0 /\ \A n \in 0 .. l : n # 0 => w[n] = 10 * w[n - 1] + s[n]
  <2>1. 0 \in 0 .. l
    OBVIOUS
  <2>2. E(w)[0] = 0 /\ \A n \in 0 .. l : n # 0 => E(w)[n] = 10 * w[n - 1] + s[n]
    BY <2>1
  <2> HIDE DEF E
  <2> QED BY <1>2, <2>2
<1> HIDE DEF E
<1>5. \A n \in 0 .. l : w[n] = v[n]
  <2> DEFINE Bad == {n \in 0 .. l : w[n] # v[n]}
  <2> SUFFICES ASSUME Bad # {} PROVE FALSE
    OBVIOUS
  <2>1. PICK n \in Bad : \A j \in Bad : n <= j
    <3>1. Bad \subseteq Nat
      OBVIOUS
    <3> HIDE DEF Bad
    <3> QED BY <3>1, LeastExists
  <2>2. n # 0
    BY <1>4, <2>1
  <2>3. n - 1 \in 0 .. l /\ n \in 1 .. l /\ n - 1 \notin Bad
    BY <2>1, <2>2
  <2>4. w[n - 1] = v[n - 1]
    BY <2>3
  <2>5. w[n] = 10 * w[n - 1] + s[n] /\ v[n] = 10 * v[n - 1] + s[n]
    BY <1>4, <2>2, <2>3
  <2> QED BY <2>1, <2>4, <2>5
<1> QED BY <1>3, <1>5

(* What printInt shows is the number, without leading zeros.               *)
LEMMA PrintedRight ==
  ASSUME NEW x \in Nat
  PROVE  /\ Number(printInt(x)) = x
         /\ printInt(x)[1] = 0 => Len(printInt(x)) = 1
<1>1. CASE x = 0
  <2> DEFINE s == <<0>>
             v == [i \in 0 .. 1 |-> 0]
  <2>1. Len(s) = 1 /\ s[1] = 0
    OBVIOUS
  <2>2. v \in [0 .. 1 -> Nat] /\ v[0] = 0 /\ v[1] = 0
    OBVIOUS
  <2> HIDE DEF s, v
  <2>3. \A n \in 1 .. 1 : v[n] = 10 * v[n - 1] + s[n]
    BY <2>1, <2>2
  <2>4. Number(s) = v[1]
    <3>1. /\ Len(s) \in Nat
          /\ v \in [0 .. Len(s) -> Nat] /\ v[0] = 0
          /\ \A n \in 1 .. Len(s) : v[n] = 10 * v[n - 1] + s[n]
      BY <2>1, <2>2, <2>3
    <3>2. Number(s) = v[Len(s)]
      BY <3>1, NumberIs
    <3> QED BY <2>1, <3>2
  <2>5. printInt(x) = s
    BY <1>1 DEF printInt, s
  <2> QED BY <1>1, <2>1, <2>2, <2>4, <2>5
<1>2. CASE x # 0
  <2> DEFINE r == revbuf[x]
             s == Seqs!Reverse(r)
             l == Len(r)
  <2>1. r \in Digits /\ l > 0 /\ r[l] # 0
    BY <1>2, RevbufSpells DEF Spells
  <2>2. PICK v : ValueFrom(r, v) /\ v[l] = x
    BY RevbufSpells DEF Spells
  <2>3. printInt(x) = s
    BY <1>2 DEF printInt, int_to_string
  <2> HIDE DEF r
  <2>4. l \in Nat /\ r \in Seq(0 .. 9)
    BY <2>1 DEF Digits
  <2>5. Len(s) = l /\ \A n \in 1 .. l : s[n] = r[l - n + 1]
    <3>1. s = [n \in 1 .. l |-> r[(l - n) + 1]]
      BY DEF Seqs!Reverse
    <3>2. \A n \in 1 .. l : r[(l - n) + 1] \in 0 .. 9
      BY <2>4
    <3>3. s \in Seq(0 .. 9)
      BY <2>4, <3>1, <3>2, SeqDef
    <3>4. Len(s) \in Nat /\ DOMAIN s = 1 .. Len(s)
      BY <3>3, LenProperties
    <3>5. DOMAIN s = 1 .. l
      BY <3>1
    <3>6. \A n \in 1 .. l : s[n] = r[l - n + 1]
      BY <3>1
    <3> HIDE DEF s, l
    <3>7. Len(s) = l
      <4> DEFINE k == Len(s)
      <4>1. k \in Nat /\ l \in Nat /\ 1 .. k = 1 .. l
        BY <2>4, <3>4, <3>5
      <4> HIDE DEF k
      <4>2. l = 0 \/ l \in 1 .. k
        BY <4>1
      <4>3. k = 0 \/ k \in 1 .. l
        BY <4>1
      <4>4. k = l
        BY <4>1, <4>2, <4>3
      <4> QED BY <4>4 DEF k
    <3> QED BY <3>6, <3>7
  <2> HIDE DEF s
  <2>6. s[1] # 0
    <3>1. 1 \in 1 .. l /\ l - 1 + 1 = l
      BY <2>1, <2>4
    <3> QED BY <2>1, <2>5, <3>1
  <2>7. Number(s) = v[l]
    <3>1. /\ v \in [0 .. l -> Nat] /\ v[0] = 0
          /\ \A n \in 1 .. l : v[n] = 10 * v[n - 1] + s[n]
      BY <2>2, <2>5 DEF ValueFrom
    <3> QED BY <2>4, <2>5, <3>1, NumberIs
  <2> QED BY <2>2, <2>3, <2>6, <2>7
<1> QED BY <1>1, <1>2

-----------------------------------------------------------------------------
(* Names.                                                                  *)

(* A block's name, attributes and size are what its creator asked for.     *)
Described(f) ==
  /\ name[f] = Clean(created[f].name)
  /\ attributes[f] = created[f].attributes
  /\ size[f] = created[f].size

AllDescribed ==
  \A f \in Sector : f \in listed \/ (f = held /\ held # 0) => Described(f)

FieldsTyped ==
  /\ refs \in [Sector -> Seq(Sector)]
  /\ next \in [Sector -> Sector] /\ parent \in [Sector -> Sector]
  /\ DOMAIN name = Sector /\ DOMAIN attributes = Sector /\ DOMAIN created = Sector

(* What the callers of the file system rely on between two of its calls.   *)
FilesInv == DirectoryInv /\ FieldsTyped /\ AllDescribed

LEMMA FilesFacts ==
  ASSUME FilesInv
  PROVE  /\ SectorInv /\ listed \subseteq Headers /\ listed \subseteq Sector
         /\ held \in Sector /\ held \notin listed
         /\ held # 0 => held \in Headers
<1>1. DirectoryInv
  BY DEF FilesInv
<1>2. PICK n \in Nat : \E c : Directory(n, c)
  BY <1>1 DEF DirectoryInv
<1>3. PICK c : Directory(n, c)
  BY <1>2
<1>4. /\ SectorInv /\ listed \subseteq Headers /\ listed \subseteq Sector
      /\ held \in Sector /\ held \notin listed /\ Accounted(n, c)
  BY <1>1, <1>3, DirectoryFacts
<1>5. held # 0 => held \in Headers
  BY <1>4 DEF Accounted
<1> QED BY <1>4, <1>5

(* A file keeps what describes it when nothing of it is written.           *)
LEMMA DescribedSame ==
  ASSUME NEW f, Described(f), name'[f] = name[f], attributes'[f] = attributes[f],
         created'[f] = created[f], size'[f] = size[f]
  PROVE  Described(f)'
BY DEF Described, Clean

LEMMA FieldsKept ==
  ASSUME FieldsTyped, DirectoryInv',
         DOMAIN name' = Sector, DOMAIN attributes' = Sector, DOMAIN created' = Sector
  PROVE  FieldsTyped'
BY DEF FieldsTyped, DirectoryInv, DirectoryTypeOK

(* The calls that create a file or a directory.                            *)
LEMMA CreatedDescribed ==
  ASSUME FilesInv, DirectoryInv', NEW s \in Sizes, NEW string, NEW kind,
         fsAllocate(s), held = 0, held' = result', listed' = listed,
         Describe(result', string, kind), Asked(result', string, kind, s)
  PROVE  FilesInv'
<1>1. /\ SectorInv /\ listed \subseteq Headers /\ listed \subseteq Sector
  BY FilesFacts
<1>2. PICK h : h = result'
  OBVIOUS
<1>3. /\ h \in Sector /\ h # 0 /\ h \notin Headers
      /\ size'[h] = s /\ \A g \in Headers : size'[g] = size[g]
  BY <1>1, <1>2, Allocated
<1>4. /\ name' = [name EXCEPT ![h] = Clean(string)]
      /\ attributes' = [attributes EXCEPT ![h] = kind]
      /\ created' = [created EXCEPT ![h] = [name |-> string, attributes |-> kind, size |-> s]]
  BY <1>2 DEF Describe, Asked
<1>5. DOMAIN name = Sector /\ DOMAIN attributes = Sector /\ DOMAIN created = Sector
  BY DEF FilesInv, FieldsTyped
<1>6. DOMAIN name' = Sector /\ DOMAIN attributes' = Sector /\ DOMAIN created' = Sector
  BY <1>4, <1>5
<1>7. FieldsTyped'
  BY <1>6, FieldsKept DEF FilesInv
<1>8. Described(h)'
  <2>1. /\ name'[h] = Clean(string) /\ attributes'[h] = kind
        /\ created'[h] = [name |-> string, attributes |-> kind, size |-> s]
    BY <1>3, <1>4, <1>5
  <2> QED BY <1>3, <2>1 DEF Described, Clean
<1>9. ASSUME NEW f \in listed PROVE Described(f)'
  <2>1. f \in Sector /\ f # h /\ size'[f] = size[f]
    BY <1>1, <1>3
  <2>2. name'[f] = name[f] /\ attributes'[f] = attributes[f] /\ created'[f] = created[f]
    BY <1>4, <1>5, <2>1
  <2>3. Described(f)
    BY <2>1 DEF FilesInv, AllDescribed
  <2> QED BY <2>1, <2>2, <2>3, DescribedSame
<1>10. AllDescribed'
  BY <1>2, <1>8, <1>9 DEF AllDescribed
<1> QED BY <1>7, <1>10 DEF FilesInv

(* The calls that leave every name as it is, and the sizes of the files    *)
(* that stay.                                                              *)
LEMMA NamesKept ==
  ASSUME FilesInv, DirectoryInv', UNCHANGED nameVars,
         \A f \in Sector : f \in listed' \/ (f = held' /\ held' # 0) =>
           (f \in listed \/ (f = held /\ held # 0)) /\ size'[f] = size[f]
  PROVE  FilesInv'
<1>1. name' = name /\ attributes' = attributes /\ created' = created
  BY DEF nameVars
<1>2. FieldsTyped'
  BY <1>1, FieldsKept DEF FilesInv, FieldsTyped
<1>3. ASSUME NEW f \in Sector, f \in listed' \/ (f = held' /\ held' # 0)
      PROVE  Described(f)'
  <2>1. Described(f) /\ size'[f] = size[f]
    BY <1>3 DEF FilesInv, AllDescribed
  <2> QED BY <1>1, <2>1, DescribedSame
<1>4. AllDescribed'
  BY <1>3 DEF AllDescribed
<1> QED BY <1>2, <1>4 DEF FilesInv

LEMMA AddedDescribed ==
  ASSUME FilesInv, fsDirectoryAddFile
  PROVE  FilesInv'
<1>1. /\ SectorInv /\ listed \subseteq Headers /\ listed \subseteq Sector
      /\ held # 0 => held \in Headers
  BY FilesFacts
<1>2. AddFile /\ created' = created
  BY DEF fsDirectoryAddFile, AddExtent, AddNoExtent, AddFile
<1>3. DirectoryInv'
  BY <1>2, DirectoryStep DEF DirectoryNext, FilesInv
<1>4. held # 0 /\ held' = 0 /\ listed' = listed \cup {held}
  BY <1>2 DEF AddFile, AddToDirectory, AddToExtent, AddFirstExtent, AddNextExtent,
     AddFirstExtentFails, AddNextExtentFails, Listed
<1>5. CASE AddNoExtent
  <2>1. size' = size
    BY <1>5 DEF AddNoExtent, AddToDirectory, AddToExtent, AddFirstExtentFails,
       AddNextExtentFails, fsAllocateFails, sectorVars
  <2>2. UNCHANGED nameVars
    BY <1>2, <1>5 DEF AddNoExtent, nameVars
  <2> QED BY <1>3, <1>4, <2>1, <2>2, NamesKept
<1>6. CASE AddExtent
  <2>1. fsAllocate(DirSize) /\ Describe(result', EXTENT, "E")
    BY <1>6 DEF AddExtent, AddFirstExtent, AddNextExtent
  <2>2. PICK h : h = result'
    OBVIOUS
  <2>3. DirSize \in Sizes
    BY SectorsAssumption
  <2>4. /\ h \in Sector /\ h \notin Headers
        /\ \A g \in Headers : size'[g] = size[g]
    BY <1>1, <2>1, <2>2, <2>3, Allocated
  <2>5. /\ name' = [name EXCEPT ![h] = Clean(EXTENT)]
        /\ attributes' = [attributes EXCEPT ![h] = "E"]
    BY <2>1, <2>2 DEF Describe
  <2>6. DOMAIN name = Sector /\ DOMAIN attributes = Sector /\ DOMAIN created = Sector
    BY DEF FilesInv, FieldsTyped
  <2>7. FieldsTyped'
    BY <1>2, <1>3, <2>5, <2>6, FieldsKept DEF FilesInv
  <2>8. ASSUME NEW f \in Sector, f \in listed \/ f = held PROVE Described(f)'
    <3>1. f \in Headers /\ f # h /\ size'[f] = size[f]
      BY <1>1, <1>4, <2>4, <2>8
    <3>2. name'[f] = name[f] /\ attributes'[f] = attributes[f]
      BY <2>5, <2>6, <3>1
    <3>3. Described(f)
      BY <1>4, <2>8 DEF FilesInv, AllDescribed
    <3> QED BY <1>2, <3>1, <3>2, <3>3, DescribedSame
  <2>9. AllDescribed'
    BY <1>4, <2>8 DEF AllDescribed
  <2> QED BY <1>3, <2>7, <2>9 DEF FilesInv
<1> QED BY <1>5, <1>6 DEF fsDirectoryAddFile

LEMMA RemovedDescribed ==
  ASSUME FilesInv, NEW f \in listed, fsDirectoryRemoveFile(f)
  PROVE  FilesInv'
<1>1. /\ SectorInv /\ listed \subseteq Headers /\ listed \subseteq Sector
      /\ held \notin listed
  BY FilesFacts
<1>2. RemoveFile(f) /\ UNCHANGED nameVars
  BY DEF fsDirectoryRemoveFile
<1>3. DirectoryInv'
  BY <1>2, DirectoryStep DEF DirectoryNext, FilesInv
<1>4. PICK k \in 0 .. MaxHops : RemoveEntry(k, f) \/ RemoveExtent(k, f)
  BY <1>2 DEF RemoveFile
<1> DEFINE d == Hop[k]
<1>5. /\ listed' = listed \ {f} /\ held' = held /\ d # 0
      /\ size' = [size EXCEPT ![f] = 0] \/ size' = [size EXCEPT ![f] = 0, ![d] = 0]
  BY <1>4 DEF RemoveEntry, RemoveExtent, FoundIn, Holds, fsFileDelete, fsFree
<1>6. d \in Hops
  BY <1>5 DEF Hops
<1>7. d \notin listed /\ d # held
  BY <1>6, InvBlocksAccounted DEF FilesInv, BlocksAccounted
<1> HIDE DEF d
<1>8. size \in [Sector -> Sizes \cup {0}]
  BY <1>1 DEF SectorInv, TypeOK
<1>9. \A g \in Sector : g \notin {f, d} => size'[g] = size[g]
  BY <1>5, <1>8
<1> QED BY <1>1, <1>2, <1>3, <1>5, <1>7, <1>9, NamesKept

(* Every call of the file system keeps the invariant.                      *)
LEMMA CallsKept ==
  ASSUME FilesInv
  PROVE  /\ \A string : \A s \in Sizes : fsFileCreate(string, s) => FilesInv'
         /\ \A s \in Sizes : fsFileCreateFails(s) => FilesInv'
         /\ \A string : fsDirectoryCreate(string) => FilesInv'
         /\ fsDirectoryCreateFails => FilesInv'
<1> USE DEF FilesInv
<1>1. ASSUME NEW string, NEW s \in Sizes, fsFileCreate(string, s) PROVE FilesInv'
  <2>1. DirectoryInv'
    BY <1>1, DirectoryStep DEF fsFileCreate, DirectoryNext
  <2> HIDE DEF FilesInv
  <2> QED BY <1>1, <2>1, CreatedDescribed DEF fsFileCreate, CreateFile
<1>2. ASSUME NEW s \in Sizes, fsFileCreateFails(s) PROVE FilesInv'
  <2>1. DirectoryInv'
    BY <1>2, DirectoryStep DEF fsFileCreateFails, DirectoryNext
  <2>2. UNCHANGED nameVars /\ size' = size /\ held' = held /\ listed' = listed
    BY <1>2 DEF fsFileCreateFails, CreateFileFails, fsAllocateFails, callerVars
  <2> HIDE DEF FilesInv
  <2> QED BY <2>1, <2>2, NamesKept
<1>3. ASSUME NEW string, fsDirectoryCreate(string) PROVE FilesInv'
  <2>1. DirectoryInv' /\ DirSize \in Sizes
    BY <1>3, DirectoryStep, SectorsAssumption DEF fsDirectoryCreate, DirectoryNext
  <2> HIDE DEF FilesInv
  <2> QED BY <1>3, <2>1, CreatedDescribed DEF fsDirectoryCreate, CreateDirectory
<1>4. ASSUME fsDirectoryCreateFails PROVE FilesInv'
  <2>1. DirectoryInv'
    BY <1>4, DirectoryStep DEF fsDirectoryCreateFails, DirectoryNext
  <2>2. UNCHANGED nameVars /\ size' = size /\ held' = held /\ listed' = listed
    BY <1>4 DEF fsDirectoryCreateFails, CreateDirectoryFails, fsAllocateFails, callerVars
  <2> HIDE DEF FilesInv
  <2> QED BY <2>1, <2>2, NamesKept
<1> HIDE DEF FilesInv
<1> QED BY <1>1, <1>2, <1>3, <1>4

-----------------------------------------------------------------------------
(* What the commands show.                                                 *)
LEMMA InvFoundByName ==
  ASSUME FilesInv, Usable, NEW string
  PROVE  LET f == fsDirectoryFindByName(string)
             bearers == {g \in listed : Clean(created[g].name) = Clean(string)}
         IN  IF bearers = {} THEN f = 0 ELSE f \in bearers
<1> DEFINE v == vfsList
           bears(n) == name[v[n]] = Clean(string)
           bearers == {g \in listed : Clean(created[g].name) = Clean(string)}
           first(n) == bears(n) /\ \A m \in 1 .. n - 1 : ~bears(m)
           f == fsDirectoryFindByName(string)
<1>1. PICK m \in Nat : v \in Bijection(1 .. m, listed) /\ DOMAIN v = 1 .. m
  BY Shown DEF FilesInv, Usable, fsDeviceOpen
<1>2. /\ \A n \in 1 .. m : v[n] \in listed
      /\ \A g \in listed : \E n \in 1 .. m : v[n] = g
  BY <1>1 DEF Bijection, Injection, Surjection
<1>3. ASSUME NEW g \in listed PROVE name[g] = Clean(created[g].name)
  BY FilesFacts DEF FilesInv, AllDescribed, Described
<1>4. f = IF \E n \in DOMAIN v : bears(n) THEN v[CHOOSE n \in DOMAIN v : first(n)] ELSE 0
  BY DEF fsDirectoryFindByName, fsFileGetName
<1> HIDE DEF v, f
<1>5. CASE \E n \in 1 .. m : bears(n)
  <2>1. \E n \in 1 .. m : first(n)
    <3> DEFINE S == {n \in 1 .. m : bears(n)}
    <3>1. S \subseteq Nat /\ S # {}
      BY <1>5
    <3>2. PICK n \in S : \A j \in S : n <= j
      <4> HIDE DEF S
      <4> QED BY <3>1, LeastExists
    <3>3. n \in 1 .. m /\ bears(n)
      BY <3>2
    <3>4. ASSUME NEW j \in 1 .. n - 1 PROVE ~bears(j)
      <4>1. j \in 1 .. m /\ ~(n <= j)
        BY <3>3
      <4>2. j \notin S
        BY <3>2, <4>1
      <4> QED BY <4>1, <4>2
    <3> QED BY <3>3, <3>4
  <2> DEFINE n == CHOOSE n \in 1 .. m : first(n)
  <2>2. n \in 1 .. m /\ bears(n)
    BY <2>1
  <2>3. f = v[n]
    BY <1>1, <1>4, <1>5
  <2> HIDE DEF n
  <2>4. v[n] \in listed /\ name[v[n]] = Clean(string)
    BY <1>2, <2>2
  <2>5. f \in bearers
    BY <1>3, <2>3, <2>4
  <2> QED BY <2>5 DEF f
<1>6. CASE ~\E n \in 1 .. m : bears(n)
  <2>1. f = 0
    BY <1>1, <1>4, <1>6
  <2>2. bearers = {}
    BY <1>2, <1>3, <1>6
  <2> QED BY <2>1, <2>2 DEF f
<1> QED BY <1>5, <1>6

LEMMA RowRight ==
  ASSUME FilesInv, NEW f \in listed
  PROVE  IsRowOf(Row(f), created[f])
<1>1. /\ SectorInv /\ listed \subseteq Sector
  BY FilesFacts
<1>2. /\ name[f] = Clean(created[f].name)
      /\ attributes[f] = created[f].attributes
      /\ size[f] = created[f].size
  BY <1>1 DEF FilesInv, AllDescribed, Described
<1>3. size[f] \in Nat
  <2>1. size \in [Sector -> Sizes \cup {0}] /\ f \in Sector
    BY <1>1 DEF SectorInv, TypeOK
  <2>2. Sizes \cup {0} \subseteq Nat
    BY SectorsAssumption
  <2> QED BY <2>1, <2>2
<1>4. /\ Number(printInt(size[f])) = size[f]
      /\ printInt(size[f])[1] = 0 => Len(printInt(size[f])) = 1
  BY <1>3, PrintedRight
<1>5. /\ Row(f).name = name[f]
      /\ Row(f).size = IF attributes[f] = "d" THEN <<>> ELSE printInt(size[f])
  BY DEF Row, fsFileGetName, fsFileGetAttributes, fsFileGetSize
<1> QED BY <1>2, <1>4, <1>5 DEF IsRowOf

LEMMA InvListsAsCreated ==
  ASSUME FilesInv, Usable
  PROVE  /\ Len(functionLS) = Cardinality(listed)
         /\ \A f \in listed :
              /\ IsRowOf(Row(f), created[f])
              /\ Cardinality({n \in DOMAIN functionLS : functionLS[n] = Row(f)})
                   = Cardinality({g \in listed : Row(g) = Row(f)})
<1> DEFINE v == vfsList
           r == functionLS
<1>1. PICK m \in Nat : /\ v \in Bijection(1 .. m, listed) /\ DOMAIN v = 1 .. m
                       /\ Cardinality(listed) = m
  BY Shown DEF FilesInv, Usable, fsDeviceOpen
<1>2. /\ v \in [1 .. m -> listed]
      /\ \A n \in 1 .. m : v[n] \in listed
      /\ \A a, b \in 1 .. m : v[a] = v[b] => a = b
      /\ \A g \in listed : \E n \in 1 .. m : v[n] = g
  BY <1>1 DEF Bijection, Injection, Surjection, IsInjective
<1>3. r = [n \in 1 .. m |-> Row(v[n])]
  BY <1>1 DEF functionLS
<1> HIDE DEF v, r
<1>4. Len(r) = m
  <2>1. r \in Seq({Row(g) : g \in listed})
    BY <1>2, <1>3, SeqDef
  <2>2. DOMAIN r = 1 .. m
    BY <1>3
  <2> QED BY <2>1, <2>2, LenProperties
<1>5. ASSUME NEW f \in listed
      PROVE  Cardinality({n \in DOMAIN r : r[n] = Row(f)})
               = Cardinality({g \in listed : Row(g) = Row(f)})
  <2> DEFINE A == {n \in DOMAIN r : r[n] = Row(f)}
             B == {g \in listed : Row(g) = Row(f)}
             w == [n \in A |-> v[n]]
  <2>1. \A n : n \in A <=> n \in 1 .. m /\ Row(v[n]) = Row(f)
    BY <1>3
  <2>2. IsFiniteSet(A)
    <3>1. A \subseteq 1 .. m
      BY <2>1
    <3>2. IsFiniteSet(1 .. m)
      BY FS_Interval
    <3> QED BY <3>1, <3>2, FS_Subset
  <2>3. \A n \in A : v[n] \in B
    BY <1>2, <2>1
  <2>4. \A g \in B : \E n \in A : v[n] = g
    BY <1>2, <2>1
  <2>5. \A a, b \in A : v[a] = v[b] => a = b
    BY <1>2, <2>1
  <2> HIDE DEF A, B
  <2>6. w \in Bijection(A, B)
    BY <2>3, <2>4, <2>5 DEF Bijection, Injection, Surjection, IsInjective
  <2>7. Cardinality(A) = Cardinality(B)
    BY <2>2, <2>6, FS_Bijection DEF ExistsBijection
  <2> QED BY <2>7 DEF A, B
<1> QED BY <1>1, <1>4, <1>5, RowRight DEF r

-----------------------------------------------------------------------------
(* The phases of the boot.                                                 *)
Phases == {"drivers", "devices", "linking", "console", "memory", "check", "format",
           "files", "commands", "running", "halted"}

(* The rounds a phase has.                                                 *)
Rounds(p) ==
  IF p \in {"drivers", "linking"} THEN Len(Baked)
  ELSE IF p = "devices" THEN NUMBER_OF_PERIPHERALS
  ELSE IF p = "files" THEN Len(BootFiles)
  ELSE IF p = "commands" THEN Len(Commands)
  ELSE 1

PlaceInv == phase \in Phases /\ step \in 1 .. Rounds(phase)

LEMMA RoundsFacts ==
  /\ \A p \in Phases : Rounds(p) \in Nat \ {0} /\ 1 \in 1 .. Rounds(p)
  /\ Rounds("drivers") = Len(Baked) /\ Rounds("linking") = Len(Baked)
  /\ Rounds("devices") = NUMBER_OF_PERIPHERALS
  /\ Rounds("files") = Len(BootFiles) /\ Rounds("commands") = Len(Commands)
  /\ \A p \in {"console", "memory", "check", "format", "running", "halted"} : Rounds(p) = 1
<1>1. /\ Len(Baked) \in Nat \ {0} /\ NUMBER_OF_PERIPHERALS \in Nat \ {0}
      /\ Len(BootFiles) \in Nat \ {0} /\ Len(Commands) \in Nat \ {0}
  BY DevicesAssumption, BootAssumption
<1>2. ASSUME NEW p \in Phases PROVE Rounds(p) \in Nat \ {0}
  BY <1>1 DEF Rounds, Phases
<1>3. \A p \in Phases : 1 \in 1 .. Rounds(p)
  BY <1>2
<1> QED BY <1>2, <1>3 DEF Rounds

LEMMA RoundFacts ==
  ASSUME PlaceInv, NEW p \in Phases, NEW after \in Phases, Round(p, Rounds(p), after)
  PROVE  /\ PlaceInv' /\ phase = p
         /\ \/ step < Rounds(p) /\ phase' = p /\ step' = step + 1
            \/ step = Rounds(p) /\ phase' = after /\ step' = 1
<1>1. phase = p /\ step \in 1 .. Rounds(p)
  BY DEF Round, PlaceInv
<1>2. Rounds(p) \in Nat \ {0} /\ Rounds(after) \in Nat \ {0}
  BY RoundsFacts
<1>3. CASE step < Rounds(p)
  <2>1. phase' = p /\ step' = step + 1
    BY <1>3 DEF Round
  <2>2. step' \in 1 .. Rounds(p)
    BY <1>1, <1>2, <1>3, <2>1
  <2> QED BY <1>1, <1>3, <2>1, <2>2 DEF PlaceInv, Rounds
<1>4. CASE ~(step < Rounds(p))
  <2>1. phase' = after /\ step' = 1 /\ step = Rounds(p)
    BY <1>1, <1>2, <1>4 DEF Round
  <2>2. step' \in 1 .. Rounds(after)
    BY <1>2, <2>1
  <2> QED BY <1>1, <2>1, <2>2 DEF PlaceInv, Rounds
<1> QED BY <1>3, <1>4

LEMMA PlaceStep ==
  ASSUME PlaceInv, BootNext, (phase = "linking" => Len(drivers) = Len(Baked))
  PROVE  PlaceInv'
<1> USE RoundsFacts, RoundFacts DEF Phases
<1>1. CASE InitBakedDrivers
  BY <1>1 DEF InitBakedDrivers
<1>2. CASE InitiateDeviceTable
  <2>1. CASE Round("devices", NUMBER_OF_PERIPHERALS, "linking")
    BY <2>1
  <2>2. CASE Round("linking", Len(drivers), "console")
    <3>1. Len(drivers) = Len(Baked)
      BY <2>2 DEF Round
    <3> QED BY <2>2, <3>1
  <2> QED BY <1>2, <2>1, <2>2 DEF InitiateDeviceTable
<1>3. CASE cliInit
  BY <1>3 DEF cliInit
<1>4. CASE AllocateExternalMemory
  BY <1>4 DEF AllocateExternalMemory
<1>5. CASE CheckMemory
  <2>1. CASE Round("check", 1, "format")
    BY <2>1
  <2>2. CASE kThrow
    BY <2>2 DEF kThrow, PlaceInv
  <2> QED BY <1>5, <2>1, <2>2 DEF CheckMemory
<1>6. CASE kInit
  <2>1. CASE Format
    BY <2>1 DEF Format
  <2>2. CASE CreateBootFile
    BY <2>2 DEF CreateBootFile, PlaceInv, Rounds
  <2>3. CASE AddBootFile
    BY <2>3 DEF AddBootFile
  <2> QED BY <1>6, <2>1, <2>2, <2>3 DEF kInit
<1>7. CASE ConsoleRegisterCommand
  BY <1>7 DEF ConsoleRegisterCommand
<1>8. CASE Use
  BY <1>8 DEF Use, PlaceInv, Rounds
<1>9. CASE Reset
  <2>1. phase' = "drivers" /\ step' = 1 /\ "drivers" \in Phases
    BY <1>9 DEF Reset
  <2>2. 1 \in 1 .. Rounds("drivers")
    OBVIOUS
  <2> QED BY <2>1, <2>2 DEF PlaceInv, Rounds
<1> QED BY <1>1, <1>2, <1>3, <1>4, <1>5, <1>6, <1>7, <1>8, <1>9 DEF BootNext

-----------------------------------------------------------------------------
(* The file system through the boot: the test of memory clears it, the     *)
(* format makes it whole, and only a reset takes that away.                *)
StorageInv ==
  /\ FieldsTyped
  /\ phase \in {"check", "format"} => held = 0 /\ listed = {}
  /\ HasFiles => FilesInv

(* A step that does not use the file system.                               *)
LEMMA StorageSame ==
  ASSUME StorageInv, UNCHANGED filesVars,
         phase' \in {"check", "format"} => phase \in {"check", "format"},
         HasFiles' => HasFiles
  PROVE  StorageInv'
<1>1. UNCHANGED dirVars /\ UNCHANGED nameVars
  BY DEF filesVars
<1>2. /\ refs' = refs /\ next' = next /\ parent' = parent /\ size' = size
      /\ held' = held /\ listed' = listed
      /\ name' = name /\ attributes' = attributes /\ created' = created
  BY <1>1 DEF dirVars, sectorVars, linkVars, callerVars, nameVars
<1>3. FieldsTyped'
  BY <1>2 DEF StorageInv, FieldsTyped
<1>4. ASSUME HasFiles' PROVE FilesInv'
  <2>1. FilesInv
    BY <1>4 DEF StorageInv
  <2>2. DirectoryInv'
    BY <1>1, <2>1, DirectoryStep DEF FilesInv
  <2> QED BY <1>1, <1>2, <2>1, <2>2, NamesKept
<1> QED BY <1>2, <1>3, <1>4 DEF StorageInv

LEMMA RootThere == Init => root \in Sector
BY FormatInv DEF Init, SectorInv, TypeOK

LEMMA FormattedFiles == Init /\ EmptyDirectory /\ FieldsTyped => FilesInv
<1> SUFFICES ASSUME Init, EmptyDirectory, FieldsTyped PROVE FilesInv
  OBVIOUS
<1>1. DirectoryInv
  BY FreshDirectory
<1>2. AllDescribed
  BY DEF EmptyDirectory, AllDescribed
<1> QED BY <1>1, <1>2 DEF FilesInv

LEMMA FormatStarts ==
  ASSUME StorageInv, PlaceInv, Format
  PROVE  /\ FilesInv' /\ phase' = "files" /\ step' = 1
         /\ Init' /\ EmptyDirectory'
<1>1. phase = "format" /\ phase' = "files" /\ step' = 1
  <2>1. Round("format", 1, "files") /\ Rounds("format") = 1
    BY RoundsFacts DEF Format
  <2>2. phase = "format" /\ step = 1
    BY <2>1 DEF PlaceInv, Round
  <2> QED BY <2>1, <2>2 DEF Round
<1>2. held = 0 /\ listed = {} /\ FieldsTyped
  BY <1>1 DEF StorageInv
<1>3. Init'
  <2>1. fsDeviceFormat
    BY DEF Format
  <2> QED BY <2>1 DEF fsDeviceFormat, Init
<1>4. root' \in Sector
  <2>1. Init' => (root \in Sector)'
    BY RootThere, PTL
  <2> QED BY <1>3, <2>1
<1>5. /\ refs' = [refs EXCEPT ![root'] = <<>>]
      /\ next' = [next EXCEPT ![root'] = 0] /\ parent' = [parent EXCEPT ![root'] = 0]
      /\ formatted' = TRUE /\ held' = held /\ listed' = listed
      /\ name' = [name EXCEPT ![root'] = Clean(<<"r", "o", "o", "t">>)]
      /\ attributes' = [attributes EXCEPT ![root'] = "d"]
      /\ created' = created
  BY DEF Format, fsDirectorySetReferenceCount, fsFileSetNextAddress, fsFileSetParentAddress,
     Describe, callerVars
<1>6. 0 \in Sector /\ <<>> \in Seq(Sector)
  BY ZeroSector
<1>7. /\ refs \in [Sector -> Seq(Sector)] /\ next \in [Sector -> Sector]
      /\ parent \in [Sector -> Sector]
      /\ DOMAIN name = Sector /\ DOMAIN attributes = Sector /\ DOMAIN created = Sector
  BY <1>2 DEF FieldsTyped
<1>8. /\ refs' \in [Sector -> Seq(Sector)] /\ next' \in [Sector -> Sector]
      /\ parent' \in [Sector -> Sector] /\ refs'[root'] = <<>> /\ next'[root'] = 0
  BY <1>4, <1>5, <1>6, <1>7
<1>9. DOMAIN name' = Sector /\ DOMAIN attributes' = Sector /\ DOMAIN created' = Sector
  BY <1>5, <1>7
<1>10. EmptyDirectory'
  BY <1>2, <1>5, <1>8 DEF EmptyDirectory
<1>11. FieldsTyped'
  BY <1>8, <1>9 DEF FieldsTyped
<1>12. Init' /\ EmptyDirectory' /\ FieldsTyped' => FilesInv'
  BY FormattedFiles, PTL
<1> QED BY <1>1, <1>3, <1>10, <1>11, <1>12

LEMMA StorageStep ==
  ASSUME PlaceInv, StorageInv, BootNext
  PROVE  StorageInv'
<1> USE DEF HasFiles
<1>1. CASE InitBakedDrivers
  BY <1>1, StorageSame DEF InitBakedDrivers, Round
<1>2. CASE InitiateDeviceTable
  BY <1>2, StorageSame DEF InitiateDeviceTable, Round
<1>3. CASE cliInit
  BY <1>3, StorageSame DEF cliInit, Round
<1>4. CASE AllocateExternalMemory
  <2>1. /\ phase' \in {"memory", "check"} /\ held' = 0 /\ listed' = {}
        /\ UNCHANGED linkVars /\ UNCHANGED nameVars
    BY <1>4 DEF AllocateExternalMemory, Round
  <2>2. FieldsTyped'
    BY <2>1 DEF StorageInv, FieldsTyped, linkVars, nameVars
  <2> QED BY <2>1, <2>2 DEF StorageInv
<1>5. CASE CheckMemory
  BY <1>5, StorageSame DEF CheckMemory, Round, kThrow
<1>6. CASE Format
  <2>1. FilesInv' /\ phase' = "files"
    BY <1>6, FormatStarts
  <2> QED BY <2>1 DEF StorageInv, FilesInv
<1>7. CASE CreateBootFile
  <2> DEFINE f == BootFiles[step]
  <2>1. phase = "files" /\ phase' = phase /\ FilesInv
    BY <1>7 DEF CreateBootFile, StorageInv
  <2>2. f.size \in Sizes
    <3>1. step \in DOMAIN BootFiles
      BY <2>1, RoundsFacts, BootAssumption DEF PlaceInv
    <3> QED BY <3>1, BootAssumption
  <2>3. fsDirectoryCreate(f.name) \/ fsFileCreate(f.name, f.size)
    BY <1>7 DEF CreateBootFile
  <2> HIDE DEF f
  <2>4. FilesInv'
    BY <2>1, <2>2, <2>3, CallsKept
  <2> QED BY <2>1, <2>4 DEF StorageInv, FilesInv
<1>8. CASE AddBootFile
  <2>1. phase = "files" /\ phase' \in {"files", "commands"} /\ fsDirectoryAddFile
    BY <1>8 DEF AddBootFile, Round
  <2>2. FilesInv'
    BY <2>1, AddedDescribed DEF StorageInv
  <2> QED BY <2>1, <2>2 DEF StorageInv, FilesInv
<1>9. CASE ConsoleRegisterCommand
  BY <1>9, StorageSame DEF ConsoleRegisterCommand, Round
<1>10. CASE Use
  <2>1. phase = "running" /\ phase' = phase /\ FilesInv
    BY <1>10 DEF Use, StorageInv
  <2>2. \/ \E n \in Names, s \in Sizes : fsFileCreate(n, s)
        \/ \E s \in Sizes : fsFileCreateFails(s)
        \/ \E n \in Names : fsDirectoryCreate(n)
        \/ fsDirectoryCreateFails
        \/ fsDirectoryAddFile
        \/ \E f \in listed : fsDirectoryRemoveFile(f)
    BY <1>10 DEF Use, Create
  <2>3. FilesInv'
    BY <2>1, <2>2, CallsKept, AddedDescribed, RemovedDescribed
  <2> QED BY <2>1, <2>3 DEF StorageInv, FilesInv
<1>11. CASE Reset
  BY <1>11, StorageSame DEF Reset
<1> QED BY <1>1, <1>2, <1>3, <1>4, <1>5, <1>6, <1>7, <1>8, <1>9, <1>10, <1>11
        DEF BootNext, kInit

-----------------------------------------------------------------------------
(* The tables.                                                             *)
IsList(s, n) == n \in Nat /\ s = [k \in 1 .. n |-> s[k]]

LEMMA ListLength ==
  ASSUME NEW n, NEW s, IsList(s, n)
  PROVE  Len(s) = n /\ DOMAIN s = 1 .. n /\ s \in Seq({s[k] : k \in 1 .. n})
<1>1. n \in Nat /\ s = [k \in 1 .. n |-> s[k]]
  BY DEF IsList
<1>2. DOMAIN s = 1 .. n
  BY <1>1
<1>3. s \in Seq({s[k] : k \in 1 .. n})
  BY <1>1, SeqDef
<1> QED BY <1>1, <1>2, <1>3, LenProperties

Appended(s, x, z) == z = Append(s, x)

LEMMA ListAppended ==
  ASSUME NEW n, NEW s, IsList(s, n), NEW x, NEW z, Appended(s, x, z)
  PROVE  /\ IsList(z, n + 1)
         /\ \A k \in 1 .. n : z[k] = s[k]
         /\ z[n + 1] = x
<1> DEFINE S == {s[k] : k \in 1 .. n} \cup {x}
<1>1. n \in Nat /\ Len(s) = n
  BY ListLength DEF IsList
<1>2. s \in Seq(S) /\ x \in S
  <2>1. s = [k \in 1 .. n |-> s[k]] /\ \A k \in 1 .. n : s[k] \in S
    BY DEF IsList
  <2>2. x \in S
    OBVIOUS
  <2> HIDE DEF S
  <2>3. s \in [1 .. n -> S]
    BY <2>1
  <2> QED BY <1>1, <2>2, <2>3, SeqDef
<1> HIDE DEF S
<1>3. /\ z \in Seq(S) /\ Len(z) = n + 1
      /\ \A k \in 1 .. n : z[k] = s[k]
      /\ z[n + 1] = x
  BY <1>1, <1>2, AppendProperties DEF Appended
<1>4. z \in [1 .. n + 1 -> S]
  BY <1>3, LenProperties
<1> QED BY <1>1, <1>3, <1>4 DEF IsList

LEMMA EmptyList == IsList(<<>>, 0)
<1>1. 1 .. 0 = {} /\ DOMAIN <<>> = {}
  OBVIOUS
<1> QED BY <1>1 DEF IsList

(* A driver as it registers itself.                                        *)
Fresh(i) ==
  [id |-> Baked[i].id, name |-> Padded(Baked[i].name), bus_type |-> 0,
   slot |-> 0, address |-> Baked[i].address, is_linked |-> FALSE]

(* What a device's entry says of the slot it names.                        *)
IsEntry(board, device, m) ==
  /\ device.slot \in 0 .. m - 1
  /\ board[device.slot].id # ABSENT
  /\ device.id = board[device.slot].id
  /\ device.name = Blanked(board[device.slot].name)
  /\ device.address = AddressOf(device.slot)

(* The device table when the first m slots have been asked.                *)
AskedTable(board, table, m, l) ==
  /\ IsList(table, l)
  /\ \A k \in 1 .. l : IsEntry(board, table[k], m)
  /\ \A j, k \in 1 .. l : j < k => table[j].slot < table[k].slot
  /\ \A d \in 0 .. m - 1 :
       board[d].id # ABSENT => \E k \in 1 .. l : table[k].slot = d

Answered(board, table, m) == \E l \in Nat : AskedTable(board, table, m, l)

(* The drivers when those before the m-th are linked.                      *)
LinkedBefore(m) ==
  /\ IsList(drivers, Len(Baked))
  /\ \A i \in 1 .. Len(Baked) :
       drivers[i] = IF i < m THEN Linked(Fresh(i)) ELSE Fresh(i)

DevicesInv ==
  /\ phase = "drivers" =>
       /\ IsList(drivers, step - 1) /\ devices = <<>>
       /\ \A i \in 1 .. step - 1 : drivers[i] = Fresh(i)
  /\ phase = "devices" => Answered(hardware, devices, step - 1) /\ LinkedBefore(1)
  /\ phase = "linking" => Answered(hardware, devices, NUMBER_OF_PERIPHERALS) /\ LinkedBefore(step)
  /\ phase \notin {"drivers", "devices", "linking"} =>
       Answered(hardware, devices, NUMBER_OF_PERIPHERALS) /\ LinkedBefore(Len(Baked) + 1)

(* Asking a slot that is empty, and one that is not.                       *)
LEMMA AskedEmpty ==
  ASSUME NEW m \in Nat, Answered(hardware, devices, m), hardware[m].id = ABSENT
  PROVE  Answered(hardware, devices, m + 1)
<1>1. PICK l \in Nat : AskedTable(hardware, devices, m, l)
  BY DEF Answered
<1>2. 0 .. (m + 1) - 1 = 0 .. (m - 1) \cup {m}
  OBVIOUS
<1>3. AskedTable(hardware, devices, m + 1, l)
  BY <1>1, <1>2 DEF AskedTable, IsEntry
<1> QED BY <1>3 DEF Answered

LEMMA AskedFull ==
  ASSUME NEW m \in Nat, Answered(hardware, devices, m), hardware' = hardware, hardware[m].id # ABSENT,
         NEW t,
         devices' = ListAddNode(devices,
                      [id |-> hardware[m].id, name |-> Blanked(hardware[m].name),
                       bus_type |-> t, slot |-> m, address |-> AddressOf(m)])
  PROVE  Answered(hardware', devices', m + 1)
<1>1. PICK l \in Nat : AskedTable(hardware, devices, m, l)
  BY DEF Answered
<1> DEFINE k1 == l + 1
<1>2. PICK x : x = [id |-> hardware[m].id, name |-> Blanked(hardware[m].name),
                    bus_type |-> t, slot |-> m, address |-> AddressOf(m)]
  OBVIOUS
<1>3. /\ IsList(devices', k1) /\ devices'[k1] = x
      /\ \A k \in 1 .. l : devices'[k] = devices[k]
  <2>1. IsList(devices, l) /\ Appended(devices, x, devices')
    BY <1>1, <1>2 DEF AskedTable, ListAddNode, Appended
  <2> QED BY <2>1, ListAppended
<1>4. 0 .. (m + 1) - 1 = 0 .. (m - 1) \cup {m} /\ 1 .. k1 = 1 .. l \cup {k1}
  OBVIOUS
<1>5. k1 \in Nat /\ k1 \in 1 .. k1 /\ \A k \in 1 .. l : k < k1 /\ ~(k1 < k)
  OBVIOUS
<1>6. /\ x.id = hardware[m].id /\ x.name = Blanked(hardware[m].name)
      /\ x.slot = m /\ x.address = AddressOf(m)
  BY <1>2
<1>7. IsEntry(hardware, x, m + 1)
  BY <1>4, <1>6 DEF IsEntry
<1> HIDE DEF k1
<1>8. ASSUME NEW k \in 1 .. k1 PROVE IsEntry(hardware, devices'[k], m + 1)
  <2>1. CASE k = k1
    BY <1>3, <1>7, <2>1
  <2>2. CASE k # k1
    <3>1. k \in 1 .. l /\ devices'[k] = devices[k]
      BY <1>3, <1>4, <2>2
    <3>2. IsEntry(hardware, devices[k], m)
      BY <1>1, <3>1 DEF AskedTable
    <3> QED BY <1>4, <3>1, <3>2 DEF IsEntry
  <2> QED BY <2>1, <2>2
<1>9. ASSUME NEW j \in 1 .. k1, NEW k \in 1 .. k1, j < k
      PROVE  devices'[j].slot < devices'[k].slot
  <2>1. j \in 1 .. l /\ devices'[j] = devices[j]
    <3>1. j # k1
      BY <1>4, <1>5, <1>9
    <3>2. j \in 1 .. l
      BY <1>4, <3>1
    <3> QED BY <1>3, <3>2
  <2>2. CASE k = k1
    <3>1. devices[j].slot \in 0 .. m - 1
      BY <1>1, <2>1 DEF AskedTable, IsEntry
    <3>2. devices[j].slot < m
      BY <3>1
    <3> QED BY <1>3, <1>6, <2>1, <2>2, <3>2
  <2>3. CASE k # k1
    <3>1. k \in 1 .. l /\ devices'[k] = devices[k]
      BY <1>3, <1>4, <2>3
    <3> QED BY <1>1, <1>9, <2>1, <3>1 DEF AskedTable
  <2> QED BY <2>2, <2>3
<1>10. ASSUME NEW d \in 0 .. (m + 1) - 1, hardware[d].id # ABSENT
      PROVE  \E k \in 1 .. k1 : devices'[k].slot = d
  <2>1. CASE d = m
    BY <1>3, <1>5, <1>6, <2>1
  <2>2. CASE d # m
    <3>1. PICK k \in 1 .. l : devices[k].slot = d
      BY <1>1, <1>4, <1>10, <2>2 DEF AskedTable
    <3> QED BY <1>3, <1>4, <3>1
  <2> QED BY <2>1, <2>2
<1>11. AskedTable(hardware', devices', m + 1, k1)
  <2>1. \A d \in 0 .. (m + 1) - 1 :
          hardware'[d].id # ABSENT => \E k \in 1 .. k1 : devices'[k].slot = d
    BY <1>10
  <2> QED BY <1>3, <1>8, <1>9, <2>1 DEF AskedTable, ABSENT, IsList
<1> QED BY <1>5, <1>11 DEF Answered

LEMMA LinkedSame ==
  ASSUME NEW x, devices' = devices
  PROVE  Linked(x)' = Linked(x)
BY DEF Linked, IsFor

LEMMA LinkedBeforeSame ==
  ASSUME NEW m, LinkedBefore(m), drivers' = drivers, devices' = devices
  PROVE  LinkedBefore(m)'
<1>1. \A i : Linked(Fresh(i))' = Linked(Fresh(i))
  BY LinkedSame
<1>2. \A i : Fresh(i)' = Fresh(i)
  BY DEF Fresh, Padded
<1> QED BY <1>1, <1>2 DEF LinkedBefore, IsList

(* A step that leaves the tables alone.                                    *)
LEMMA DevicesSame ==
  ASSUME DevicesInv, UNCHANGED deviceVars,
         phase \notin {"drivers", "devices", "linking"},
         phase' \notin {"drivers", "devices", "linking"}
  PROVE  DevicesInv'
<1>1. hardware' = hardware /\ drivers' = drivers /\ devices' = devices
  BY DEF deviceVars
<1>2. Answered(hardware, devices, NUMBER_OF_PERIPHERALS) /\ LinkedBefore(Len(Baked) + 1)
  BY DEF DevicesInv
<1>3. Answered(hardware', devices', NUMBER_OF_PERIPHERALS) /\ LinkedBefore(Len(Baked) + 1)'
  BY <1>1, <1>2, LinkedBeforeSame
<1> QED BY <1>3 DEF DevicesInv

LEMMA RegisterStep ==
  ASSUME PlaceInv, DevicesInv, InitBakedDrivers
  PROVE  DevicesInv'
<1>1. /\ phase = "drivers" /\ step \in 1 .. Len(Baked)
      /\ Round("drivers", Len(Baked), "devices")
  BY RoundsFacts DEF InitBakedDrivers, Round, PlaceInv
<1>2. /\ IsList(drivers, step - 1) /\ devices = <<>>
      /\ \A i \in 1 .. step - 1 : drivers[i] = Fresh(i)
  BY <1>1 DEF DevicesInv
<1>3. Appended(drivers, Fresh(step), drivers') /\ devices' = devices
  BY DEF InitBakedDrivers, RegisterDriver, ListAddNode, Appended, Fresh
<1> DEFINE l == step - 1
<1>4. l \in Nat /\ l + 1 = step /\ 1 .. step = 1 .. l \cup {step} /\ step \in Nat
  BY <1>1, DevicesAssumption
<1>5. /\ IsList(drivers', l + 1) /\ drivers'[l + 1] = Fresh(step)
      /\ \A k \in 1 .. l : drivers'[k] = drivers[k]
  BY <1>2, <1>3, ListAppended
<1>6. IsList(drivers', step) /\ \A i \in 1 .. step : drivers'[i] = Fresh(i)
  BY <1>2, <1>4, <1>5
<1>7. CASE step < Len(Baked)
  <2>1. phase' = "drivers" /\ step' = step + 1
    BY <1>1, <1>7 DEF Round
  <2>2. step' - 1 = step
    BY <1>4, <2>1
  <2>3. IsList(drivers, step - 1)'
    BY <1>6, <2>2 DEF IsList
  <2>4. \A i \in 1 .. step' - 1 : drivers'[i] = Fresh(i)
    BY <1>6, <2>2
  <2> QED BY <1>2, <1>3, <2>1, <2>3, <2>4 DEF DevicesInv, Fresh, Padded
<1>8. CASE ~(step < Len(Baked))
  <2>1. phase' = "devices" /\ step' = 1 /\ step = Len(Baked)
    <3>1. Len(Baked) \in Nat
      BY DevicesAssumption
    <3> QED BY <1>1, <1>8, <3>1 DEF Round
  <2>2. LinkedBefore(1)'
    <3>1. \A i \in 1 .. Len(Baked) : ~(i < 1)
      OBVIOUS
    <3>2. \A i \in 1 .. Len(Baked) : drivers'[i] = Fresh(i)
      BY <1>6, <2>1
    <3> QED BY <1>6, <2>1, <3>1, <3>2 DEF LinkedBefore, IsList, Fresh, Padded
  <2>3. Answered(hardware', devices', 0)
    <3>1. IsList(devices', 0)
      BY <1>2, <1>3, EmptyList
    <3>2. 0 .. 0 - 1 = {} /\ 1 .. 0 = {} /\ 0 \in Nat
      OBVIOUS
    <3>3. AskedTable(hardware', devices', 0, 0)
      BY <3>1, <3>2 DEF AskedTable, IsList
    <3> QED BY <3>2, <3>3 DEF Answered
  <2>4. step' - 1 = 0
    BY <2>1
  <2>5. Answered(hardware', devices', step' - 1)
    BY <2>3, <2>4
  <2> QED BY <2>1, <2>2, <2>5 DEF DevicesInv
<1> QED BY <1>7, <1>8

LEMMA AskStep ==
  ASSUME PlaceInv, DevicesInv,
         Round("devices", NUMBER_OF_PERIPHERALS, "linking"), FindDevice(step - 1)
  PROVE  DevicesInv'
<1>1. /\ phase = "devices" /\ step \in 1 .. NUMBER_OF_PERIPHERALS
      /\ NUMBER_OF_PERIPHERALS \in Nat
  BY RoundsFacts, DevicesAssumption DEF Round, PlaceInv
<1>2. PICK m : m = step - 1 /\ m \in Nat /\ m + 1 = step /\ step \in Nat
  BY <1>1
<1>3. Answered(hardware, devices, m) /\ LinkedBefore(1)
  BY <1>1, <1>2 DEF DevicesInv
<1>4. hardware' = hardware /\ drivers' = drivers
  BY DEF FindDevice
<1>5. Answered(hardware', devices', m + 1)
  <2>1. CASE hardware[m].id = ABSENT
    <3>1. devices' = devices
      BY <1>2, <2>1 DEF FindDevice
    <3> QED BY <1>2, <1>3, <1>4, <2>1, <3>1, AskedEmpty
  <2>2. CASE hardware[m].id # ABSENT
    <3>1. PICK t : devices' = ListAddNode(devices,
                      [id |-> hardware[m].id, name |-> Blanked(hardware[m].name),
                       bus_type |-> t, slot |-> m, address |-> AddressOf(m)])
      BY <1>2, <2>2 DEF FindDevice
    <3> QED BY <1>2, <1>3, <1>4, <2>2, <3>1, AskedFull
  <2> QED BY <2>1, <2>2
<1>6. LinkedBefore(1)'
  <2>1. \A i \in 1 .. Len(Baked) : ~(i < 1)
    OBVIOUS
  <2>2. \A i \in 1 .. Len(Baked) : drivers[i] = Fresh(i)
    BY <1>3, <2>1 DEF LinkedBefore
  <2> QED BY <1>3, <1>4, <2>1, <2>2 DEF LinkedBefore, IsList, Fresh, Padded
<1>7. CASE step < NUMBER_OF_PERIPHERALS
  <2>1. phase' = "devices" /\ step' = step + 1
    BY <1>7 DEF Round
  <2>2. step' - 1 = m + 1
    BY <1>2, <2>1
  <2>3. Answered(hardware', devices', step' - 1)
    BY <1>5, <2>2
  <2> QED BY <1>6, <2>1, <2>3 DEF DevicesInv
<1>8. CASE ~(step < NUMBER_OF_PERIPHERALS)
  <2>1. phase' = "linking" /\ step' = 1 /\ m + 1 = NUMBER_OF_PERIPHERALS
    BY <1>1, <1>2, <1>8 DEF Round
  <2>2. Answered(hardware', devices', NUMBER_OF_PERIPHERALS)
    BY <1>5, <2>1
  <2>3. LinkedBefore(step)'
    BY <1>6, <2>1 DEF LinkedBefore
  <2> QED BY <2>1, <2>2, <2>3 DEF DevicesInv
<1> QED BY <1>7, <1>8

LEMMA LinkStep ==
  ASSUME PlaceInv, DevicesInv,
         Round("linking", Len(drivers), "console"), LinkDriver(step)
  PROVE  DevicesInv'
<1>1. /\ phase = "linking" /\ step \in 1 .. Len(Baked) /\ Len(Baked) \in Nat
  BY RoundsFacts, DevicesAssumption DEF Round, PlaceInv
<1>2. Answered(hardware, devices, NUMBER_OF_PERIPHERALS) /\ LinkedBefore(step)
  BY <1>1 DEF DevicesInv
<1>3. IsList(drivers, Len(Baked)) /\ Len(drivers) = Len(Baked) /\ DOMAIN drivers = 1 .. Len(Baked)
  BY <1>2, ListLength DEF LinkedBefore
<1>4. /\ drivers' = [drivers EXCEPT ![step] = Linked(drivers[step])]
      /\ hardware' = hardware /\ devices' = devices
  BY DEF LinkDriver
<1>5. drivers[step] = Fresh(step)
  BY <1>1, <1>2 DEF LinkedBefore
<1>6. /\ IsList(drivers', Len(Baked)) /\ drivers'[step] = Linked(Fresh(step))
      /\ \A i \in 1 .. Len(Baked) : i # step => drivers'[i] = drivers[i]
  BY <1>1, <1>3, <1>4, <1>5 DEF IsList
<1>7. Answered(hardware', devices', NUMBER_OF_PERIPHERALS)
  BY <1>2, <1>4
<1>8. PICK m : m = step + 1
  OBVIOUS
<1>9. LinkedBefore(m)'
  <2>1. ASSUME NEW i \in 1 .. Len(Baked)
        PROVE  drivers'[i] = IF i < m THEN Linked(Fresh(i)) ELSE Fresh(i)
    <3>1. CASE i = step
      <4>1. i < m
        BY <1>1, <1>8, <3>1
      <4> QED BY <1>6, <3>1, <4>1
    <3>2. CASE i # step
      <4>1. (i < m) <=> (i < step)
        BY <1>1, <1>8, <3>2
      <4>2. drivers'[i] = drivers[i]
        BY <1>6, <3>2
      <4>3. drivers[i] = IF i < step THEN Linked(Fresh(i)) ELSE Fresh(i)
        BY <1>2 DEF LinkedBefore
      <4> QED BY <4>1, <4>2, <4>3
    <3> QED BY <3>1, <3>2
  <2>2. \A i : Linked(Fresh(i))' = Linked(Fresh(i))
    BY <1>4, LinkedSame
  <2>3. \A i : Fresh(i)' = Fresh(i)
    BY DEF Fresh, Padded
  <2> QED BY <1>6, <2>1, <2>2, <2>3 DEF LinkedBefore, IsList
<1>10. CASE step < Len(Baked)
  <2>1. phase' = "linking" /\ step' = m
    BY <1>3, <1>8, <1>10 DEF Round
  <2>2. LinkedBefore(step)'
    BY <1>9, <2>1 DEF LinkedBefore
  <2> QED BY <1>7, <2>1, <2>2 DEF DevicesInv
<1>11. CASE ~(step < Len(Baked))
  <2>1. phase' = "console" /\ m = Len(Baked) + 1
    BY <1>1, <1>3, <1>8, <1>11 DEF Round
  <2>2. LinkedBefore(Len(Baked) + 1)'
    BY <1>9, <2>1
  <2> QED BY <1>7, <2>1, <2>2 DEF DevicesInv
<1> QED BY <1>10, <1>11

LEMMA DevicesStep ==
  ASSUME PlaceInv, DevicesInv, BootNext
  PROVE  DevicesInv'
<1>1. CASE InitBakedDrivers
  BY <1>1, RegisterStep
<1>2. CASE InitiateDeviceTable
  BY <1>2, AskStep, LinkStep DEF InitiateDeviceTable
<1>3. CASE cliInit
  BY <1>3, DevicesSame DEF cliInit, Round
<1>4. CASE AllocateExternalMemory
  BY <1>4, DevicesSame DEF AllocateExternalMemory, Round
<1>5. CASE CheckMemory
  BY <1>5, DevicesSame DEF CheckMemory, Round, kThrow
<1>6. CASE Format
  BY <1>6, DevicesSame DEF Format, Round
<1>7. CASE CreateBootFile
  BY <1>7, DevicesSame DEF CreateBootFile
<1>8. CASE AddBootFile
  BY <1>8, DevicesSame DEF AddBootFile, Round
<1>9. CASE ConsoleRegisterCommand
  BY <1>9, DevicesSame DEF ConsoleRegisterCommand, Round
<1>10. CASE Use
  BY <1>10, DevicesSame DEF Use
<1>11. CASE Reset
  <2>1. phase' = "drivers" /\ step' - 1 = 0 /\ drivers' = <<>> /\ devices' = <<>>
    <3>1. phase' = "drivers" /\ step' = 1 /\ drivers' = <<>> /\ devices' = <<>>
      BY <1>11 DEF Reset
    <3>2. 1 - 1 = 0
      OBVIOUS
    <3> QED BY <3>1, <3>2
  <2>2. IsList(drivers', step' - 1)
    BY <2>1, EmptyList
  <2>3. \A i \in 1 .. step' - 1 : drivers'[i] = Fresh(i)'
    BY <2>1
  <2> QED BY <2>1, <2>2, <2>3 DEF DevicesInv
<1> QED BY <1>1, <1>2, <1>3, <1>4, <1>5, <1>6, <1>7, <1>8, <1>9, <1>10, <1>11
        DEF BootNext, kInit

(* The driver that was linked has the first entry that is for it, and the  *)
(* entries are in the order of the slots.                                  *)
LEMMA LinkedRight ==
  ASSUME NEW m \in Nat, Answered(hardware, devices, m), NEW i \in 1 .. Len(Baked),
         NEW driver, driver = Linked(Fresh(i))
  PROVE  IF driver.is_linked
         THEN /\ HasItsKind(driver, driver.slot)
              /\ driver.address = AddressOf(driver.slot)
              /\ \A d \in 0 .. m - 1 :
                   d < driver.slot /\ HasItsKind(driver, d) => Passed(driver, d)
         ELSE /\ driver.address = Baked[i].address
              /\ \A d \in 0 .. m - 1 : HasItsKind(driver, d) => Passed(driver, d)
<1>1. PICK l \in Nat : AskedTable(hardware, devices, m, l)
  BY DEF Answered
<1>2. PICK x : x = Fresh(i)
  OBVIOUS
<1>3. /\ x.id = Baked[i].id /\ x.bus_type = 0 /\ x.is_linked = FALSE
      /\ x.address = Baked[i].address
  BY <1>2 DEF Fresh
<1>4. /\ DOMAIN devices = 1 .. l
      /\ \A k \in 1 .. l : IsEntry(hardware, devices[k], m)
      /\ \A j, k \in 1 .. l : j < k => devices[j].slot < devices[k].slot
      /\ \A d \in 0 .. m - 1 :
           hardware[d].id # ABSENT => \E k \in 1 .. l : devices[k].slot = d
  BY <1>1, ListLength DEF AskedTable
<1> DEFINE found == {k \in 1 .. l : IsFor(x, devices[k])}
           first == CHOOSE k \in found : \A j \in found : k <= j
<1>5. driver = IF found = {} THEN x
               ELSE [x EXCEPT !.slot = devices[first].slot,
                              !.address = devices[first].address, !.is_linked = TRUE]
  BY <1>2, <1>4 DEF Linked
(* An entry that the driver is not for holds another bus type.             *)
<1>6. ASSUME NEW k \in 1 .. l, ~IsFor(x, devices[k]), HasItsKind(x, devices[k].slot)
      PROVE  Passed(x, devices[k].slot)
  <2>1. devices[k].id = x.id /\ devices[k].name = x.name
    BY <1>4, <1>6 DEF IsEntry, HasItsKind
  <2>2. devices[k].bus_type # 0
    BY <1>3, <1>6, <2>1 DEF IsFor
  <2> QED BY <1>4, <2>2 DEF Passed
<1>7. CASE found = {}
  <2>1. driver = x
    BY <1>5, <1>7
  <2>2. ASSUME NEW d \in 0 .. m - 1, HasItsKind(x, d) PROVE Passed(x, d)
    <3>1. hardware[d].id # ABSENT
      BY <1>3, <2>2, DevicesAssumption DEF HasItsKind
    <3>2. PICK k \in 1 .. l : devices[k].slot = d
      BY <1>4, <3>1
    <3>3. ~IsFor(x, devices[k])
      BY <1>7
    <3> QED BY <1>6, <2>2, <3>2, <3>3
  <2> QED BY <1>3, <2>1, <2>2
<1>8. CASE found # {}
  <2>1. PICK least \in found : \A j \in found : least <= j
    <3>1. found \subseteq Nat
      OBVIOUS
    <3> HIDE DEF found
    <3> QED BY <1>8, <3>1, LeastExists
  <2>2. first \in found /\ \A j \in found : first <= j
    <3> HIDE DEF found
    <3> QED BY <2>1
  <2>3. PICK h : h = first
    OBVIOUS
  <2>4. h \in 1 .. l /\ IsFor(x, devices[h]) /\ \A j \in found : h <= j
    BY <2>2, <2>3
  <2>5. driver = [x EXCEPT !.slot = devices[h].slot,
                           !.address = devices[h].address, !.is_linked = TRUE]
    BY <1>5, <1>8, <2>3
  <2> HIDE DEF first
  <2>6. /\ driver.is_linked = TRUE /\ driver.slot = devices[h].slot
        /\ driver.address = devices[h].address
        /\ driver.id = x.id /\ driver.name = x.name
    BY <1>2, <2>5 DEF Fresh
  <2>7. \A d : HasItsKind(driver, d) <=> HasItsKind(x, d)
    BY <2>6 DEF HasItsKind
  <2>8. \A d : Passed(driver, d) <=> Passed(x, d)
    BY DEF Passed
  <2>9. /\ HasItsKind(x, devices[h].slot) /\ devices[h].address = AddressOf(devices[h].slot)
        /\ devices[h].slot \in 0 .. m - 1 /\ hardware[devices[h].slot].id = x.id
        /\ hardware[devices[h].slot].id # ABSENT
    BY <1>4, <2>4 DEF HasItsKind, IsEntry, IsFor
  <2>10. ASSUME NEW d \in 0 .. m - 1, d < devices[h].slot, HasItsKind(x, d)
         PROVE  Passed(x, d)
    <3>1. hardware[d].id # ABSENT
      BY <2>9, <2>10 DEF HasItsKind
    <3>2. PICK k \in 1 .. l : devices[k].slot = d
      BY <1>4, <3>1
    <3>3. ~(h <= k)
      <4>1. CASE h = k
        BY <2>9, <2>10, <3>2, <4>1
      <4>2. CASE h < k
        <5>1. devices[h].slot < devices[k].slot
          BY <1>4, <2>4, <4>2
        <5> QED BY <2>9, <2>10, <3>2, <5>1
      <4> QED BY <2>4, <4>1, <4>2
    <3>4. ~IsFor(x, devices[k])
      BY <2>4, <3>3
    <3> QED BY <1>6, <2>10, <3>2, <3>4
  <2> QED BY <2>6, <2>7, <2>8, <2>9, <2>10
<1> QED BY <1>7, <1>8

LEMMA InvDriversLinked == DevicesInv => DriversLinked
<1> SUFFICES ASSUME DevicesInv, phase \in {"console", "memory"}, NEW i \in DOMAIN drivers
             PROVE  DriverLinked(i)
  BY DEF DriversLinked
<1>1. Answered(hardware, devices, NUMBER_OF_PERIPHERALS) /\ LinkedBefore(Len(Baked) + 1)
  BY DEF DevicesInv
<1>2. i \in 1 .. Len(Baked)
  BY <1>1, ListLength DEF LinkedBefore
<1>3. drivers[i] = Linked(Fresh(i))
  <2>1. i < Len(Baked) + 1
    BY <1>2, DevicesAssumption
  <2> QED BY <1>1, <1>2, <2>1 DEF LinkedBefore
<1>4. NUMBER_OF_PERIPHERALS \in Nat
  BY DevicesAssumption
<1> QED BY <1>1, <1>2, <1>3, <1>4, LinkedRight DEF DriverLinked, Slot

-----------------------------------------------------------------------------
(* The console: its two drivers, which are different, and its commands,    *)
(* one entry after another.                                                *)
ConsoleInv ==
  phase \notin {"drivers", "devices", "linking", "console"} =>
    keyboadDevice \in BakedAs(NameKeyboard) /\ displayDevice \in BakedAs(NameDisplay)

Registered(m) ==
  CommandRegistry = [i \in 1 .. CONSOLE_FUNCTION_TABLE_SIZE |->
                       IF i < m THEN Commands[i] ELSE ""]

CommandInv ==
  /\ DOMAIN CommandRegistry = 1 .. CONSOLE_FUNCTION_TABLE_SIZE
  /\ phase \in {"memory", "check", "format", "files"} => Registered(1)
  /\ phase = "commands" => Registered(step)
  /\ phase = "running" => Registered(Len(Commands) + 1)

(* Linking a driver leaves its name.                                       *)
LEMMA LinkedName ==
  ASSUME LinkedBefore(Len(Baked) + 1), NEW i \in 1 .. Len(Baked)
  PROVE  drivers[i].name = Padded(Baked[i].name)
<1>1. PICK x : x = Fresh(i)
  OBVIOUS
<1>2. drivers[i] = Linked(x)
  <2>1. i < Len(Baked) + 1
    BY DevicesAssumption
  <2> QED BY <1>1, <2>1 DEF LinkedBefore
<1>3. x.name = Padded(Baked[i].name)
  BY <1>1 DEF Fresh
<1>4. \A d : [x EXCEPT !.slot = d.slot, !.address = d.address, !.is_linked = TRUE].name = x.name
  BY <1>1 DEF Fresh
<1>5. Linked(x).name = x.name
  BY <1>4 DEF Linked
<1> QED BY <1>2, <1>3, <1>5

LEMMA DriverFound ==
  ASSUME LinkedBefore(Len(Baked) + 1), NEW string, BakedAs(string) # {}
  PROVE  GetDriverByName(string) \in BakedAs(string)
<1> DEFINE found == {i \in DOMAIN drivers : SubSeq(drivers[i].name, 1, Len(string)) = string}
<1>1. DOMAIN drivers = 1 .. Len(Baked) /\ DOMAIN Baked = 1 .. Len(Baked)
  BY ListLength, DevicesAssumption DEF LinkedBefore
<1>2. \A i \in 1 .. Len(Baked) : drivers[i].name = Padded(Baked[i].name)
  BY LinkedName
<1>3. found = BakedAs(string)
  BY <1>1, <1>2 DEF BakedAs
<1>4. found # {} /\ found \subseteq Nat
  BY <1>1, <1>3
<1>5. GetDriverByName(string) =
        IF found = {} THEN 0 ELSE CHOOSE i \in found : \A j \in found : i <= j
  BY DEF GetDriverByName
<1> HIDE DEF found
<1>6. \E i \in found : \A j \in found : i <= j
  BY <1>4, LeastExists
<1>7. GetDriverByName(string) \in found
  BY <1>4, <1>5, <1>6
<1> QED BY <1>3, <1>7

LEMMA ConsoleSame ==
  ASSUME ConsoleInv, keyboadDevice' = keyboadDevice, displayDevice' = displayDevice,
         phase' \notin {"drivers", "devices", "linking", "console"} =>
           phase \notin {"drivers", "devices", "linking", "console"}
  PROVE  ConsoleInv'
BY DEF ConsoleInv, BakedAs, Padded

LEMMA ConsoleStep ==
  ASSUME PlaceInv, DevicesInv, ConsoleInv, BootNext
  PROVE  ConsoleInv'
<1>1. CASE InitBakedDrivers
  BY <1>1, ConsoleSame DEF InitBakedDrivers, Round, consoleVars
<1>2. CASE InitiateDeviceTable
  BY <1>2, ConsoleSame DEF InitiateDeviceTable, Round, consoleVars
<1>3. CASE cliInit
  <2>1. /\ phase = "console"
        /\ keyboadDevice' = GetDriverByName(NameKeyboard)
        /\ displayDevice' = GetDriverByName(NameDisplay)
    BY <1>3 DEF cliInit, Round
  <2>2. LinkedBefore(Len(Baked) + 1)
    BY <2>1 DEF DevicesInv
  <2>3. BakedAs(NameKeyboard) # {} /\ BakedAs(NameDisplay) # {}
    BY DriversAssumption
  <2>4. /\ GetDriverByName(NameKeyboard) \in BakedAs(NameKeyboard)
        /\ GetDriverByName(NameDisplay) \in BakedAs(NameDisplay)
    BY <2>2, <2>3, DriverFound
  <2> QED BY <2>1, <2>4 DEF ConsoleInv, BakedAs, Padded
<1>4. CASE AllocateExternalMemory
  BY <1>4, ConsoleSame DEF AllocateExternalMemory, Round, consoleVars
<1>5. CASE CheckMemory
  BY <1>5, ConsoleSame DEF CheckMemory, Round, kThrow, consoleVars
<1>6. CASE Format
  BY <1>6, ConsoleSame DEF Format, Round, consoleVars
<1>7. CASE CreateBootFile
  BY <1>7, ConsoleSame DEF CreateBootFile, consoleVars
<1>8. CASE AddBootFile
  BY <1>8, ConsoleSame DEF AddBootFile, Round, consoleVars
<1>9. CASE ConsoleRegisterCommand
  BY <1>9, ConsoleSame DEF ConsoleRegisterCommand, Round
<1>10. CASE Use
  BY <1>10, ConsoleSame DEF Use, consoleVars
<1>11. CASE Reset
  BY <1>11 DEF Reset, ConsoleInv
<1> QED BY <1>1, <1>2, <1>3, <1>4, <1>5, <1>6, <1>7, <1>8, <1>9, <1>10, <1>11
        DEF BootNext, kInit

(* A command takes the entry that follows those taken.                     *)
LEMMA FreeEntryFound ==
  ASSUME NEW m \in 1 .. Len(Commands), Registered(m)
  PROVE  FreeEntry = m
<1> DEFINE free == {i \in DOMAIN CommandRegistry : CommandRegistry[i] = ""}
<1>1. PICK t \in Nat : t = CONSOLE_FUNCTION_TABLE_SIZE /\ m \in 1 .. t
  <2>1. /\ Len(Commands) \in Nat /\ CONSOLE_FUNCTION_TABLE_SIZE \in Nat
        /\ Len(Commands) <= CONSOLE_FUNCTION_TABLE_SIZE
    BY BootAssumption
  <2> QED BY <2>1
<1>2. CommandRegistry = [i \in 1 .. t |-> IF i < m THEN Commands[i] ELSE ""]
  BY <1>1 DEF Registered
<1>3. ASSUME NEW i \in 1 .. t, i < m PROVE Commands[i] # ""
  <2>1. DOMAIN Commands = 1 .. Len(Commands) /\ Len(Commands) \in Nat
        /\ \A k \in DOMAIN Commands : Commands[k] # ""
    BY BootAssumption
  <2>2. PICK l \in Nat : l = Len(Commands) /\ m \in 1 .. l
    BY <2>1
  <2>3. i \in 1 .. Len(Commands)
    BY <1>3, <2>2
  <2> QED BY <2>1, <2>3
<1>4. \A i \in 1 .. t : i \in free <=> ~(i < m)
  BY <1>2, <1>3
<1>5. free \subseteq 1 .. t
  BY <1>2
<1>6. FreeEntry = IF free = {} THEN 1 ELSE CHOOSE i \in free : \A j \in free : i <= j
  BY DEF FreeEntry
<1> HIDE DEF free
<1>7. m \in free /\ \A j \in free : m <= j
  BY <1>1, <1>4, <1>5
<1>8. \A i \in free : (\A j \in free : i <= j) => i = m
  BY <1>1, <1>5, <1>7
<1> QED BY <1>6, <1>7, <1>8

LEMMA RegisteredNext ==
  ASSUME NEW m \in 1 .. Len(Commands), Registered(m),
         CommandRegistry' = [CommandRegistry EXCEPT ![m] = Commands[m]]
  PROVE  Registered(m + 1)'
<1>1. PICK t \in Nat : t = CONSOLE_FUNCTION_TABLE_SIZE
  BY BootAssumption
<1>2. CommandRegistry = [i \in 1 .. t |-> IF i < m THEN Commands[i] ELSE ""]
  BY <1>1 DEF Registered
<1>3. \A i \in 1 .. t : i < m + 1 <=> i < m \/ i = m
  <2>1. Len(Commands) \in Nat
    BY BootAssumption
  <2> QED BY <2>1
<1>4. CommandRegistry' = [i \in 1 .. t |-> IF i < m + 1 THEN Commands[i] ELSE ""]
  <2>1. DOMAIN CommandRegistry' = 1 .. t
    BY <1>2
  <2>2. ASSUME NEW i \in 1 .. t
        PROVE  CommandRegistry'[i] = IF i < m + 1 THEN Commands[i] ELSE ""
    <3>1. CASE i = m
      BY <1>2, <1>3, <3>1
    <3>2. CASE i # m
      BY <1>2, <1>3, <3>2
    <3> QED BY <3>1, <3>2
  <2>3. CommandRegistry' = [i \in 1 .. t |-> CommandRegistry'[i]]
    BY <1>2, <2>1
  <2> QED BY <2>2, <2>3
<1> QED BY <1>1, <1>4 DEF Registered

LEMMA CommandSame ==
  ASSUME CommandInv, CommandRegistry' = CommandRegistry,
         \/ phase' = phase /\ step' = step
         \/ phase' \in {"memory", "check", "format", "files"} /\
            phase \in {"memory", "check", "format", "files"}
         \/ phase' \in {"drivers", "devices", "linking", "console", "halted"}
         \/ phase = "files" /\ phase' = "commands" /\ step' = 1
  PROVE  CommandInv'
BY DEF CommandInv, Registered

LEMMA CommandStep ==
  ASSUME PlaceInv, CommandInv, BootNext
  PROVE  CommandInv'
<1> USE DEF consoleVars
<1>1. CASE InitBakedDrivers
  BY <1>1, CommandSame DEF InitBakedDrivers, Round
<1>2. CASE InitiateDeviceTable
  BY <1>2, CommandSame DEF InitiateDeviceTable, Round
<1>3. CASE cliInit
  <2>1. Round("console", Rounds("console"), "memory") /\ Rounds("console") = 1
    BY <1>3, RoundsFacts DEF cliInit
  <2>2. phase' = "memory"
    BY <2>1 DEF PlaceInv, Round
  <2>3. CommandRegistry' = [i \in 1 .. CONSOLE_FUNCTION_TABLE_SIZE |-> ""]
    BY <1>3 DEF cliInit, CommandInv
  <2>4. Registered(1)'
    <3>1. \A i \in 1 .. CONSOLE_FUNCTION_TABLE_SIZE : ~(i < 1)
      OBVIOUS
    <3> QED BY <2>3, <3>1 DEF Registered
  <2> QED BY <2>2, <2>3, <2>4 DEF CommandInv
<1>4. CASE AllocateExternalMemory
  BY <1>4, CommandSame DEF AllocateExternalMemory, Round
<1>5. CASE CheckMemory
  BY <1>5, CommandSame DEF CheckMemory, Round, kThrow
<1>6. CASE Format
  BY <1>6, CommandSame DEF Format, Round
<1>7. CASE CreateBootFile
  BY <1>7, CommandSame DEF CreateBootFile
<1>8. CASE AddBootFile
  BY <1>8, CommandSame DEF AddBootFile, Round
<1>9. CASE ConsoleRegisterCommand
  <2>1. /\ phase = "commands" /\ step \in 1 .. Len(Commands) /\ Registered(step)
        /\ Round("commands", Len(Commands), "running")
    BY <1>9, RoundsFacts DEF ConsoleRegisterCommand, Round, PlaceInv, CommandInv
  <2>2. PICK m \in 1 .. Len(Commands) : m = step
    BY <2>1
  <2>3. CommandRegistry' = [CommandRegistry EXCEPT ![m] = Commands[m]]
    <3>1. Registered(m)
      BY <2>1, <2>2
    <3>2. FreeEntry = m
      BY <3>1, FreeEntryFound
    <3> QED BY <1>9, <2>2, <3>2 DEF ConsoleRegisterCommand
  <2>4. Registered(m + 1)'
    BY <2>1, <2>2, <2>3, RegisteredNext
  <2>5. DOMAIN CommandRegistry' = 1 .. CONSOLE_FUNCTION_TABLE_SIZE
    BY <2>3 DEF CommandInv
  <2>6. CASE step < Len(Commands)
    <3>1. phase' = "commands" /\ step' = m + 1
      BY <2>1, <2>2, <2>6 DEF Round
    <3>2. Registered(step)'
      BY <2>4, <3>1 DEF Registered
    <3> QED BY <2>5, <3>1, <3>2 DEF CommandInv
  <2>7. CASE ~(step < Len(Commands))
    <3>1. phase' = "running" /\ m = Len(Commands)
      <4>1. Len(Commands) \in Nat
        BY BootAssumption
      <4> QED BY <2>1, <2>2, <2>7, <4>1 DEF Round
    <3>2. Registered(Len(Commands) + 1)'
      BY <2>4, <3>1 DEF Registered
    <3> QED BY <2>5, <3>1, <3>2 DEF CommandInv
  <2> QED BY <2>6, <2>7
<1>10. CASE Use
  BY <1>10, CommandSame DEF Use
<1>11. CASE Reset
  BY <1>11 DEF Reset, CommandInv
<1> QED BY <1>1, <1>2, <1>3, <1>4, <1>5, <1>6, <1>7, <1>8, <1>9, <1>10, <1>11
        DEF BootNext, kInit

-----------------------------------------------------------------------------
(* The sectors of the boot's files.                                        *)
LEMMA FileSectorsType == \A k \in 1 .. Len(BootFiles) : FileSectors(k) \in Nat
<1> SUFFICES ASSUME NEW k \in 1 .. Len(BootFiles) PROVE FileSectors(k) \in Nat
  OBVIOUS
<1>1. BootFiles[k].size \in Nat /\ DirSize \in Nat
  BY BootAssumption, SectorsAssumption
<1>2. DataSectors(BootFiles[k].size) \in Nat /\ DataSectors(DirSize) \in Nat
  BY <1>1, DataSectorsType
<1>3. PICK a \in Nat, b \in Nat : a = DataSectors(BootFiles[k].size) /\ b = DataSectors(DirSize)
  BY <1>2
<1>4. FileSectors(k) = a + 1 + (IF k * RefSize >= SectorSize THEN b + 1 ELSE 0)
  BY <1>3 DEF FileSectors
<1>5. FileSectors(k) = a + 1 \/ FileSectors(k) = a + 1 + (b + 1)
  BY <1>4
<1> QED BY <1>5

LEMMA BootSectorsSums ==
  /\ BootSectors[0] = DataSectors(DirSize) + 2
  /\ \A k \in 1 .. Len(BootFiles) : BootSectors[k] = BootSectors[k - 1] + FileSectors(k)
  /\ \A k \in 0 .. Len(BootFiles) : BootSectors[k] \in Nat /\ BootSectors[k] <= SectorCount
<1> DEFINE E(f) == [k \in 0 .. Len(BootFiles) |->
                      IF k = 0 THEN DataSectors(DirSize) + 2 ELSE f[k - 1] + FileSectors(k)]
<1>1. PICK l \in Nat : l = Len(BootFiles) /\ l > 0
  <2>1. Len(BootFiles) \in Nat /\ Len(BootFiles) # 0
    BY BootAssumption
  <2> QED BY <2>1
<1>2. PICK b \in Nat : b = DataSectors(DirSize) + 2
  BY DataSectorsType, SectorsAssumption
<1>3. PICK m \in Nat : m + 1 = l
  <2>1. l - 1 \in Nat /\ (l - 1) + 1 = l
    BY <1>1
  <2> QED BY <2>1
<1>4. PICK w : w = [k \in 0 .. m |-> FileSectors(k + 1)]
  OBVIOUS
<1>5. \A k \in 1 .. l : k - 1 \in 0 .. m /\ (k - 1) + 1 = k /\ k \in 0 .. l /\ k - 1 \in 0 .. l
  BY <1>1, <1>3
<1>6. \A k \in 1 .. l : w[k - 1] = FileSectors(k)
  BY <1>4, <1>5
<1>7. w \in [0 .. m -> Nat]
  <2>1. \A k \in 0 .. m : k + 1 \in 1 .. l
    BY <1>3
  <2>2. \A k \in 0 .. m : FileSectors(k + 1) \in Nat
    BY <1>1, <2>1, FileSectorsType
  <2> QED BY <1>4, <2>2
<1>8. PICK f : Sums(m, w, f)
  BY <1>7, SumsExist
<1>9. PICK g : g = [k \in 0 .. l |-> f[k] + b]
  OBVIOUS
<1>10. /\ f \in [0 .. l -> Nat] /\ f[0] = 0
       /\ \A k \in 1 .. l : f[k] = f[k - 1] + w[k - 1]
  BY <1>3, <1>5, <1>8 DEF Sums
<1>11. \A k \in 0 .. l : f[k] \in Nat /\ g[k] = f[k] + b
  BY <1>9, <1>10
<1>12. ASSUME NEW k \in 1 .. l PROVE g[k] = g[k - 1] + FileSectors(k)
  <2>1. g[k] = f[k] + b /\ g[k - 1] = f[k - 1] + b /\ f[k] \in Nat /\ f[k - 1] \in Nat
    BY <1>5, <1>11
  <2>2. f[k] = f[k - 1] + FileSectors(k)
    BY <1>6, <1>10
  <2>3. FileSectors(k) \in Nat
    BY <1>1, FileSectorsType
  <2>4. PICK x \in Nat, y \in Nat, z \in Nat : x = f[k] /\ y = f[k - 1] /\ z = FileSectors(k)
    BY <2>1, <2>3
  <2> QED BY <2>1, <2>2, <2>4
<1>13. g[0] = b
  <2>1. 0 \in 0 .. l
    BY <1>1
  <2> QED BY <1>10, <1>11, <2>1
<1>14. g = E(g)
  <2>1. ASSUME NEW k \in 0 .. l
        PROVE  g[k] = IF k = 0 THEN b ELSE g[k - 1] + FileSectors(k)
    <3>1. k = 0 \/ k \in 1 .. l
      OBVIOUS
    <3> QED BY <1>12, <1>13, <3>1
  <2>2. g = [k \in 0 .. l |-> IF k = 0 THEN b ELSE g[k - 1] + FileSectors(k)]
    BY <1>9, <2>1
  <2> QED BY <1>1, <1>2, <2>2
<1>15. BootSectors = E(BootSectors)
  <2>1. \E h : h = E(h)
    BY <1>14
  <2>2. BootSectors = CHOOSE h : h = E(h)
    BY DEF BootSectors
  <2> QED BY <2>1, <2>2
<1>16. PICK h : h = BootSectors
  OBVIOUS
<1>17. h = [k \in 0 .. l |-> IF k = 0 THEN b ELSE h[k - 1] + FileSectors(k)]
  BY <1>1, <1>2, <1>15, <1>16
<1> HIDE DEF E
<1>18. \A k \in 0 .. l : h[k] = g[k]
  <2> DEFINE Bad == {k \in 0 .. l : h[k] # g[k]}
  <2> SUFFICES ASSUME Bad # {} PROVE FALSE
    OBVIOUS
  <2>1. PICK k \in Bad : \A j \in Bad : k <= j
    <3>1. Bad \subseteq Nat
      BY <1>1
    <3> HIDE DEF Bad
    <3> QED BY <3>1, LeastExists
  <2>2. h[0] = b
    <3>1. 0 \in 0 .. l
      BY <1>1
    <3> QED BY <1>17, <3>1
  <2>3. k # 0
    BY <1>13, <2>1, <2>2
  <2>4. k \in 1 .. l /\ k - 1 \in 0 .. l /\ k - 1 < k
    BY <1>1, <2>1, <2>3
  <2>5. h[k - 1] = g[k - 1]
    BY <2>1, <2>4
  <2>6. h[k] = h[k - 1] + FileSectors(k)
    BY <1>17, <2>1, <2>3
  <2>7. g[k] = g[k - 1] + FileSectors(k)
    BY <1>12, <2>4
  <2> QED BY <2>1, <2>5, <2>6, <2>7
<1>19. \A k \in 0 .. l : h[k] \in Nat
  BY <1>2, <1>11, <1>18
<1>20. l \in 0 .. l /\ 0 \in 0 .. l
  BY <1>1
<1>21. \A k \in 0 .. l : h[k] <= h[l]
  <2> SUFFICES ASSUME NEW k \in 0 .. l PROVE h[k] <= h[l]
    OBVIOUS
  <2>1. k \in 0 .. m + 1 /\ l \in 0 .. m + 1 /\ k <= l
    BY <1>3
  <2>2. f[k] <= f[l]
    BY <1>7, <1>8, <2>1, SumsMonotone
  <2>3. h[k] = f[k] + b /\ h[l] = f[l] + b /\ f[k] \in Nat /\ f[l] \in Nat
    BY <1>11, <1>18, <1>20
  <2>4. PICK x \in Nat, y \in Nat : x = f[k] /\ y = f[l]
    BY <2>3
  <2>5. x + b <= y + b
    BY <2>2, <2>4
  <2> QED BY <2>3, <2>4, <2>5
<1>22. h[l] <= SectorCount
  BY <1>1, <1>16, RoomAssumption
<1>23. \A k \in 0 .. l : h[k] <= SectorCount
  <2> SUFFICES ASSUME NEW k \in 0 .. l PROVE h[k] <= SectorCount
    OBVIOUS
  <2>1. PICK x \in Nat, y \in Nat : x = h[k] /\ y = h[l]
    BY <1>19, <1>20
  <2>2. x <= y /\ y <= SectorCount /\ SectorCount \in Nat
    BY <1>21, <1>22, <2>1, SectorsAssumption
  <2>3. x <= SectorCount
    BY <2>2
  <2> QED BY <2>1, <2>3
<1>24. h[0] = b /\ \A k \in 1 .. l : h[k] = h[k - 1] + FileSectors(k)
  <2>1. \A k \in 1 .. l : k \in 0 .. l /\ k # 0
    BY <1>1
  <2> QED BY <1>17, <1>20, <2>1
<1> QED BY <1>1, <1>2, <1>16, <1>19, <1>23, <1>24

-----------------------------------------------------------------------------
(* The files of the boot: those added are in the directory in their order, *)
(* the one created is as it was asked for, and the sectors after those     *)
(* they take are free.                                                     *)
IsCreated(c, k) ==
  /\ c.name = BootFiles[k].name
  /\ c.attributes = BootFiles[k].attributes
  /\ c.size = BootFiles[k].size

Installed(s, m) ==
  /\ s \in Seq(Sector) /\ Len(s) = m
  /\ \A k \in 1 .. m : s[k] \in listed /\ IsCreated(created[s[k]], k)

FileTaken(k) == BootSectors[k - 1] + DataSectors(BootFiles[k].size) + 1

Installing(s) ==
  /\ Chained(s) /\ Installed(s, step - 1)
  /\ held = 0 => FreeFrom(BootSectors[step - 1])
  /\ held # 0 => IsCreated(created[held], step) /\ FreeFrom(FileTaken(step))

InstallInv ==
  /\ phase = "files" => formatted /\ \E s : Installing(s)
  /\ phase = "commands" => \E s : Chained(s) /\ Installed(s, Len(BootFiles))

(* What the k-th file takes of the room.                                   *)
LEMMA FileRoom ==
  ASSUME NEW k \in 1 .. Len(BootFiles)
  PROVE  /\ BootSectors[k - 1] \in Nat /\ BootSectors[k] \in Nat
         /\ BootFiles[k].size \in Sizes
         /\ DataSectors(BootFiles[k].size) \in Nat /\ DataSectors(DirSize) \in Nat
         /\ FileTaken(k) \in Nat
         /\ BootSectors[k - 1] + DataSectors(BootFiles[k].size) < SectorCount
         /\ FileTaken(k) <= BootSectors[k]
         /\ k * RefSize >= SectorSize =>
              /\ FileTaken(k) + DataSectors(DirSize) < SectorCount
              /\ FileTaken(k) + DataSectors(DirSize) + 1 <= BootSectors[k]
<1>1. PICK l \in Nat : l = Len(BootFiles)
  <2>1. Len(BootFiles) \in Nat
    BY BootAssumption
  <2> QED BY <2>1
<1>2. k \in 0 .. l /\ k - 1 \in 0 .. l
  BY <1>1
<1>3. /\ BootSectors[k - 1] \in Nat /\ BootSectors[k] \in Nat
      /\ BootSectors[k] <= SectorCount
      /\ BootSectors[k] = BootSectors[k - 1] + FileSectors(k)
  BY <1>1, <1>2, BootSectorsSums
<1>4. BootFiles[k].size \in Sizes
  BY BootAssumption
<1>5. BootFiles[k].size \in Nat /\ DirSize \in Nat
  BY <1>4, SectorsAssumption
<1>6. DataSectors(BootFiles[k].size) \in Nat /\ DataSectors(DirSize) \in Nat
  BY <1>5, DataSectorsType
<1>7. PICK a \in Nat, b \in Nat, d \in Nat :
        a = BootSectors[k - 1] /\ b = DataSectors(BootFiles[k].size) /\ d = DataSectors(DirSize)
  BY <1>3, <1>6
<1>8. FileTaken(k) = a + b + 1
  BY <1>7 DEF FileTaken
<1>9. FileSectors(k) = b + 1 + (IF k * RefSize >= SectorSize THEN d + 1 ELSE 0)
  BY <1>7 DEF FileSectors
<1>10. PICK e \in Nat : e = BootSectors[k]
  BY <1>3
<1>11. e <= SectorCount /\ SectorCount \in Nat /\ e = a + FileSectors(k)
  BY <1>3, <1>7, <1>10, SectorsAssumption
<1>12. CASE k * RefSize >= SectorSize
  <2>1. FileSectors(k) = b + 1 + (d + 1)
    BY <1>9, <1>12
  <2>2. a + b + 1 <= e /\ a + b + 1 + d + 1 <= e /\ a + b < SectorCount
        /\ a + b + 1 + d < SectorCount
    BY <1>11, <2>1
  <2> QED BY <1>3, <1>4, <1>6, <1>7, <1>8, <1>10, <2>2
<1>13. CASE ~(k * RefSize >= SectorSize)
  <2>1. FileSectors(k) = b + 1 + 0
    BY <1>9, <1>13
  <2>2. a + b + 1 <= e /\ a + b < SectorCount
    BY <1>11, <2>1
  <2> QED BY <1>3, <1>4, <1>6, <1>7, <1>8, <1>10, <1>13, <2>2
<1> QED BY <1>12, <1>13

LEMMA TimesMonotone ==
  ASSUME NEW a \in Nat, NEW b \in Nat, NEW n \in Nat, a <= b
  PROVE  a * n <= b * n
<1>1. PICK d \in Nat : b = a + d
  <2>1. b - a \in Nat /\ b = a + (b - a)
    OBVIOUS
  <2> QED BY <2>1
<1>2. b * n = a * n + d * n
  BY <1>1
<1>3. a * n \in Nat /\ d * n \in Nat
  OBVIOUS
<1> QED BY <1>2, <1>3

LEMMA RoomMore ==
  ASSUME NEW t \in Nat, NEW u \in Nat, t <= u, FreeFrom(t)'
  PROVE  FreeFrom(u)'
<1>1. \A i \in Sector : i \in Int
  BY DEF Sector
<1> QED BY <1>1 DEF FreeFrom

LEMMA FormatInstall ==
  ASSUME StorageInv, PlaceInv, Format
  PROVE  InstallInv'
<1>1. phase' = "files" /\ step' = 1 /\ Init' /\ EmptyDirectory'
  BY FormatStarts
<1>2. formatted' = TRUE /\ held' = 0
  BY <1>1 DEF EmptyDirectory
<1>3. PICK s : s = <<>>
  OBVIOUS
<1>4. Chained(<<>>)'
  <2>1. (Init /\ EmptyDirectory)' => Chained(<<>>)'
    BY FreshChained, PTL
  <2> QED BY <1>1, <2>1
<1>5. Chained(s)'
  BY <1>3, <1>4 DEF Chained
<1>6. FreeFrom(DataSectors(DirSize) + 2)'
  <2>1. Init' => FreeFrom(DataSectors(DirSize) + 2)'
    BY FreshRoom, PTL
  <2> QED BY <1>1, <2>1
<1>7. step' - 1 = 0 /\ BootSectors[0] = DataSectors(DirSize) + 2
  BY <1>1, BootSectorsSums
<1>8. FreeFrom(BootSectors[step - 1])'
  <2>1. BootSectors[step' - 1] = DataSectors(DirSize) + 2
    BY <1>7
  <2> QED BY <1>6, <2>1 DEF FreeFrom
<1>9. Installed(s, step - 1)'
  <2>1. s \in Seq(Sector) /\ Len(s) = 0 /\ 1 .. 0 = {}
    BY <1>3
  <2> QED BY <1>7, <2>1 DEF Installed
<1>10. Installing(s)'
  BY <1>2, <1>5, <1>8, <1>9 DEF Installing
<1> QED BY <1>1, <1>2, <1>10 DEF InstallInv

LEMMA CreateInstall ==
  ASSUME PlaceInv, StorageInv, InstallInv, CreateBootFile
  PROVE  InstallInv'
<1>1. /\ phase = "files" /\ phase' = phase /\ step' = step /\ held = 0
      /\ step \in 1 .. Len(BootFiles) /\ FilesInv
  BY RoundsFacts DEF CreateBootFile, PlaceInv, StorageInv, HasFiles
<1>2. PICK k \in 1 .. Len(BootFiles) : k = step
  BY <1>1
<1>3. PICK b : b = BootFiles[k]
  OBVIOUS
<1>4. PICK z \in Sizes : z = b.size
  BY <1>3, FileRoom
<1>5. b.attributes \in {"d", BLANK} /\ (b.attributes = "d" => b.size = DirSize)
  BY <1>3, BootAssumption
<1>6. formatted /\ \E s : Installing(s)
  BY <1>1 DEF InstallInv
<1>7. PICK s : Installing(s)
  BY <1>6
<1>8. Chained(s) /\ Installed(s, k - 1) /\ FreeFrom(BootSectors[k - 1])
  BY <1>1, <1>2, <1>7 DEF Installing
<1>9. IF b.attributes = "d" THEN fsDirectoryCreate(b.name) ELSE fsFileCreate(b.name, z)
  BY <1>2, <1>3, <1>4 DEF CreateBootFile
<1>10. /\ fsAllocate(z) /\ held' = result' /\ formatted' = formatted /\ listed' = listed
       /\ next' = [next EXCEPT ![result'] = 0] /\ parent' = [parent EXCEPT ![result'] = 0]
       /\ refs' = refs \/ refs' = [refs EXCEPT ![result'] = <<>>]
       /\ Asked(result', b.name, b.attributes, z)
  <2>1. CASE b.attributes = "d"
    <3>1. z = DirSize /\ fsDirectoryCreate(b.name)
      BY <1>4, <1>5, <1>9, <2>1
    <3> QED BY <2>1, <3>1 DEF fsDirectoryCreate, CreateDirectory, fsFileSetNextAddress,
            fsFileSetParentAddress, fsDirectorySetReferenceCount
  <2>2. CASE b.attributes # "d"
    <3>1. b.attributes = BLANK /\ fsFileCreate(b.name, z)
      BY <1>5, <1>9, <2>2
    <3> QED BY <3>1 DEF fsFileCreate, CreateFile, fsFileSetNextAddress, fsFileSetParentAddress
  <2> QED BY <2>1, <2>2
<1>11. DirectoryInv /\ SectorInv /\ listed \subseteq Headers
  BY <1>1, FilesFacts DEF FilesInv
<1>12. Chained(s)'
  BY <1>8, <1>10, <1>11, CreatedInOrder
<1>13. PICK h : h = result'
  OBVIOUS
<1>14. h \in Sector /\ h # 0 /\ h \notin Headers
  BY <1>10, <1>11, <1>13, Allocated
<1>15. /\ created' = [created EXCEPT ![h] =
                         [name |-> b.name, attributes |-> b.attributes, size |-> z]]
       /\ DOMAIN created = Sector
  BY <1>1, <1>10, <1>13 DEF Asked, FilesInv, FieldsTyped
<1>16. created'[h] = [name |-> b.name, attributes |-> b.attributes, size |-> z]
  BY <1>14, <1>15
<1>17. IsCreated(created'[h], k)
  BY <1>3, <1>4, <1>16 DEF IsCreated
<1>18. \A g \in listed : created'[g] = created[g]
  <2>1. \A g \in listed : g # h
    BY <1>11, <1>14
  <2> QED BY <1>15, <2>1
<1>19. Installed(s, k - 1)'
  <2>1. s \in Seq(Sector) /\ Len(s) = k - 1
    BY <1>8 DEF Installed
  <2>2. ASSUME NEW j \in 1 .. k - 1 PROVE s[j] \in listed' /\ IsCreated(created'[s[j]], j)
    <3>1. s[j] \in listed /\ IsCreated(created[s[j]], j)
      BY <1>8 DEF Installed
    <3>2. created'[s[j]] = created[s[j]]
      BY <1>18, <3>1
    <3> QED BY <1>10, <3>1, <3>2
  <2> QED BY <2>1, <2>2 DEF Installed
<1>20. FreeFrom(FileTaken(k))'
  <2>1. PICK t \in Nat : t = BootSectors[k - 1] /\ t + DataSectors(z) < SectorCount
    BY <1>3, <1>4, FileRoom
  <2>2. FreeFrom(t)
    BY <1>8, <2>1
  <2>3. FreeFrom(t + DataSectors(z) + 1)'
    BY <1>10, <1>11, <2>1, <2>2, RoomTaken
  <2>4. FileTaken(k) = t + DataSectors(z) + 1
    BY <1>3, <1>4, <2>1 DEF FileTaken
  <2> QED BY <2>3, <2>4 DEF FreeFrom
<1>21. Installing(s)'
  <2>1. held' = h /\ held' # 0 /\ step' = k
    BY <1>1, <1>2, <1>10, <1>13, <1>14
  <2>2. Installed(s, step - 1)'
    BY <1>19, <2>1 DEF Installed
  <2>3. IsCreated(created'[held'], step')
    BY <1>17, <2>1
  <2>4. FreeFrom(FileTaken(step))'
    BY <1>20, <2>1 DEF FreeFrom
  <2> QED BY <1>12, <2>1, <2>2, <2>3, <2>4 DEF Installing
<1> QED BY <1>1, <1>6, <1>10, <1>21 DEF InstallInv

LEMMA AddInstall ==
  ASSUME PlaceInv, StorageInv, InstallInv, AddBootFile
  PROVE  InstallInv'
<1>1. /\ phase = "files" /\ step \in 1 .. Len(BootFiles) /\ FilesInv
      /\ Round("files", Len(BootFiles), "commands")
  BY RoundsFacts DEF AddBootFile, Round, PlaceInv, StorageInv, HasFiles
<1>2. PICK k \in 1 .. Len(BootFiles) : k = step
  BY <1>1
<1>3. PICK l \in Nat : l = Len(BootFiles)
  <2>1. Len(BootFiles) \in Nat
    BY BootAssumption
  <2> QED BY <2>1
<1>4. AddFile /\ created' = created
  BY DEF AddBootFile, fsDirectoryAddFile, AddExtent, AddNoExtent, AddFile
<1>5. held # 0 /\ held' = 0 /\ listed' = listed \cup {held}
  BY <1>4 DEF AddFile, AddToDirectory, AddToExtent, AddFirstExtent, AddNextExtent,
     AddFirstExtentFails, AddNextExtentFails, Listed
<1>6. PICK x : x = held
  OBVIOUS
<1>7. formatted /\ \E s : Installing(s)
  BY <1>1 DEF InstallInv
<1>8. PICK s : Installing(s)
  BY <1>7
<1>9. /\ Chained(s) /\ Installed(s, k - 1)
      /\ IsCreated(created[x], k) /\ FreeFrom(FileTaken(k))
  BY <1>2, <1>5, <1>6, <1>8 DEF Installing
<1>10. DirectoryInv /\ SectorInv /\ x \in Sector
  BY <1>1, <1>6, FilesFacts DEF FilesInv
<1>11. s \in Seq(Sector) /\ Len(s) = k - 1
  BY <1>9 DEF Installed
<1>12. DirectoryFull => k * RefSize >= SectorSize
  <2>1. PICK r \in Nat : r = Len(refs[root]) /\ r <= k - 1
    BY <1>9, <1>10, <1>11, RootCount
  <2>2. RefSize \in Nat /\ SectorSize \in Nat /\ k \in Nat
    BY <1>3, DirectoryAssumption, SectorsAssumption
  <2>3. r + 1 \in Nat /\ r + 1 <= k
    BY <2>1, <2>2
  <2>4. (r + 1) * RefSize <= k * RefSize
    BY <2>2, <2>3, TimesMonotone
  <2>5. PICK a \in Nat, b \in Nat : a = (r + 1) * RefSize /\ b = k * RefSize
    BY <2>2, <2>3
  <2>6. (r + 1) * RefSize >= SectorSize => k * RefSize >= SectorSize
    BY <2>2, <2>4, <2>5
  <2> QED BY <2>1, <2>6 DEF DirectoryFull, fsDirectoryGetReferenceCount
<1>13. PICK t \in Nat : t = FileTaken(k)
  BY FileRoom
<1>14. FreeFrom(t) /\ (DirectoryFull => t + DataSectors(DirSize) < SectorCount)
  BY <1>9, <1>12, <1>13, FileRoom
<1>15. /\ formatted' = formatted
       /\ ~DirectoryFull => FreeFrom(t)'
       /\ DirectoryFull => FreeFrom(t + DataSectors(DirSize) + 1)'
  BY <1>4, <1>10, <1>14, AddedRoom
<1>16. PICK e \in Nat : e = BootSectors[k]
  BY FileRoom
<1>17. FreeFrom(e)'
  <2>1. CASE ~DirectoryFull
    <3>1. t <= e /\ FreeFrom(t)'
      BY <1>13, <1>15, <1>16, <2>1, FileRoom
    <3> QED BY <3>1, RoomMore
  <2>2. CASE DirectoryFull
    <3>1. PICK d \in Nat : d = DataSectors(DirSize)
      BY FileRoom
    <3>2. t + d + 1 <= e /\ FreeFrom(t + d + 1)'
      BY <1>12, <1>13, <1>15, <1>16, <2>2, <3>1, FileRoom
    <3>3. t + d + 1 \in Nat
      OBVIOUS
    <3> QED BY <3>2, <3>3, RoomMore
  <2> QED BY <2>1, <2>2
<1>18. PICK u : u = Append(s, x)
  OBVIOUS
<1>19. Chained(u)'
  <2>1. formatted'
    BY <1>7, <1>15
  <2>2. Chained(Append(s, x))'
    BY <1>4, <1>6, <1>9, <1>10, <2>1, AddedInOrder
  <2> QED BY <1>18, <2>2 DEF Chained
<1>20. Installed(u, k)'
  <2>1. /\ u \in Seq(Sector) /\ Len(u) = k - 1 + 1 /\ u[k - 1 + 1] = x
        /\ \A j \in 1 .. k - 1 : u[j] = s[j]
    BY <1>10, <1>11, <1>18, AppendProperties
  <2>2. k - 1 + 1 = k /\ \A j \in 1 .. k : j \in 1 .. k - 1 \/ j = k
    BY <1>3
  <2>3. ASSUME NEW j \in 1 .. k PROVE u[j] \in listed' /\ IsCreated(created'[u[j]], j)
    <3>1. CASE j = k
      <4>1. u[j] = x
        BY <2>1, <2>2, <3>1
      <4> QED BY <1>4, <1>5, <1>6, <1>9, <3>1, <4>1
    <3>2. CASE j # k
      <4>1. j \in 1 .. k - 1 /\ u[j] = s[j]
        BY <2>1, <2>2, <3>2
      <4>2. s[j] \in listed /\ IsCreated(created[s[j]], j)
        BY <1>9, <4>1 DEF Installed
      <4> QED BY <1>4, <1>5, <4>1, <4>2
    <3> QED BY <3>1, <3>2
  <2>4. Len(u) = k
    BY <2>1, <2>2
  <2> QED BY <2>1, <2>3, <2>4 DEF Installed
<1>21. CASE step < Len(BootFiles)
  <2>1. phase' = "files" /\ step' - 1 = k
    <3>1. phase' = "files" /\ step' = k + 1
      BY <1>1, <1>2, <1>21 DEF Round
    <3> QED BY <1>3, <3>1
  <2>2. Installed(u, step - 1)'
    BY <1>20, <2>1 DEF Installed
  <2>3. FreeFrom(BootSectors[step - 1])'
    <3>1. BootSectors[step' - 1] = e
      BY <1>16, <2>1
    <3> QED BY <1>17, <3>1 DEF FreeFrom
  <2>4. Installing(u)'
    BY <1>5, <1>19, <2>2, <2>3 DEF Installing
  <2> QED BY <1>7, <1>15, <2>1, <2>4 DEF InstallInv
<1>22. CASE ~(step < Len(BootFiles))
  <2>1. phase' = "commands" /\ k = Len(BootFiles)
    BY <1>1, <1>2, <1>3, <1>22 DEF Round
  <2>2. Installed(u, Len(BootFiles))'
    BY <1>20, <2>1
  <2> QED BY <1>19, <2>1, <2>2 DEF InstallInv
<1> QED BY <1>21, <1>22

(* A step that does not use the file system.                               *)
LEMMA InstallSame ==
  ASSUME InstallInv, UNCHANGED filesVars,
         phase' = "files" => phase = "files" /\ step' = step,
         phase' = "commands" => phase = "commands"
  PROVE  InstallInv'
<1>1. /\ refs' = refs /\ next' = next /\ parent' = parent
      /\ marker' = marker /\ size' = size /\ root' = root
      /\ listed' = listed /\ created' = created /\ held' = held /\ formatted' = formatted
  BY DEF filesVars, dirVars, sectorVars, linkVars, callerVars, nameVars
<1>2. ASSUME NEW n, NEW c PROVE IsChain(n, c)' <=> IsChain(n, c)
  BY <1>1 DEF IsChain, Headers
<1>3. \A s : Chained(s) => Chained(s)'
  BY <1>1, <1>2 DEF Chained
<1>4. \A s, m : Installed(s, m) => Installed(s, m)'
  BY <1>1 DEF Installed
<1>5. \A t : FreeFrom(t) => FreeFrom(t)'
  BY <1>1 DEF FreeFrom
<1>6. CASE phase' = "files"
  <2>1. phase = "files" /\ step' = step
    BY <1>6
  <2>2. formatted /\ \E s : Installing(s)
    BY <2>1 DEF InstallInv
  <2>3. PICK s : Installing(s)
    BY <2>2
  <2>4. Chained(s)' /\ Installed(s, step - 1)'
    <3>1. Chained(s)' /\ Installed(s, step - 1)
      BY <1>3, <2>3 DEF Installing
    <3> QED BY <1>1, <2>1, <3>1 DEF Installed
  <2>5. /\ held = 0 => FreeFrom(BootSectors[step - 1])'
        /\ held # 0 => IsCreated(created[held], step) /\ FreeFrom(FileTaken(step))'
    <3>1. /\ held = 0 => FreeFrom(BootSectors[step - 1])
          /\ held # 0 => IsCreated(created[held], step) /\ FreeFrom(FileTaken(step))
      BY <2>3 DEF Installing
    <3> QED BY <1>1, <2>1, <3>1 DEF FreeFrom
  <2>6. Installing(s)'
    BY <1>1, <2>1, <2>4, <2>5 DEF Installing
  <2> QED BY <1>1, <1>6, <2>2, <2>6 DEF InstallInv
<1>7. CASE phase' # "files"
  BY <1>3, <1>4, <1>7 DEF InstallInv
<1> QED BY <1>6, <1>7

LEMMA InstallStep ==
  ASSUME PlaceInv, StorageInv, InstallInv, BootNext
  PROVE  InstallInv'
<1>1. CASE InitBakedDrivers
  BY <1>1 DEF InitBakedDrivers, Round, InstallInv
<1>2. CASE InitiateDeviceTable
  BY <1>2 DEF InitiateDeviceTable, Round, InstallInv
<1>3. CASE cliInit
  BY <1>3 DEF cliInit, Round, InstallInv
<1>4. CASE AllocateExternalMemory
  BY <1>4 DEF AllocateExternalMemory, Round, InstallInv
<1>5. CASE CheckMemory
  BY <1>5 DEF CheckMemory, Round, kThrow, InstallInv
<1>6. CASE Format
  BY <1>6, FormatInstall
<1>7. CASE CreateBootFile
  BY <1>7, CreateInstall
<1>8. CASE AddBootFile
  BY <1>8, AddInstall
<1>9. CASE ConsoleRegisterCommand
  BY <1>9, InstallSame DEF ConsoleRegisterCommand, Round
<1>10. CASE Use
  BY <1>10 DEF Use, InstallInv
<1>11. CASE Reset
  BY <1>11 DEF Reset, InstallInv
<1> QED BY <1>1, <1>2, <1>3, <1>4, <1>5, <1>6, <1>7, <1>8, <1>9, <1>10, <1>11
        DEF BootNext, kInit

-----------------------------------------------------------------------------
(* The boot as a whole.                                                    *)
BootInv ==
  /\ PlaceInv /\ StorageInv /\ DevicesInv
  /\ ConsoleInv /\ CommandInv /\ InstallInv

LEMMA BootInitInv == BootInit => BootInv
<1> SUFFICES ASSUME BootInit PROVE BootInv
  OBVIOUS
<1>1. phase = "drivers" /\ step = 1 /\ drivers = <<>> /\ devices = <<>>
  BY DEF BootInit, Statics, DevicesInit
<1>2. PlaceInv
  BY <1>1, RoundsFacts DEF PlaceInv, Phases
<1>3. StorageInv
  <2>1. /\ refs = [h \in Sector |-> <<>>] /\ next = [h \in Sector |-> 0]
        /\ parent = [h \in Sector |-> 0]
    BY DEF BootInit, Untouched
  <2>2. 0 \in Sector /\ <<>> \in Seq(Sector)
    BY ZeroSector
  <2>3. DOMAIN name = Sector /\ DOMAIN attributes = Sector /\ DOMAIN created = Sector
    BY DEF BootInit, FilesInit
  <2> QED BY <1>1, <2>1, <2>2, <2>3 DEF StorageInv, FieldsTyped, HasFiles
<1>4. DevicesInv
  <2>1. step - 1 = 0
    BY <1>1
  <2> QED BY <1>1, <2>1, EmptyList DEF DevicesInv
<1>5. ConsoleInv /\ InstallInv
  BY <1>1 DEF ConsoleInv, InstallInv
<1>6. CommandInv
  BY <1>1 DEF CommandInv, BootInit, Statics
<1> QED BY <1>2, <1>3, <1>4, <1>5, <1>6 DEF BootInv

LEMMA LinkingLength ==
  ASSUME DevicesInv, phase = "linking"
  PROVE  Len(drivers) = Len(Baked)
BY ListLength DEF DevicesInv, LinkedBefore

LEMMA BootStep == BootInv /\ [BootNext]_vars => BootInv'
<1> SUFFICES ASSUME BootInv, [BootNext]_vars PROVE BootInv'
  OBVIOUS
<1>1. CASE BootNext
  BY <1>1, PlaceStep, StorageStep, DevicesStep, LinkingLength, ConsoleStep, CommandStep,
     InstallStep DEF BootInv
<1>2. CASE UNCHANGED vars
  <2>1. phase' = phase /\ step' = step /\ UNCHANGED filesVars /\ UNCHANGED deviceVars
    BY <1>2 DEF vars
  <2>2. PlaceInv'
    BY <2>1 DEF BootInv, PlaceInv, Rounds
  <2>3. StorageInv'
    BY <2>1, StorageSame DEF BootInv, HasFiles
  <2>4. DevicesInv'
    <3>1. hardware' = hardware /\ drivers' = drivers /\ devices' = devices
      BY <2>1 DEF deviceVars
    <3>2. \A m : LinkedBefore(m) => LinkedBefore(m)'
      BY <3>1, LinkedBeforeSame
    <3>3. \A i : Fresh(i)' = Fresh(i)
      BY DEF Fresh, Padded
    <3> QED BY <2>1, <3>1, <3>2, <3>3 DEF BootInv, DevicesInv
  <2>5. /\ keyboadDevice' = keyboadDevice /\ displayDevice' = displayDevice
        /\ CommandRegistry' = CommandRegistry
    BY <1>2 DEF vars, consoleVars
  <2>6. ConsoleInv' /\ CommandInv'
    BY <2>1, <2>5, ConsoleSame, CommandSame DEF BootInv
  <2>7. InstallInv'
    BY <2>1, InstallSame DEF BootInv
  <2> QED BY <2>2, <2>3, <2>4, <2>6, <2>7 DEF BootInv
<1> QED BY <1>1, <1>2

LEMMA InvKernelReady == BootInv => KernelReady
<1> SUFFICES ASSUME BootInv PROVE KernelReady
  OBVIOUS
<1>1. ASSUME phase \notin {"drivers", "devices", "linking", "console"}
      PROVE  /\ {keyboadDevice, displayDevice} \subseteq DOMAIN drivers
             /\ keyboadDevice # displayDevice
  <2>1. keyboadDevice \in BakedAs(NameKeyboard) /\ displayDevice \in BakedAs(NameDisplay)
    BY <1>1 DEF BootInv, ConsoleInv
  <2>2. LinkedBefore(Len(Baked) + 1)
    BY <1>1 DEF BootInv, DevicesInv
  <2>3. DOMAIN drivers = 1 .. Len(Baked) /\ DOMAIN Baked = 1 .. Len(Baked)
    BY <2>2, ListLength, DevicesAssumption DEF LinkedBefore
  <2>4. keyboadDevice \in DOMAIN Baked /\ displayDevice \in DOMAIN Baked
    BY <2>1 DEF BakedAs
  <2>5. keyboadDevice # displayDevice
    BY <2>1, DriversAssumption
  <2> QED BY <2>3, <2>4, <2>5
<1>2. ASSUME phase = "running", NEW k \in DOMAIN Commands
      PROVE  \E i \in DOMAIN CommandRegistry : CommandRegistry[i] = Commands[k]
  <2>1. CommandRegistry = [i \in 1 .. CONSOLE_FUNCTION_TABLE_SIZE |->
                             IF i < Len(Commands) + 1 THEN Commands[i] ELSE ""]
    BY <1>2 DEF BootInv, CommandInv, Registered
  <2>2. /\ DOMAIN Commands = 1 .. Len(Commands) /\ Len(Commands) \in Nat
        /\ CONSOLE_FUNCTION_TABLE_SIZE \in Nat /\ Len(Commands) <= CONSOLE_FUNCTION_TABLE_SIZE
    BY BootAssumption
  <2>3. k < Len(Commands) + 1 /\ k \in 1 .. CONSOLE_FUNCTION_TABLE_SIZE
    BY <2>2
  <2> QED BY <2>1, <2>3
<1>3. ASSUME phase = "commands"
      PROVE  /\ Len(functionLS) = Len(BootFiles)
             /\ \A k \in DOMAIN BootFiles : IsRowOf(functionLS[k], BootFiles[k])
  <2>1. FilesInv /\ \E s : Chained(s) /\ Installed(s, Len(BootFiles))
    BY <1>3 DEF BootInv, StorageInv, HasFiles, InstallInv
  <2>2. PICK s : Chained(s) /\ Installed(s, Len(BootFiles))
    BY <2>1
  <2>3. vfsList = s
    BY <2>1, <2>2, ShownInOrder DEF FilesInv
  <2>4. Len(BootFiles) \in Nat /\ DOMAIN BootFiles = 1 .. Len(BootFiles)
    BY BootAssumption
  <2>5. PICK l \in Nat : l = Len(BootFiles)
    BY <2>4
  <2>6. s \in Seq(Sector) /\ Len(s) = l /\ DOMAIN s = 1 .. l
    BY <2>2, <2>5 DEF Installed
  <2>7. functionLS = [n \in 1 .. l |-> Row(s[n])]
    BY <2>3, <2>6 DEF functionLS
  <2>8. Len(functionLS) = l
    BY <2>7
  <2>9. ASSUME NEW k \in 1 .. l PROVE IsRowOf(functionLS[k], BootFiles[k])
    <3>1. PICK f : f = s[k]
      OBVIOUS
    <3>2. f \in listed /\ IsCreated(created[f], k)
      BY <2>2, <2>5, <3>1 DEF Installed
    <3>3. IsRowOf(Row(f), created[f])
      BY <2>1, <3>2, RowRight
    <3>4. IsRowOf(Row(f), BootFiles[k])
      BY <3>2, <3>3 DEF IsRowOf, IsCreated
    <3>5. functionLS[k] = Row(f)
      BY <2>7, <3>1
    <3> QED BY <3>4, <3>5
  <2> QED BY <2>4, <2>5, <2>8, <2>9
<1> QED BY <1>1, <1>2, <1>3 DEF KernelReady

(* InitiateDeviceTable gives every driver the address of the first device  *)
(* of its kind, or leaves it the one it was built with, on every board and *)
(* whatever malloc left in the entries.                                    *)
THEOREM DriversCorrect == BootSpec => []DriversLinked
<1>1. BootInv => DriversLinked
  BY InvDriversLinked DEF BootInv
<1> QED BY BootInitInv, BootStep, <1>1, PTL DEF BootSpec

(* From the format on, and after every reset and boot again, fsVirtual.c   *)
(* shows each file once, with the name and the size it was created with,   *)
(* or as a directory.                                                      *)
THEOREM ListCorrect == BootSpec => []ListsAsCreated
<1>1. BootInv => ListsAsCreated
  BY InvListsAsCreated DEF BootInv, StorageInv, ListsAsCreated
<1> QED BY BootInitInv, BootStep, <1>1, PTL DEF BootSpec

(* fsDirectoryFindByName finds a file by any name that cleans to its own,  *)
(* and nothing by another.                                                 *)
THEOREM NameCorrect == BootSpec => []FoundByName
<1>1. BootInv => FoundByName
  BY InvFoundByName DEF BootInv, StorageInv, FoundByName
<1> QED BY BootInitInv, BootStep, <1>1, PTL DEF BootSpec

(* On every board and after every reset main ends with both devices of the *)
(* console and an entry for each command.  Where the memory that passed    *)
(* the test holds the partition, and only there is the boot followed past  *)
(* the format, kInit ends with its files, in their order, whatever the     *)
(* device held before.                                                     *)
THEOREM ReadyCorrect == BootSpec => []KernelReady
<1>1. BootInv => KernelReady
  BY InvKernelReady
<1> QED BY BootInitInv, BootStep, <1>1, PTL DEF BootSpec
=============================================================================
