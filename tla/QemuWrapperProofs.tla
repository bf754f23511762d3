------------------------- MODULE QemuWrapperProofs -------------------------
(***************************************************************************)
(* What the wrapper makes of the command line of a guest with any number   *)
(* of disks: where each argument ends up after the passes of the script,   *)
(* and that each disk of the guest reads its own file in its own format.   *)
(***************************************************************************)
EXTENDS CreateVmDataProofs

-----------------------------------------------------------------------------
(* FlattenSeq *)

\* f[i] is the concatenation of the pieces 1 to i, for i up to m.
Grows(f, ss, m) ==
    f = [i \in 1..m |-> IF i = 1 THEN ss[i] ELSE f[i - 1] \o ss[i]]
Growing(ss, m) == \E f : Grows(f, ss, m)

LEMMA AsSeq ==
  ASSUME NEW T, NEW n \in Nat, NEW f \in [1..n -> T]
  PROVE  f \in Seq(T) /\ Len(f) = n
  OBVIOUS

\* There is such a function of the first m pieces, for every m.
LEMMA PartGrows ==
  ASSUME NEW ss, Len(ss) \in Nat, NEW m \in 0..Len(ss)
  PROVE  Growing(ss, m)
  <1> DEFINE bad == {k \in 0..m : ~Growing(ss, k)}
  <1> SUFFICES ASSUME bad # {} PROVE FALSE
    <2>1. m \in 0..m
      OBVIOUS
    <2> QED BY <2>1
  <1>1. PICK k \in bad : \A n \in bad : k <= n
    <2>1. bad \subseteq Nat
      OBVIOUS
    <2> HIDE DEF bad
    <2> QED BY <2>1, Least
  <1>2. k # 0
    <2> DEFINE f == [i \in {} |-> 0]
    <2>1. 1..0 = {}
      OBVIOUS
    <2>2. Grows(f, ss, 0)
      BY <2>1 DEF Grows
    <2>3. Growing(ss, 0)
      BY <2>2 DEF Growing
    <2> QED BY <1>1, <2>3
  <1>3. k \in 1..m /\ k - 1 \in 0..m /\ Growing(ss, k - 1)
    BY <1>1, <1>2
  <1>4. PICK f : Grows(f, ss, k - 1)
    BY <1>3 DEF Growing
  <1> DEFINE g == [i \in 1..k |-> IF i < k THEN f[i]
                                  ELSE IF i = 1 THEN ss[i] ELSE f[i - 1] \o ss[i]]
  <1>5. ASSUME NEW i \in 1..k
        PROVE  g[i] = IF i = 1 THEN ss[i] ELSE g[i - 1] \o ss[i]
    <2>1. CASE i = 1
      BY <1>3, <1>4, <2>1 DEF Grows
    <2>2. CASE i # 1
      <3>1. i - 1 \in 1..(k - 1) /\ g[i - 1] = f[i - 1]
        BY <1>3, <2>2
      <3>2. CASE i = k
        <4>1. g[i] = f[i - 1] \o ss[i]
          <5>1. ~(i < k)
            BY <1>3, <3>2
          <5> QED BY Zenon, <2>2, <5>1
        <4> HIDE DEF g
        <4> QED BY <2>2, <3>1, <4>1
      <3>3. CASE i < k
        <4>1. g[i] = f[i] /\ i \in 1..(k - 1)
          BY <1>3, <3>3
        <4>2. f[i] = f[i - 1] \o ss[i]
          BY <1>4, <2>2, <4>1 DEF Grows
        <4> HIDE DEF g
        <4> QED BY <2>2, <3>1, <4>1, <4>2
      <3> QED BY <1>3, <3>2, <3>3
    <2> QED BY <2>1, <2>2
  <1>6. g = [i \in 1..k |-> g[i]]
    OBVIOUS
  <1> HIDE DEF g
  <1>7. g = [i \in 1..k |-> IF i = 1 THEN ss[i] ELSE g[i - 1] \o ss[i]]
    BY <1>5, <1>6
  <1>8. Growing(ss, k)
    BY <1>7 DEF Growing, Grows
  <1> QED BY <1>1, <1>8

LEMMA FlattenGrows ==
  ASSUME NEW ss, Len(ss) \in Nat, Len(ss) # 0
  PROVE  \E f : Grows(f, ss, Len(ss)) /\ SeqExt!FlattenSeq(ss) = f[Len(ss)]
  <1>1. \E f : Grows(f, ss, Len(ss))
    BY PartGrows DEF Growing
  <1>2. Grows(CHOOSE f : Grows(f, ss, Len(ss)), ss, Len(ss))
    BY <1>1, Zenon
  <1>3. SeqExt!FlattenSeq(ss) = (CHOOSE f : Grows(f, ss, Len(ss)))[Len(ss)]
    BY Zenon DEF SeqExt!FlattenSeq, Grows
  <1> QED BY <1>2, <1>3

\* F is the pieces of ss one after the other; piece i begins after off[i].
Lays(F, ss, off) ==
    /\ off \in [1..(Len(ss) + 1) -> Nat]
    /\ off[1] = 0
    /\ \A i \in 1..Len(ss) : off[i + 1] = off[i] + Len(ss[i])
    /\ Len(F) = off[Len(ss) + 1]
    /\ \A i \in 1..Len(ss) : \A j \in 1..Len(ss[i]) :
          off[i] + j <= Len(F) /\ F[off[i] + j] = ss[i][j]
    /\ \A k \in 1..Len(F) : \E i \in 1..Len(ss) : \E j \in 1..Len(ss[i]) : k = off[i] + j

\* The same of the first m pieces and their concatenation F.
LaysPart(F, ss, off, m) ==
    /\ Len(F) = off[m + 1]
    /\ \A i \in 1..m :
          /\ off[i] \in Nat /\ Len(ss[i]) \in Nat
          /\ \A j \in 1..Len(ss[i]) : off[i] + j <= Len(F) /\ F[off[i] + j] = ss[i][j]
    /\ \A x \in 1..Len(F) : \E i \in 1..m : \E j \in 1..Len(ss[i]) : x = off[i] + j

\* r is s followed by t.
Joined(s, t, r) ==
    /\ Len(s) \in Nat /\ Len(t) \in Nat /\ Len(r) = Len(s) + Len(t)
    /\ \A k \in 1..Len(s) : r[k] = s[k]
    /\ \A k \in 1..Len(t) : r[Len(s) + k] = t[k]

LEMMA Concatenated ==
  ASSUME NEW S, NEW s \in Seq(S), NEW t \in Seq(S)
  PROVE  s \o t \in Seq(S) /\ Joined(s, t, s \o t)
  BY ConcatProperties DEF Joined

\* One piece more.
LEMMA OneMore ==
  ASSUME NEW s, NEW t, NEW r, Joined(s, t, r),
         NEW ss, NEW off, NEW p \in Nat, LaysPart(s, ss, off, p),
         t = ss[p + 1], off[p + 1] = Len(s), off[p + 2] = Len(r)
  PROVE  LaysPart(r, ss, off, p + 1)
  <1> DEFINE a == Len(s)
             b == Len(t)
  <1>1. /\ a \in Nat /\ b \in Nat /\ Len(r) = a + b
        /\ \A k \in 1..a : r[k] = s[k]
        /\ \A k \in 1..b : r[a + k] = t[k]
    BY DEF Joined
  <1>2. off[p + 1] = a /\ ss[p + 1] = t /\ Len(ss[p + 1]) = b
    OBVIOUS
  <1>3. /\ \A i \in 1..p :
              /\ off[i] \in Nat /\ Len(ss[i]) \in Nat
              /\ \A j \in 1..Len(ss[i]) : off[i] + j <= a /\ s[off[i] + j] = ss[i][j]
        /\ \A x \in 1..a : \E i \in 1..p : \E j \in 1..Len(ss[i]) : x = off[i] + j
    BY DEF LaysPart
  <1> HIDE DEF a, b
  <1>4. ASSUME NEW i \in 1..(p + 1)
        PROVE  /\ off[i] \in Nat /\ Len(ss[i]) \in Nat
               /\ \A j \in 1..Len(ss[i]) : off[i] + j <= Len(r) /\ r[off[i] + j] = ss[i][j]
    <2>1. CASE i = p + 1
      <3>1. ASSUME NEW j \in 1..b
            PROVE  a + j <= Len(r) /\ r[a + j] = t[j]
        BY <1>1
      <3> QED BY <1>1, <1>2, <2>1, <3>1
    <2>2. CASE i \in 1..p
      <3>1. off[i] \in Nat /\ Len(ss[i]) \in Nat
        BY <1>3, <2>2
      <3>2. ASSUME NEW j \in 1..Len(ss[i])
            PROVE  off[i] + j <= Len(r) /\ r[off[i] + j] = ss[i][j]
        <4>1. off[i] + j <= a /\ s[off[i] + j] = ss[i][j]
          BY <1>3, <2>2
        <4> DEFINE x == off[i] + j
        <4>2. x \in 1..a
          BY <3>1, <4>1
        <4> HIDE DEF x
        <4>3. r[x] = s[x] /\ x <= Len(r)
          BY <1>1, <4>2
        <4> QED BY <4>1, <4>3 DEF x
      <3> QED BY <3>1, <3>2
    <2> QED BY <2>1, <2>2
  <1>5. ASSUME NEW x \in 1..Len(r)
        PROVE  \E i \in 1..(p + 1) : \E j \in 1..Len(ss[i]) : x = off[i] + j
    <2>1. CASE x \in 1..a
      <3>1. PICK i \in 1..p : \E j \in 1..Len(ss[i]) : x = off[i] + j
        BY <1>3, <2>1
      <3>2. i \in 1..(p + 1)
        OBVIOUS
      <3> QED BY <3>1, <3>2
    <2>2. CASE x \notin 1..a
      <3>1. x - a \in 1..b /\ x = a + (x - a) /\ p + 1 \in 1..(p + 1)
        BY <1>1, <1>2, <2>2
      <3>2. \E j \in 1..Len(ss[p + 1]) : x = off[p + 1] + j
        BY <1>2, <3>1
      <3> QED BY <3>1, <3>2
    <2> QED BY <2>1, <2>2
  <1>6. Len(r) = off[(p + 1) + 1]
    OBVIOUS
  <1> QED BY <1>4, <1>5, <1>6 DEF LaysPart

LEMMA GrownLays ==
  ASSUME NEW S, NEW ss \in Seq(Seq(S)), NEW f, Grows(f, ss, Len(ss)),
         NEW off, off = [i \in 1..(Len(ss) + 1) |-> IF i = 1 THEN 0 ELSE Len(f[i - 1])],
         NEW m \in 1..Len(ss)
  PROVE  f[m] \in Seq(S) /\ LaysPart(f[m], ss, off, m)
  <1> DEFINE Good(k) == f[k] \in Seq(S) /\ LaysPart(f[k], ss, off, k)
             bad == {k \in 1..Len(ss) : ~Good(k)}
  <1>1. Len(ss) \in Nat /\ \A i \in 1..Len(ss) : ss[i] \in Seq(S) /\ Len(ss[i]) \in Nat
    OBVIOUS
  <1> HIDE DEF Good
  <1> SUFFICES ASSUME bad # {} PROVE FALSE
    BY DEF Good
  <1>2. PICK k \in bad : \A n \in bad : k <= n
    <2>1. bad \subseteq Nat
      BY <1>1
    <2> HIDE DEF bad
    <2> QED BY <2>1, Least
  <1>3. k \in 1..Len(ss) /\ k \in Nat /\ ~Good(k)
    BY <1>1, <1>2
  <1>4. CASE k = 1
    <2>1. f[1] = ss[1] /\ off[1] = 0 /\ off[1 + 1] = Len(f[1])
      BY <1>1, <1>3, <1>4 DEF Grows
    <2>2. ss[1] \in Seq(S) /\ Len(ss[1]) \in Nat
      BY <1>1, <1>3, <1>4
    <2>3. LaysPart(f[1], ss, off, 1)
      BY <2>1, <2>2 DEF LaysPart
    <2> QED BY <1>3, <1>4, <2>1, <2>2, <2>3 DEF Good
  <1>5. CASE k # 1
    <2> DEFINE p == k - 1
               s == f[p]
               t == ss[k]
               r == f[k]
    <2>1. p \in 1..Len(ss) /\ p \in Nat /\ k = p + 1 /\ Good(p)
      BY <1>1, <1>2, <1>3, <1>5
    <2>2. r = s \o t
      BY Zenon, <1>3, <1>5 DEF Grows
    <2>3. off[p + 2] = Len(r) /\ off[p + 1] = Len(s) /\ t = ss[p + 1]
      <3>1. k \in 1..(Len(ss) + 1) /\ k + 1 \in 1..(Len(ss) + 1) /\ k # 1 /\ k + 1 # 1
            /\ (k + 1) - 1 = k /\ k - 1 = p /\ p + 2 = k + 1 /\ p + 1 = k
        BY <1>1, <1>3, <1>5
      <3> QED BY <3>1
    <2>4. s \in Seq(S) /\ t \in Seq(S) /\ LaysPart(s, ss, off, p)
      BY <1>1, <1>3, <2>1 DEF Good
    <2> HIDE DEF p, s, t, r
    <2>5. r \in Seq(S) /\ Joined(s, t, r)
      BY Zenon, <2>2, <2>4, Concatenated
    <2>6. LaysPart(r, ss, off, p + 1)
      BY <2>1, <2>3, <2>4, <2>5, OneMore
    <2> QED BY <1>3, <2>1, <2>5, <2>6 DEF Good, r
  <1> QED BY <1>4, <1>5

\* FlattenSeq lays the pieces one after the other.
LEMMA FlattenLays ==
  ASSUME NEW S, NEW ss \in Seq(Seq(S))
  PROVE  /\ SeqExt!FlattenSeq(ss) \in Seq(S)
         /\ \E off : Lays(SeqExt!FlattenSeq(ss), ss, off)
  <1> DEFINE n == Len(ss)
             F == SeqExt!FlattenSeq(ss)
  <1>1. n \in Nat /\ \A i \in 1..n : ss[i] \in Seq(S) /\ Len(ss[i]) \in Nat
    OBVIOUS
  <1>2. CASE n = 0
    <2>1. F = ss
      BY Zenon, <1>2 DEF SeqExt!FlattenSeq
    <2>2. ss = << >>
      BY <1>2
    <2> HIDE DEF F
    <2> DEFINE off == [i \in 1..1 |-> 0]
    <2>3. Lays(F, ss, off)
      BY <2>1, <2>2 DEF Lays
    <2> QED BY <2>1, <2>2, <2>3 DEF F
  <1>3. CASE n # 0
    <2>1. PICK f : Grows(f, ss, n) /\ F = f[n]
      BY <1>1, <1>3, FlattenGrows
    <2> HIDE DEF F
    <2> DEFINE off == [i \in 1..(n + 1) |-> IF i = 1 THEN 0 ELSE Len(f[i - 1])]
    <2>2. \A m \in 1..n : f[m] \in Seq(S) /\ LaysPart(f[m], ss, off, m)
      BY <2>1, GrownLays
    <2>3. n \in 1..n /\ F \in Seq(S) /\ LaysPart(F, ss, off, n)
      BY <1>1, <1>3, <2>1, <2>2
    <2>4. off[1] = 0
      BY <1>1
    <2>5. ASSUME NEW i \in 1..n PROVE off[i + 1] = off[i] + Len(ss[i])
      <3>1. off[i + 1] = Len(f[i])
        BY <1>1
      <3>2. CASE i = 1
        <4>1. f[1] = ss[1]
          BY <2>1, <3>2 DEF Grows
        <4> QED BY <1>1, <2>4, <3>1, <3>2, <4>1
      <3>3. CASE i # 1
        <4> DEFINE s == f[i - 1]
                   t == ss[i]
                   r == f[i]
        <4>1. r = s \o t
          BY Zenon, <2>1, <3>3 DEF Grows
        <4>2. i - 1 \in 1..n /\ s \in Seq(S) /\ t \in Seq(S)
          <5>1. i - 1 \in 1..n
            BY <1>1, <3>3
          <5> QED BY <1>1, <2>2, <5>1
        <4>3. off[i] = Len(s)
          BY <1>1, <3>3
        <4> HIDE DEF s, t, r, off
        <4>4. Joined(s, t, r)
          BY Zenon, <4>1, <4>2, Concatenated
        <4> QED BY <3>1, <4>3, <4>4 DEF r, t, Joined
      <3> QED BY <3>2, <3>3
    <2>6. off \in [1..(n + 1) -> Nat]
      <3>1. ASSUME NEW i \in 1..(n + 1), i # 1 PROVE Len(f[i - 1]) \in Nat
        <4>1. i - 1 \in 1..n
          BY <1>1, <3>1
        <4>2. f[i - 1] \in Seq(S)
          BY <2>2, <4>1
        <4> QED BY <4>2
      <3> QED BY <3>1
    <2> HIDE DEF off
    <2>7. Lays(F, ss, off)
      BY <2>3, <2>4, <2>5, <2>6 DEF Lays, LaysPart
    <2> QED BY <2>3, <2>7 DEF F
  <1> QED BY <1>2, <1>3

\* The pieces from m on have the length w; where they begin.
AllLong(ss, m, w) == \A i \in m..Len(ss) : Len(ss[i]) = w
Evenly(ss, off, m, w) == \A x \in m..(Len(ss) + 1) : off[x] = off[m] + w * (x - m)

LEMMA Even ==
  ASSUME NEW F, NEW ss, NEW off, Lays(F, ss, off), Len(ss) \in Nat,
         NEW w \in {1, 4}, NEW m \in 1..(Len(ss) + 1), AllLong(ss, m, w)
  PROVE  Evenly(ss, off, m, w)
  <1> DEFINE n == Len(ss)
             bad == {i \in m..(n + 1) : off[i] # off[m] + w * (i - m)}
  <1>1. n \in Nat /\ off \in [1..(n + 1) -> Nat]
        /\ \A i \in 1..n : off[i + 1] = off[i] + Len(ss[i])
    BY DEF Lays
  <1> SUFFICES ASSUME bad # {} PROVE FALSE
    BY DEF Evenly
  <1>2. PICK k \in bad : \A i \in bad : k <= i
    <2>1. bad \subseteq Nat
      BY <1>1
    <2> HIDE DEF bad
    <2> QED BY <2>1, Least
  <1>3. k \in m..(n + 1) /\ off[k] # off[m] + w * (k - m)
    BY <1>2
  <1>4. m \in 1..(n + 1) /\ off[m] \in Nat /\ m \in Nat
    <2>1. m \in 1..(n + 1) /\ m \in Nat
      OBVIOUS
    <2> HIDE DEF n
    <2> QED BY <1>1, <2>1
  <1>5. k # m
    BY <1>3, <1>4
  <1>6. k - 1 \in m..n /\ k - 1 \notin bad /\ k = (k - 1) + 1
    BY <1>1, <1>2, <1>3, <1>4, <1>5
  <1> DEFINE p == k - 1
  <1>7. off[p] = off[m] + w * (p - m) /\ p \in m..n /\ k = p + 1
    BY <1>6
  <1>8. off[p + 1] = off[p] + w /\ off[p] \in Nat /\ p \in 1..n
    <2>1. p \in 1..n /\ p \in 1..(n + 1) /\ p \in m..n
      BY <1>1, <1>4, <1>7
    <2>2. Len(ss[p]) = w
      BY <2>1 DEF AllLong
    <2> HIDE DEF n, p
    <2> QED BY <1>1, <2>1, <2>2
  <1> HIDE DEF p, bad
  <1>9. off[k] = off[m] + w * (k - m)
    <2>1. CASE w = 1
      BY <1>4, <1>7, <1>8, <2>1
    <2>2. CASE w = 4
      BY <1>4, <1>7, <1>8, <2>2
    <2> QED BY <2>1, <2>2
  <1> QED BY <1>3, <1>9

\* A map of each argument to itself alone is the identity.
LEMMA Singletons ==
  ASSUME NEW S, NEW s \in Seq(S), NEW ss, ss = [i \in 1..Len(s) |-> <<s[i]>>]
  PROVE  SeqExt!FlattenSeq(ss) = s
  <1> DEFINE n == Len(s)
             F == SeqExt!FlattenSeq(ss)
  <1>1. n \in Nat /\ \A i \in 1..n : s[i] \in S
    OBVIOUS
  <1>2. ss \in Seq(Seq(S)) /\ Len(ss) = n
    BY <1>1
  <1>3. \A i \in 1..n : Len(ss[i]) = 1 /\ ss[i][1] = s[i]
    OBVIOUS
  <1>4. F \in Seq(S) /\ \E off : Lays(F, ss, off)
    BY <1>2, FlattenLays
  <1> HIDE DEF F
  <1>5. PICK off : Lays(F, ss, off)
    BY <1>4
  <1>6. off[1] = 0 /\ Len(F) = off[n + 1]
        /\ \A i \in 1..n : \A j \in 1..Len(ss[i]) : F[off[i] + j] = ss[i][j]
    BY <1>2, <1>5 DEF Lays
  <1>7. ASSUME NEW x \in 1..(n + 1) PROVE off[x] = x - 1
    <2> DEFINE w == 1
               m == 1
    <2>1. w \in {1, 4} /\ m \in 1..(Len(ss) + 1) /\ AllLong(ss, m, w)
      BY <1>1, <1>2, <1>3 DEF AllLong
    <2>2. x \in m..(Len(ss) + 1)
      BY <1>2
    <2> HIDE DEF w, m
    <2>3. Len(ss) \in Nat
      BY <1>1, <1>2
    <2>4. Evenly(ss, off, m, w)
      BY <1>5, <2>1, <2>3, Even
    <2> QED BY <1>1, <1>6, <2>2, <2>4 DEF w, m, Evenly
  <1>8. Len(F) = n
    BY <1>1, <1>6, <1>7
  <1>9. ASSUME NEW i \in 1..n PROVE F[i] = s[i]
    <2>1. off[i] = i - 1
      BY <1>1, <1>7
    <2>2. F[off[i] + 1] = s[i]
      BY <1>3, <1>6
    <2> QED BY <2>1, <2>2
  <1>10. F = s
    BY <1>4, <1>8, <1>9
  <1> QED BY <1>10 DEF F

-----------------------------------------------------------------------------
(* The passes of the wrapper *)

LEMMA Parts ==
  ASSUME NEW i, NEW path, NEW spaced
  PROVE  /\ BlockFile(i, path, spaced).text = "file"
         /\ BlockFile(i, path, spaced).disk = i
         /\ BlockFile(i, path, spaced).node = i
         /\ BlockFile(i, path, spaced).ext = path.ext
         /\ Device(i).text = "drive" /\ Device(i).disk = i /\ Device(i).ref = i
         /\ Device(i).node = 0
  BY DEF BlockFile, Device, Option

LEMMA OptionText == \A text : Option(text).text = text /\ Option(text).node = 0
  BY DEF Option

LEMMA Unspaced ==
  ASSUME NEW i, NEW path
  PROVE  /\ \A text : ~Option(text).spaced
         /\ ~BlockFile(i, path, FALSE).spaced
         /\ ~Device(i).spaced
  BY DEF BlockFile, Device, Option

\* The arguments of the disks, after the first k arguments.
DiskArgs(args, k, volumes, spaced) ==
    /\ Len(args) = k + 4 * Len(volumes)
    /\ \A i \in 1..Len(volumes) :
          /\ args[k + 4 * i - 3] = Option("-blockdev")
          /\ args[k + 4 * i - 2] = BlockFile(i, volumes[i], spaced[i])
          /\ args[k + 4 * i - 1] = Option("-device")
          /\ args[k + 4 * i] = Device(i)
    /\ \A x \in (k + 1)..Len(args) :
          \E i \in 1..Len(volumes) : x \in (k + 4 * i - 3)..(k + 4 * i)

\* SplitWords changes nothing without a space in a name.
LEMMA NothingSplit ==
  ASSUME NEW S, NEW args \in Seq(S), \A i \in 1..Len(args) : ~args[i].spaced
  PROVE  SplitWords(args) = args
  <1> DEFINE ss == [i \in 1..Len(args) |-> <<args[i]>>]
  <1>1. DOMAIN args = 1..Len(args)
    OBVIOUS
  <1>2. SplitWords(args) = SeqExt!FlattenSeq([i \in DOMAIN args |->
          IF args[i].spaced THEN <<Option("piece"), Option("piece")>> ELSE <<args[i]>>])
    BY DEF SplitWords, MapEach
  <1>3. [i \in DOMAIN args |->
          IF args[i].spaced THEN <<Option("piece"), Option("piece")>> ELSE <<args[i]>>] = ss
    BY Zenon, <1>1
  <1>4. SeqExt!FlattenSeq(ss) = args
    BY Singletons
  <1> QED BY <1>2, <1>3, <1>4

\* What libvirt writes: four arguments, then four for each disk.
Opening == <<Option("-name"), Option("guest"), Option("-sandbox"), Option("on")>>

LEMMA Launched ==
  ASSUME NEW V, NEW volumes \in Seq(V), NEW spaced
  PROVE  \E S : /\ LaunchArgs(volumes, spaced) \in Seq(S)
                /\ DiskArgs(LaunchArgs(volumes, spaced), 4, volumes, spaced)
                /\ \A x \in 1..4 : LaunchArgs(volumes, spaced)[x] = Opening[x]
  <1> DEFINE n == Len(volumes)
             Quad(i) == <<Option("-blockdev"), BlockFile(i, volumes[i], spaced[i]),
                          Option("-device"), Device(i)>>
             ss == [i \in 1..n |-> Quad(i)]
             F == SeqExt!FlattenSeq(ss)
             A == LaunchArgs(volumes, spaced)
             S == {Option("-name"), Option("guest"), Option("-sandbox"), Option("on"),
                   Option("-blockdev"), Option("-device")}
                  \cup {BlockFile(i, volumes[i], spaced[i]) : i \in 1..n}
                  \cup {Device(i) : i \in 1..n}
  <1>1. n \in Nat /\ DOMAIN volumes = 1..n
    OBVIOUS
  <1>2. A = Opening \o F
    BY <1>1 DEF LaunchArgs, MapEach, Opening
  <1>3. Opening \in Seq(S) /\ Len(Opening) = 4
    BY DEF Opening
  <1>4. ASSUME NEW i \in 1..n
        PROVE  /\ ss[i] \in Seq(S) /\ Len(ss[i]) = 4
               /\ ss[i][1] = Option("-blockdev")
               /\ ss[i][2] = BlockFile(i, volumes[i], spaced[i])
               /\ ss[i][3] = Option("-device")
               /\ ss[i][4] = Device(i)
    OBVIOUS
  <1>5. ss \in Seq(Seq(S)) /\ Len(ss) = n
    <2> HIDE DEF S, Quad
    <2> QED BY <1>1, <1>4 DEF Quad
  <1> HIDE DEF S, ss, F, A
  <1>6. F \in Seq(S) /\ \E off : Lays(F, ss, off)
    BY <1>5, FlattenLays DEF F
  <1>7. PICK off : Lays(F, ss, off)
    BY <1>6
  <1>8. /\ off[1] = 0 /\ Len(F) = off[n + 1]
        /\ \A i \in 1..n : \A j \in 1..Len(ss[i]) : F[off[i] + j] = ss[i][j]
        /\ \A k \in 1..Len(F) : \E i \in 1..n : \E j \in 1..Len(ss[i]) : k = off[i] + j
    <2> HIDE DEF n, Quad
    <2> QED BY Zenon, <1>5, <1>7 DEF Lays
  <1>9. ASSUME NEW x \in 1..(n + 1) PROVE off[x] = 4 * x - 4
    <2> DEFINE w == 4
               m == 1
    <2>1. w \in {1, 4} /\ m \in 1..(Len(ss) + 1) /\ AllLong(ss, m, w)
      BY <1>1, <1>4, <1>5 DEF AllLong
    <2>2. x \in m..(Len(ss) + 1)
      BY <1>5
    <2> HIDE DEF w, m
    <2>3. Len(ss) \in Nat
      BY <1>1, <1>5
    <2>4. Evenly(ss, off, m, w)
      BY <1>7, <2>1, <2>3, Even
    <2> QED BY <1>1, <1>8, <2>2, <2>4 DEF w, m, Evenly
  <1>10. Len(F) = 4 * n
    BY <1>1, <1>8, <1>9
  <1>11. A \in Seq(S) /\ Joined(Opening, F, A)
    BY Zenon, <1>2, <1>3, <1>6, Concatenated
  <1>12. /\ Len(A) = 4 + 4 * n
         /\ \A x \in 1..4 : A[x] = Opening[x]
         /\ \A x \in 1..(4 * n) : A[4 + x] = F[x]
    BY <1>3, <1>10, <1>11 DEF Joined
  <1>13. ASSUME NEW i \in 1..n
         PROVE  /\ A[4 + 4 * i - 3] = Option("-blockdev")
                /\ A[4 + 4 * i - 2] = BlockFile(i, volumes[i], spaced[i])
                /\ A[4 + 4 * i - 1] = Option("-device")
                /\ A[4 + 4 * i] = Device(i)
    <2>1. off[i] = 4 * i - 4
      BY <1>1, <1>9
    <2>2. ASSUME NEW j \in 1..4 PROVE A[4 + 4 * i - 4 + j] = ss[i][j]
      <3>1. F[off[i] + j] = ss[i][j]
        BY <1>4, <1>8
      <3>2. off[i] + j \in 1..(4 * n) /\ 4 + (off[i] + j) = 4 + 4 * i - 4 + j
        BY <1>1, <2>1
      <3> QED BY <1>12, <3>1, <3>2
    <2>3. 4 + 4 * i - 3 = 4 + 4 * i - 4 + 1 /\ 4 + 4 * i - 2 = 4 + 4 * i - 4 + 2
          /\ 4 + 4 * i - 1 = 4 + 4 * i - 4 + 3 /\ 4 + 4 * i = 4 + 4 * i - 4 + 4
      BY <1>1
    <2>4. A[4 + 4 * i - 4 + 1] = ss[i][1] /\ A[4 + 4 * i - 4 + 2] = ss[i][2]
          /\ A[4 + 4 * i - 4 + 3] = ss[i][3] /\ A[4 + 4 * i - 4 + 4] = ss[i][4]
      BY <2>2
    <2> QED BY <1>4, <2>3, <2>4
  <1>14. ASSUME NEW x \in (4 + 1)..Len(A)
         PROVE  \E i \in 1..n : x \in (4 + 4 * i - 3)..(4 + 4 * i)
    <2>1. x - 4 \in 1..Len(F)
      BY <1>1, <1>10, <1>12
    <2>2. PICK i \in 1..n : \E j \in 1..Len(ss[i]) : x - 4 = off[i] + j
      BY <1>8, <2>1
    <2>3. PICK j \in 1..4 : x - 4 = off[i] + j
      BY <1>4, <2>2
    <2>4. off[i] = 4 * i - 4
      BY <1>1, <1>9
    <2>5. x \in (4 + 4 * i - 3)..(4 + 4 * i)
      BY <1>1, <2>3, <2>4
    <2> QED BY <2>5
  <1>15. DiskArgs(A, 4, volumes, spaced)
    BY <1>12, <1>13, <1>14 DEF DiskArgs
  <1> QED BY <1>11, <1>12, <1>15 DEF A

\* Of the arguments of the disks none is one of the other options.
LEMMA DiskTexts ==
  ASSUME NEW V, NEW volumes \in Seq(V), NEW spaced, NEW args, NEW k \in Nat,
         DiskArgs(args, k, volumes, spaced), NEW x \in (k + 1)..Len(args)
  PROVE  args[x].text \in {"-blockdev", "file", "-device", "drive"}
  <1> DEFINE n == Len(volumes)
  <1>1. n \in Nat /\ Len(args) = k + 4 * n
    BY DEF DiskArgs
  <1>2. PICK i \in 1..n : x \in (k + 4 * i - 3)..(k + 4 * i)
    BY DEF DiskArgs
  <1>3. /\ args[k + 4 * i - 3] = Option("-blockdev")
        /\ args[k + 4 * i - 2] = BlockFile(i, volumes[i], spaced[i])
        /\ args[k + 4 * i - 1] = Option("-device")
        /\ args[k + 4 * i] = Device(i)
    BY DEF DiskArgs
  <1>4. x = k + 4 * i - 3 \/ x = k + 4 * i - 2 \/ x = k + 4 * i - 1 \/ x = k + 4 * i
    BY <1>1, <1>2
  <1>5. /\ args[k + 4 * i - 3].text = "-blockdev"
        /\ args[k + 4 * i - 2].text = "file"
        /\ args[k + 4 * i - 1].text = "-device"
        /\ args[k + 4 * i].text = "drive"
    BY <1>3, Parts, OptionText
  <1> QED BY <1>4, <1>5

LEMMA Stripped ==
  ASSUME NEW V, NEW volumes \in Seq(V), NEW spaced, NEW S, NEW A \in Seq(S),
         DiskArgs(A, 4, volumes, spaced), \A x \in 1..4 : A[x] = Opening[x]
  PROVE  /\ StripSandbox(A) \in Seq(S)
         /\ DiskArgs(StripSandbox(A), 2, volumes, spaced)
         /\ StripSandbox(A)[1] = Option("-name") /\ StripSandbox(A)[2] = Option("guest")
  <1> DEFINE n == Len(volumes)
             l == 4 + 4 * n
             ss == [i \in 1..Len(A) |->
                      IF A[i].text = "-sandbox" \/ After(A, i, "-sandbox")
                      THEN << >> ELSE <<A[i]>>]
             B == StripSandbox(A)
  <1>1. n \in Nat /\ Len(A) = l /\ l \in Nat /\ DOMAIN A = 1..l /\ l >= 4
    BY DEF DiskArgs
  <1>2. B = SeqExt!FlattenSeq(ss)
    BY <1>1 DEF StripSandbox, MapEach
  <1>3. /\ A[1] = Option("-name") /\ A[2] = Option("guest")
        /\ A[3] = Option("-sandbox") /\ A[4] = Option("on")
    BY DEF Opening
  <1>4. /\ A[1].text = "-name" /\ A[2].text = "guest"
        /\ A[3].text = "-sandbox" /\ A[4].text = "on"
    BY <1>3, OptionText
  <1>5. ASSUME NEW x \in 1..l PROVE A[x].text = "-sandbox" <=> x = 3
    <2>1. CASE x \in 5..l
      <3>1. A[x].text \in {"-blockdev", "file", "-device", "drive"}
        <4> DEFINE k == 4
        <4>1. k \in Nat /\ DiskArgs(A, k, volumes, spaced) /\ x \in (k + 1)..Len(A)
          BY <1>1, <2>1
        <4> HIDE DEF k
        <4> QED BY <4>1, DiskTexts
      <3> QED BY <1>1, <2>1, <3>1
    <2>2. CASE x \in 1..4
      BY <1>4, <2>2
    <2> QED BY <1>1, <2>1, <2>2
  <1>6. ASSUME NEW x \in 1..l
        PROVE  (A[x].text = "-sandbox" \/ After(A, x, "-sandbox")) <=> x \in {3, 4}
    <2>1. CASE x = 1
      BY <1>5, <2>1 DEF After
    <2>2. CASE x # 1
      <3>1. x - 1 \in 1..l /\ x > 1
        BY <1>1, <2>2
      <3>2. A[x - 1].text = "-sandbox" <=> x - 1 = 3
        BY <1>5, <3>1
      <3> QED BY <1>1, <1>5, <3>1, <3>2 DEF After
    <2> QED BY <2>1, <2>2
  <1>7. ASSUME NEW x \in 1..l
        PROVE  /\ x \in {3, 4} => ss[x] = << >>
               /\ x \notin {3, 4} => ss[x] = <<A[x]>>
    BY <1>1, <1>6
  <1>8. Len(ss) = l /\ ss \in Seq(Seq(S))
    <2>1. \A x \in 1..l : ss[x] \in Seq(S)
      <3>1. \A x \in 1..l : A[x] \in S
        BY <1>1
      <3> HIDE DEF ss, l
      <3> SUFFICES ASSUME NEW x \in 1..l PROVE ss[x] \in Seq(S)
        OBVIOUS
      <3>2. CASE x \in {3, 4}
        <4>1. ss[x] = << >>
          BY <1>7, <3>2
        <4> QED BY <4>1
      <3>3. CASE x \notin {3, 4}
        <4>1. ss[x] = <<A[x]>> /\ A[x] \in S
          BY <1>7, <3>1, <3>3
        <4> QED BY <4>1
      <3> QED BY <3>2, <3>3
    <2>2. ss = [x \in 1..l |-> ss[x]]
      BY Zenon, <1>1
    <2> HIDE DEF ss, l
    <2>3. ss \in [1..l -> Seq(S)]
      BY Zenon, <2>1, <2>2
    <2> QED BY <1>1, <2>3, AsSeq
  <1> HIDE DEF ss, B, l
  <1>9. B \in Seq(S) /\ \E off : Lays(B, ss, off)
    BY <1>2, <1>8, FlattenLays
  <1>10. PICK off : Lays(B, ss, off)
    BY <1>9
  <1>11. /\ off[1] = 0 /\ Len(B) = off[l + 1]
         /\ \A i \in 1..l : off[i + 1] = off[i] + Len(ss[i])
         /\ \A i \in 1..l : \A j \in 1..Len(ss[i]) : B[off[i] + j] = ss[i][j]
    BY <1>8, <1>10 DEF Lays
  <1>12. /\ \A i \in 1..l : i \notin {3, 4} => Len(ss[i]) = 1 /\ ss[i][1] = A[i]
         /\ \A i \in 1..l : i \in {3, 4} => Len(ss[i]) = 0
    <2>1. ASSUME NEW i \in 1..l, i \notin {3, 4} PROVE Len(ss[i]) = 1 /\ ss[i][1] = A[i]
      <3>1. ss[i] = <<A[i]>>
        BY <1>7, <2>1
      <3> QED BY <3>1
    <2>2. ASSUME NEW i \in 1..l, i \in {3, 4} PROVE Len(ss[i]) = 0
      <3>1. ss[i] = << >>
        BY <1>7, <2>2
      <3> QED BY <3>1
    <2> QED BY <2>1, <2>2
  <1>13. off[2] = 1 /\ off[3] = 2 /\ off[4] = 2 /\ off[5] = 2
    <2>1. 1 \in 1..l /\ 2 \in 1..l /\ 3 \in 1..l /\ 4 \in 1..l
      BY <1>1
    <2>2. /\ off[1 + 1] = off[1] + Len(ss[1]) /\ off[2 + 1] = off[2] + Len(ss[2])
          /\ off[3 + 1] = off[3] + Len(ss[3]) /\ off[4 + 1] = off[4] + Len(ss[4])
      BY <1>11, <2>1
    <2>3. Len(ss[1]) = 1 /\ Len(ss[2]) = 1 /\ Len(ss[3]) = 0 /\ Len(ss[4]) = 0
      BY <1>12, <2>1
    <2> QED BY <1>11, <2>2, <2>3
  <1>14. ASSUME NEW x \in 5..(l + 1) PROVE off[x] = x - 3
    <2> DEFINE w == 1
               m == 5
    <2>1. w \in {1, 4} /\ m \in 1..(Len(ss) + 1) /\ AllLong(ss, m, w)
      BY <1>1, <1>8, <1>12 DEF AllLong
    <2>2. x \in m..(Len(ss) + 1)
      BY <1>8
    <2> HIDE DEF w, m
    <2>3. Len(ss) \in Nat
      BY <1>1, <1>8
    <2>4. Evenly(ss, off, m, w)
      BY <1>10, <2>1, <2>3, Even
    <2> QED BY <1>1, <1>13, <2>2, <2>4 DEF w, m, Evenly
  <1>15. Len(B) = 2 + 4 * n
    BY <1>1, <1>11, <1>14 DEF l
  <1>16. B[1] = Option("-name") /\ B[2] = Option("guest")
    <2>1. 1 \in 1..l /\ 2 \in 1..l
      BY <1>1
    <2>2. B[off[1] + 1] = A[1] /\ B[off[2] + 1] = A[2]
      BY <1>11, <1>12, <2>1
    <2> QED BY <1>3, <1>11, <1>13, <2>2
  <1>17. ASSUME NEW x \in 3..(2 + 4 * n) PROVE B[x] = A[x + 2]
    <2>1. x + 2 \in 5..l /\ x + 2 \in 1..l /\ x + 2 \in 5..(l + 1)
      BY <1>1 DEF l
    <2>2. off[x + 2] = (x + 2) - 3
      BY <1>14, <2>1
    <2>3. B[off[x + 2] + 1] = A[x + 2]
      <3>1. x + 2 \notin {3, 4}
        BY <2>1
      <3> QED BY <1>11, <1>12, <2>1, <3>1
    <2> QED BY <2>2, <2>3
  <1>18. ASSUME NEW i \in 1..n
         PROVE  /\ B[2 + 4 * i - 3] = Option("-blockdev")
                /\ B[2 + 4 * i - 2] = BlockFile(i, volumes[i], spaced[i])
                /\ B[2 + 4 * i - 1] = Option("-device")
                /\ B[2 + 4 * i] = Device(i)
    <2>1. /\ A[4 + 4 * i - 3] = Option("-blockdev")
          /\ A[4 + 4 * i - 2] = BlockFile(i, volumes[i], spaced[i])
          /\ A[4 + 4 * i - 1] = Option("-device")
          /\ A[4 + 4 * i] = Device(i)
      BY DEF DiskArgs
    <2>2. ASSUME NEW j \in 0..3
          PROVE  B[2 + 4 * i - j] = A[4 + 4 * i - j]
      <3>1. 2 + 4 * i - j \in 3..(2 + 4 * n) /\ (2 + 4 * i - j) + 2 = 4 + 4 * i - j
        BY <1>1
      <3> QED BY <1>17, <3>1
    <2>3. 2 + 4 * i - 0 = 2 + 4 * i /\ 4 + 4 * i - 0 = 4 + 4 * i
      BY <1>1
    <2>4. B[2 + 4 * i - 3] = A[4 + 4 * i - 3] /\ B[2 + 4 * i - 2] = A[4 + 4 * i - 2]
          /\ B[2 + 4 * i - 1] = A[4 + 4 * i - 1] /\ B[2 + 4 * i - 0] = A[4 + 4 * i - 0]
      BY <2>2
    <2> QED BY <2>1, <2>3, <2>4
  <1>19. ASSUME NEW x \in (2 + 1)..Len(B)
         PROVE  \E i \in 1..n : x \in (2 + 4 * i - 3)..(2 + 4 * i)
    <2>1. x + 2 \in (4 + 1)..Len(A)
      BY <1>1, <1>15 DEF l
    <2>2. PICK i \in 1..n : x + 2 \in (4 + 4 * i - 3)..(4 + 4 * i)
      BY <2>1 DEF DiskArgs
    <2>3. x \in (2 + 4 * i - 3)..(2 + 4 * i)
      BY <1>1, <2>1, <2>2
    <2> QED BY <2>3
  <1>20. DiskArgs(B, 2, volumes, spaced)
    BY <1>15, <1>18, <1>19 DEF DiskArgs
  <1> QED BY <1>9, <1>16, <1>20 DEF B

\* The nodes over which the wrapper puts a format, and what its disks become.
Qcow2(volumes) == {i \in 1..Len(volumes) : volumes[i].ext = "qcow2"}
Moved(i) == [Device(i) EXCEPT !.ref = Fmt(@)]

\* What is known of the arguments of disk i before the formats are put in.
Placed(B, volumes, spaced) ==
    /\ Len(volumes) \in Nat /\ Len(B) = 2 + 4 * Len(volumes)
    /\ B[1].text = "-name" /\ B[2].text = "guest"
    /\ \A i \in 1..Len(volumes) :
          /\ B[4 * i - 1] = Option("-blockdev") /\ B[4 * i - 1].text = "-blockdev"
          /\ B[4 * i] = BlockFile(i, volumes[i], spaced[i])
          /\ B[4 * i].text = "file" /\ B[4 * i].node = i
          /\ B[4 * i].ext = volumes[i].ext
          /\ B[4 * i + 1] = Option("-device") /\ B[4 * i + 1].text = "-device"
          /\ B[4 * i + 2] = Device(i)
          /\ B[4 * i + 2].text = "drive" /\ B[4 * i + 2].ref = i
    /\ \A x \in 1..Len(B) :
          x \in {1, 2} \/ \E i \in 1..Len(volumes) : x \in (4 * i - 1)..(4 * i + 2)

LEMMA DiskPlaces ==
  ASSUME NEW V, NEW volumes \in Seq(V), NEW spaced, NEW S, NEW B \in Seq(S),
         DiskArgs(B, 2, volumes, spaced),
         B[1] = Option("-name"), B[2] = Option("guest")
  PROVE  Placed(B, volumes, spaced)
  <1> DEFINE n == Len(volumes)
  <1>1. n \in Nat /\ Len(B) = 2 + 4 * n
    BY DEF DiskArgs
  <1>2. B[1].text = "-name" /\ B[2].text = "guest"
    BY OptionText
  <1>3. ASSUME NEW i \in 1..n
        PROVE  /\ B[4 * i - 1] = Option("-blockdev") /\ B[4 * i - 1].text = "-blockdev"
               /\ B[4 * i] = BlockFile(i, volumes[i], spaced[i])
               /\ B[4 * i].text = "file" /\ B[4 * i].node = i
               /\ B[4 * i].ext = volumes[i].ext
               /\ B[4 * i + 1] = Option("-device") /\ B[4 * i + 1].text = "-device"
               /\ B[4 * i + 2] = Device(i)
               /\ B[4 * i + 2].text = "drive" /\ B[4 * i + 2].ref = i
    <2>1. /\ B[2 + 4 * i - 3] = Option("-blockdev")
          /\ B[2 + 4 * i - 2] = BlockFile(i, volumes[i], spaced[i])
          /\ B[2 + 4 * i - 1] = Option("-device")
          /\ B[2 + 4 * i] = Device(i)
      BY DEF DiskArgs
    <2>2. /\ 2 + 4 * i - 3 = 4 * i - 1 /\ 2 + 4 * i - 2 = 4 * i
          /\ 2 + 4 * i - 1 = 4 * i + 1 /\ 2 + 4 * i = 4 * i + 2
      BY <1>1
    <2>3. /\ B[4 * i - 1] = Option("-blockdev")
          /\ B[4 * i] = BlockFile(i, volumes[i], spaced[i])
          /\ B[4 * i + 1] = Option("-device")
          /\ B[4 * i + 2] = Device(i)
      BY <2>1, <2>2
    <2>4. B[4 * i - 1].text = "-blockdev" /\ B[4 * i + 1].text = "-device"
      BY Zenon, <2>3, OptionText
    <2>5. /\ B[4 * i].text = "file" /\ B[4 * i].node = i /\ B[4 * i].ext = volumes[i].ext
          /\ B[4 * i + 2].text = "drive" /\ B[4 * i + 2].ref = i
      <3> DEFINE path == volumes[i]
                 sp == spaced[i]
      <3> HIDE DEF path, sp
      <3>1. BlockFile(i, path, sp).text = "file" /\ BlockFile(i, path, sp).node = i
            /\ BlockFile(i, path, sp).ext = path.ext
        BY Parts
      <3>2. Device(i).text = "drive" /\ Device(i).ref = i
        BY Parts
      <3> QED BY Zenon, <2>3, <3>1, <3>2 DEF path, sp
    <2> QED BY Zenon, <2>3, <2>4, <2>5
  <1>4. ASSUME NEW x \in 1..Len(B), x \notin {1, 2}
        PROVE  \E i \in 1..n : x \in (4 * i - 1)..(4 * i + 2)
    <2>1. x \in (2 + 1)..Len(B)
      BY <1>1, <1>4
    <2>2. PICK i \in 1..n : x \in (2 + 4 * i - 3)..(2 + 4 * i)
      BY <2>1 DEF DiskArgs
    <2>3. x \in (4 * i - 1)..(4 * i + 2)
      BY <1>1, <2>2
    <2> QED BY <2>3
  <1> QED BY Zenon, <1>1, <1>2, <1>3, <1>4 DEF Placed

\* The definitions of file nodes are the arguments after -blockdev.
LEMMA FilePlaces ==
  ASSUME NEW V, NEW volumes \in Seq(V), NEW spaced, NEW S, NEW B \in Seq(S),
         DiskArgs(B, 2, volumes, spaced),
         B[1] = Option("-name"), B[2] = Option("guest")
  PROVE  /\ ~After(B, 1, "-blockdev") /\ ~After(B, 2, "-blockdev")
         /\ \A i \in 1..Len(volumes) :
               /\ ~After(B, 4 * i - 1, "-blockdev")
               /\ After(B, 4 * i, "-blockdev")
               /\ ~After(B, 4 * i + 1, "-blockdev")
               /\ ~After(B, 4 * i + 2, "-blockdev")
  <1> DEFINE n == Len(volumes)
  <1>1. /\ n \in Nat /\ Len(B) = 2 + 4 * n
        /\ B[1].text = "-name" /\ B[2].text = "guest"
        /\ \A i \in 1..n :
              /\ B[4 * i - 1].text = "-blockdev"
              /\ B[4 * i].text = "file"
              /\ B[4 * i + 1].text = "-device"
              /\ B[4 * i + 2].text = "drive"
    <2>1. Placed(B, volumes, spaced)
      BY DiskPlaces
    <2> QED BY Zenon, <2>1 DEF Placed
  <1>2. ~After(B, 1, "-blockdev") /\ ~After(B, 2, "-blockdev")
    BY <1>1 DEF After
  <1>3. ASSUME NEW i \in 1..n
        PROVE  /\ ~After(B, 4 * i - 1, "-blockdev")
               /\ After(B, 4 * i, "-blockdev")
               /\ ~After(B, 4 * i + 1, "-blockdev")
               /\ ~After(B, 4 * i + 2, "-blockdev")
    <2>1. /\ 4 * i > 1 /\ (4 * i + 1) - 1 = 4 * i /\ (4 * i + 2) - 1 = 4 * i + 1
      BY <1>1
    <2>2. B[(4 * i - 1) - 1].text # "-blockdev"
      <3>1. CASE i = 1
        BY <1>1, <3>1
      <3>2. CASE i # 1
        <4> DEFINE p == i - 1
        <4>1. p \in 1..n /\ (4 * i - 1) - 1 = 4 * p + 2
          BY <1>1, <3>2
        <4> HIDE DEF p
        <4> QED BY <1>1, <4>1
      <3> QED BY <3>1, <3>2
    <2>3. /\ B[4 * i - 1].text = "-blockdev" /\ B[(4 * i + 1) - 1].text = "file"
          /\ B[(4 * i + 2) - 1].text = "-device"
      BY <1>1, <2>1
    <2> QED BY <2>1, <2>2, <2>3 DEF After
  <1> QED BY <1>2, <1>3

LEMMA Qcow2Found ==
  ASSUME NEW V, NEW volumes \in Seq(V), NEW spaced, NEW S, NEW B \in Seq(S),
         DiskArgs(B, 2, volumes, spaced),
         B[1] = Option("-name"), B[2] = Option("guest")
  PROVE  Qcow2Nodes(B) = Qcow2(volumes)
  <1> DEFINE n == Len(volumes)
  <1>1. DOMAIN B = 1..Len(B)
    OBVIOUS
  <1>2. /\ n \in Nat /\ Len(B) = 2 + 4 * n
        /\ \A i \in 1..n :
              /\ B[4 * i - 1].text = "-blockdev"
              /\ B[4 * i].text = "file" /\ B[4 * i].node = i
              /\ B[4 * i].ext = volumes[i].ext
              /\ B[4 * i + 1].text = "-device"
              /\ B[4 * i + 2].text = "drive"
        /\ \A x \in 1..Len(B) :
              x \in {1, 2} \/ \E i \in 1..n : x \in (4 * i - 1)..(4 * i + 2)
    <2>1. Placed(B, volumes, spaced)
      BY DiskPlaces
    <2> QED BY Zenon, <2>1 DEF Placed
  <1>3. /\ ~After(B, 1, "-blockdev") /\ ~After(B, 2, "-blockdev")
        /\ \A i \in 1..n :
              /\ After(B, 4 * i, "-blockdev")
              /\ ~After(B, 4 * i - 1, "-blockdev")
              /\ ~After(B, 4 * i + 1, "-blockdev")
              /\ ~After(B, 4 * i + 2, "-blockdev")
    BY Zenon, FilePlaces
  <1>4. ASSUME NEW i \in Qcow2(volumes) PROVE i \in Qcow2Nodes(B)
    <2>1. i \in 1..n /\ volumes[i].ext = "qcow2"
      BY DEF Qcow2
    <2> DEFINE x == 4 * i
    <2>2. x \in DOMAIN B
      BY <1>1, <1>2, <2>1
    <2>3. After(B, x, "-blockdev") /\ B[x].text = "file" /\ B[x].ext = "qcow2" /\ B[x].node = i
      BY <1>2, <1>3, <2>1
    <2> HIDE DEF x
    <2> QED BY Zenon, <2>2, <2>3 DEF Qcow2Nodes
  <1>5. ASSUME NEW i \in Qcow2Nodes(B) PROVE i \in Qcow2(volumes)
    <2>1. PICK x \in DOMAIN B : /\ After(B, x, "-blockdev") /\ B[x].text = "file"
                                /\ B[x].ext = "qcow2" /\ B[x].node = i
      BY Zenon DEF Qcow2Nodes
    <2>2. x \in 1..Len(B) /\ x \notin {1, 2}
      BY <1>1, <1>3, <2>1
    <2>3. PICK d \in 1..n : x \in (4 * d - 1)..(4 * d + 2)
      BY <1>2, <2>2
    <2>4. x = 4 * d
      <3>1. x \in Nat /\ d \in Nat
        BY <1>2, <2>2
      <3>2. 4 * d \in Nat /\ x \in (4 * d - 1)..(4 * d + 2)
        BY <2>3, <3>1
      <3> DEFINE e == 4 * d
      <3>3. x = e - 1 \/ x = e \/ x = e + 1 \/ x = e + 2
        <4> SUFFICES ASSUME e \in Nat, x \in (e - 1)..(e + 2)
                     PROVE  x = e - 1 \/ x = e \/ x = e + 1 \/ x = e + 2
          BY Zenon, <3>2
        <4> HIDE DEF e
        <4> QED BY <3>1
      <3> QED BY Zenon, <1>3, <2>1, <3>3
    <2>5. B[x].node = d /\ B[x].ext = volumes[d].ext
      BY <1>2, <2>4
    <2> QED BY <2>1, <2>5 DEF Qcow2
  <1> QED BY <1>4, <1>5

\* The command line with the formats put in; the arguments of disk i begin
\* after b[i].
Formatted(C, b, volumes, spaced) ==
    LET n == Len(volumes) IN
    /\ b \in [1..(n + 1) -> Nat]
    /\ b[1] = 2 /\ Len(C) = b[n + 1]
    /\ C[1] = Option("-name") /\ C[2] = Option("guest")
    /\ \A i \in 1..n :
          /\ b[i + 1] <= Len(C)
          /\ C[b[i] + 1] = Option("-blockdev")
          /\ C[b[i] + 2] = BlockFile(i, volumes[i], spaced[i])
          /\ i \in Qcow2(volumes) =>
                /\ b[i + 1] = b[i] + 6
                /\ C[b[i] + 3] = Option("-blockdev")
                /\ C[b[i] + 4] = BlockQcow2(BlockFile(i, volumes[i], spaced[i]))
                /\ C[b[i] + 5] = Option("-device")
                /\ C[b[i] + 6] = Moved(i)
          /\ i \notin Qcow2(volumes) =>
                /\ b[i + 1] = b[i] + 4
                /\ C[b[i] + 3] = Option("-device")
                /\ C[b[i] + 4] = Device(i)
    /\ \A x \in 1..Len(C) : x \in {1, 2} \/ \E i \in 1..n : x \in (b[i] + 1)..b[i + 1]

\* What InjectFormats makes of argument x.
Injects(B, x, nodes) ==
    IF After(B, x, "-blockdev")
    THEN IF B[x].node \in nodes
         THEN <<B[x], Option("-blockdev"), BlockQcow2(B[x])>> ELSE <<B[x]>>
    ELSE IF B[x].text = "drive" /\ B[x].ref \in nodes
         THEN <<[B[x] EXCEPT !.ref = Fmt(@)]>> ELSE <<B[x]>>

LEMMA InjectFlat ==
  ASSUME NEW S, NEW B \in Seq(S), NEW nodes
  PROVE  InjectFormats(B, nodes)
           = SeqExt!FlattenSeq([x \in 1..Len(B) |-> Injects(B, x, nodes)])
  <1>1. DOMAIN B = 1..Len(B)
    OBVIOUS
  <1> QED BY Zenon, <1>1 DEF InjectFormats, MapEach, Injects

\* The arguments that may be there afterwards.
Injectable(S) ==
    S \cup {Option("-blockdev")} \cup {BlockQcow2(a) : a \in S}
      \cup {[a EXCEPT !.ref = Fmt(@)] : a \in S}

PiecesOf(ss, B, nodes) == ss = [x \in 1..Len(B) |-> Injects(B, x, nodes)]

LEMMA InjectionType ==
  ASSUME NEW S, NEW B \in Seq(S), NEW nodes, NEW ss, PiecesOf(ss, B, nodes)
  PROVE  ss \in Seq(Seq(Injectable(S))) /\ Len(ss) = Len(B)
  <1> DEFINE T == Injectable(S)
  <1>0. /\ S \subseteq T /\ Option("-blockdev") \in T
        /\ \A a \in S : BlockQcow2(a) \in T /\ [a EXCEPT !.ref = Fmt(@)] \in T
    BY Zenon DEF Injectable
  <1> HIDE DEF T
  <1>1. ASSUME NEW x \in 1..Len(B) PROVE Injects(B, x, nodes) \in Seq(T)
    <2> DEFINE a == B[x]
               o == Option("-blockdev")
               q == BlockQcow2(a)
               d == [a EXCEPT !.ref = Fmt(@)]
    <2>1. a \in S
      OBVIOUS
    <2>2. a \in T /\ o \in T /\ q \in T /\ d \in T
      BY Zenon, <1>0, <2>1
    <2>3. Injects(B, x, nodes) \in {<<a, o, q>>, <<a>>, <<d>>}
      BY Zenon DEF Injects
    <2> HIDE DEF a, o, q, d
    <2>4. <<a, o, q>> \in Seq(T) /\ <<a>> \in Seq(T) /\ <<d>> \in Seq(T)
      BY <2>2
    <2> QED BY Zenon, <2>3, <2>4
  <1>2. Len(B) \in Nat
    OBVIOUS
  <1>3. ss \in [1..Len(B) -> Seq(T)]
    BY Zenon, <1>1 DEF PiecesOf
  <1> QED BY <1>2, <1>3, AsSeq DEF T

\* The pieces of the opening and of disk i.
Injecting(B, volumes, spaced, nodes) ==
    /\ Injects(B, 1, nodes) = <<Option("-name")>>
    /\ Injects(B, 2, nodes) = <<Option("guest")>>
    /\ \A i \in 1..Len(volumes) :
          LET file == BlockFile(i, volumes[i], spaced[i]) IN
          /\ Injects(B, 4 * i - 1, nodes) = <<Option("-blockdev")>>
          /\ i \in nodes => Injects(B, 4 * i, nodes)
                              = <<file, Option("-blockdev"), BlockQcow2(file)>>
          /\ i \notin nodes => Injects(B, 4 * i, nodes) = <<file>>
          /\ Injects(B, 4 * i + 1, nodes) = <<Option("-device")>>
          /\ i \in nodes => Injects(B, 4 * i + 2, nodes) = <<Moved(i)>>
          /\ i \notin nodes => Injects(B, 4 * i + 2, nodes) = <<Device(i)>>

LEMMA Injections ==
  ASSUME NEW V, NEW volumes \in Seq(V), NEW spaced, NEW S, NEW B \in Seq(S),
         DiskArgs(B, 2, volumes, spaced),
         B[1] = Option("-name"), B[2] = Option("guest"), NEW nodes
  PROVE  Injecting(B, volumes, spaced, nodes)
  <1> DEFINE n == Len(volumes)
  <1>1. /\ B[1].text = "-name" /\ B[2].text = "guest"
        /\ \A i \in 1..n :
              /\ B[4 * i - 1] = Option("-blockdev") /\ B[4 * i - 1].text = "-blockdev"
              /\ B[4 * i] = BlockFile(i, volumes[i], spaced[i])
              /\ B[4 * i].node = i
              /\ B[4 * i + 1] = Option("-device") /\ B[4 * i + 1].text = "-device"
              /\ B[4 * i + 2] = Device(i)
              /\ B[4 * i + 2].text = "drive" /\ B[4 * i + 2].ref = i
    <2>1. Placed(B, volumes, spaced)
      BY DiskPlaces
    <2> QED BY Zenon, <2>1 DEF Placed
  <1>2. /\ ~After(B, 1, "-blockdev") /\ ~After(B, 2, "-blockdev")
        /\ \A i \in 1..n :
              /\ After(B, 4 * i, "-blockdev")
              /\ ~After(B, 4 * i - 1, "-blockdev")
              /\ ~After(B, 4 * i + 1, "-blockdev")
              /\ ~After(B, 4 * i + 2, "-blockdev")
    BY Zenon, FilePlaces
  <1>3. "-name" # "drive" /\ "guest" # "drive" /\ "-blockdev" # "drive" /\ "-device" # "drive"
    OBVIOUS
  <1>4. /\ Injects(B, 1, nodes) = <<Option("-name")>>
        /\ Injects(B, 2, nodes) = <<Option("guest")>>
    <2>1. B[1].text # "drive" /\ B[2].text # "drive"
      BY <1>1, <1>3
    <2> QED BY Zenon, <1>2, <2>1 DEF Injects
  <1>5. ASSUME NEW i \in 1..n
        PROVE  LET file == BlockFile(i, volumes[i], spaced[i]) IN
               /\ Injects(B, 4 * i - 1, nodes) = <<Option("-blockdev")>>
               /\ i \in nodes => Injects(B, 4 * i, nodes)
                                   = <<file, Option("-blockdev"), BlockQcow2(file)>>
               /\ i \notin nodes => Injects(B, 4 * i, nodes) = <<file>>
               /\ Injects(B, 4 * i + 1, nodes) = <<Option("-device")>>
               /\ i \in nodes => Injects(B, 4 * i + 2, nodes) = <<Moved(i)>>
               /\ i \notin nodes => Injects(B, 4 * i + 2, nodes) = <<Device(i)>>
    <2> DEFINE w == 4 * i - 1
               x == 4 * i
               y == 4 * i + 1
               z == 4 * i + 2
               file == BlockFile(i, volumes[i], spaced[i])
    <2>1. /\ B[w] = Option("-blockdev") /\ B[w].text # "drive" /\ ~After(B, w, "-blockdev")
          /\ B[x] = file /\ B[x].node = i /\ After(B, x, "-blockdev")
          /\ B[y] = Option("-device") /\ B[y].text # "drive" /\ ~After(B, y, "-blockdev")
          /\ B[z] = Device(i) /\ B[z].text = "drive" /\ B[z].ref = i
          /\ ~After(B, z, "-blockdev")
      BY <1>1, <1>2, <1>3
    <2> HIDE DEF w, x, y, z, file
    <2>2. Injects(B, w, nodes) = <<Option("-blockdev")>>
      BY Zenon, <2>1 DEF Injects
    <2>3. i \in nodes => Injects(B, x, nodes) = <<file, Option("-blockdev"), BlockQcow2(file)>>
      BY Zenon, <2>1 DEF Injects
    <2>4. i \notin nodes => Injects(B, x, nodes) = <<file>>
      BY Zenon, <2>1 DEF Injects
    <2>5. Injects(B, y, nodes) = <<Option("-device")>>
      BY Zenon, <2>1 DEF Injects
    <2>6. i \in nodes => Injects(B, z, nodes) = <<Moved(i)>>
      BY Zenon, <2>1 DEF Injects, Moved
    <2>7. i \notin nodes => Injects(B, z, nodes) = <<Device(i)>>
      BY Zenon, <2>1 DEF Injects
    <2> QED BY Zenon, <2>2, <2>3, <2>4, <2>5, <2>6, <2>7 DEF w, x, y, z, file
  <1> QED BY Zenon, <1>4, <1>5 DEF Injecting

\* Piece x is one argument, or three.
One(C, off, x, a) ==
    /\ off[x] \in Nat /\ off[x + 1] = off[x] + 1 /\ off[x + 1] <= Len(C)
    /\ C[off[x] + 1] = a
Three(C, off, x, a, o, q) ==
    /\ off[x] \in Nat /\ off[x + 1] = off[x] + 3
    /\ C[off[x] + 1] = a /\ C[off[x] + 2] = o /\ C[off[x] + 3] = q

LEMMA LaidOne ==
  ASSUME NEW C, NEW ss, NEW off, Lays(C, ss, off), Len(ss) \in Nat,
         NEW x \in 1..Len(ss), NEW a, ss[x] = <<a>>
  PROVE  One(C, off, x, a)
  <1>1. Len(ss[x]) = 1 /\ ss[x][1] = a
    OBVIOUS
  <1>2. /\ off[x + 1] = off[x] + Len(ss[x])
        /\ \A j \in 1..Len(ss[x]) : off[x] + j <= Len(C) /\ C[off[x] + j] = ss[x][j]
    BY DEF Lays
  <1>3. off[x] \in Nat
    <2>1. off \in [1..(Len(ss) + 1) -> Nat]
      BY DEF Lays
    <2>2. x \in 1..(Len(ss) + 1)
      OBVIOUS
    <2> QED BY Zenon, <2>1, <2>2
  <1> QED BY <1>1, <1>2, <1>3 DEF One

LEMMA LaidThree ==
  ASSUME NEW C, NEW ss, NEW off, Lays(C, ss, off), Len(ss) \in Nat,
         NEW x \in 1..Len(ss), NEW a, NEW o, NEW q, ss[x] = <<a, o, q>>
  PROVE  Three(C, off, x, a, o, q)
  <1>1. Len(ss[x]) = 3 /\ ss[x][1] = a /\ ss[x][2] = o /\ ss[x][3] = q
    OBVIOUS
  <1>2. /\ off[x + 1] = off[x] + Len(ss[x])
        /\ \A j \in 1..Len(ss[x]) : off[x] + j <= Len(C) /\ C[off[x] + j] = ss[x][j]
    BY DEF Lays
  <1>3. off[x] \in Nat
    <2>1. off \in [1..(Len(ss) + 1) -> Nat]
      BY DEF Lays
    <2>2. x \in 1..(Len(ss) + 1)
      OBVIOUS
    <2> QED BY Zenon, <2>1, <2>2
  <1> QED BY <1>1, <1>2, <1>3 DEF Three

\* The arguments after p of a disk with and without a format.
Six(C, p, o, f, q, e, d) ==
    /\ C[p + 1] = o /\ C[p + 2] = f /\ C[p + 3] = o
    /\ C[p + 4] = q /\ C[p + 5] = e /\ C[p + 6] = d
Four(C, p, o, f, e, d) ==
    C[p + 1] = o /\ C[p + 2] = f /\ C[p + 3] = e /\ C[p + 4] = d

LEMMA LaidSix ==
  ASSUME NEW C, NEW off, NEW w \in Nat, NEW o, NEW f, NEW q, NEW e, NEW d,
         One(C, off, w, o), Three(C, off, w + 1, f, o, q),
         One(C, off, w + 2, e), One(C, off, w + 3, d)
  PROVE  off[w + 4] = off[w] + 6 /\ off[w + 4] <= Len(C) /\ Six(C, off[w], o, f, q, e, d)
  <1>1. (w + 1) + 1 = w + 2 /\ (w + 2) + 1 = w + 3 /\ (w + 3) + 1 = w + 4
    OBVIOUS
  <1>2. /\ off[w] \in Nat /\ off[w + 1] = off[w] + 1
        /\ off[w + 2] = off[w + 1] + 3 /\ off[w + 3] = off[w + 2] + 1
        /\ off[w + 4] = off[w + 3] + 1 /\ off[w + 4] <= Len(C)
    BY <1>1 DEF One, Three
  <1>3. /\ C[off[w] + 1] = o /\ C[off[w + 1] + 1] = f /\ C[off[w + 1] + 2] = o
        /\ C[off[w + 1] + 3] = q /\ C[off[w + 2] + 1] = e /\ C[off[w + 3] + 1] = d
    BY DEF One, Three
  <1>4. off[w + 1] = off[w] + 1 /\ off[w + 2] = off[w] + 4 /\ off[w + 3] = off[w] + 5
        /\ off[w + 4] = off[w] + 6
    BY <1>2
  <1>5. Six(C, off[w], o, f, q, e, d)
    <2> DEFINE p == off[w]
    <2>1. /\ p \in Nat /\ C[p + 1] = o /\ C[(p + 1) + 1] = f /\ C[(p + 1) + 2] = o
          /\ C[(p + 1) + 3] = q /\ C[(p + 4) + 1] = e /\ C[(p + 5) + 1] = d
      BY Zenon, <1>2, <1>3, <1>4
    <2> HIDE DEF p
    <2>2. /\ (p + 1) + 1 = p + 2 /\ (p + 1) + 2 = p + 3 /\ (p + 1) + 3 = p + 4
          /\ (p + 4) + 1 = p + 5 /\ (p + 5) + 1 = p + 6
      BY <2>1
    <2>3. Six(C, p, o, f, q, e, d)
      BY Zenon, <2>1, <2>2 DEF Six
    <2> QED BY <2>3 DEF p
  <1> QED BY Zenon, <1>2, <1>4, <1>5

LEMMA LaidFour ==
  ASSUME NEW C, NEW off, NEW w \in Nat, NEW o, NEW f, NEW e, NEW d,
         One(C, off, w, o), One(C, off, w + 1, f),
         One(C, off, w + 2, e), One(C, off, w + 3, d)
  PROVE  off[w + 4] = off[w] + 4 /\ off[w + 4] <= Len(C) /\ Four(C, off[w], o, f, e, d)
  <1>1. (w + 1) + 1 = w + 2 /\ (w + 2) + 1 = w + 3 /\ (w + 3) + 1 = w + 4
    OBVIOUS
  <1>2. /\ off[w] \in Nat /\ off[w + 1] = off[w] + 1
        /\ off[w + 2] = off[w + 1] + 1 /\ off[w + 3] = off[w + 2] + 1
        /\ off[w + 4] = off[w + 3] + 1 /\ off[w + 4] <= Len(C)
    BY <1>1 DEF One
  <1>3. /\ C[off[w] + 1] = o /\ C[off[w + 1] + 1] = f
        /\ C[off[w + 2] + 1] = e /\ C[off[w + 3] + 1] = d
    BY DEF One
  <1>4. off[w + 1] = off[w] + 1 /\ off[w + 2] = off[w] + 2 /\ off[w + 3] = off[w] + 3
        /\ off[w + 4] = off[w] + 4
    BY <1>2
  <1> QED BY <1>2, <1>3, <1>4 DEF Four

\* Pieces do not overlap, and where the arguments of four in a row are.
Rises(off, y) == off[y] \in Nat /\ off[y + 1] \in Nat /\ off[y] <= off[y + 1]

LEMMA Rising ==
  ASSUME NEW C, NEW T, NEW ss \in Seq(Seq(T)), NEW off, Lays(C, ss, off),
         NEW y \in 1..Len(ss)
  PROVE  Rises(off, y) /\ off[y + 1] = off[y] + Len(ss[y]) /\ Len(ss[y]) \in Nat
  <1> DEFINE n == Len(ss)
             k == Len(ss[y])
  <1>1. n \in Nat /\ k \in Nat
    OBVIOUS
  <1>2. off \in [1..(n + 1) -> Nat] /\ off[y + 1] = off[y] + k
    BY DEF Lays
  <1>3. y \in 1..(n + 1) /\ y + 1 \in 1..(n + 1)
    BY <1>1
  <1>4. off[y] \in Nat /\ off[y + 1] \in Nat
    BY Zenon, <1>2, <1>3
  <1> DEFINE p == off[y]
             q == off[y + 1]
  <1>5. p \in Nat /\ q = p + k
    BY <1>2, <1>4
  <1> HIDE DEF p, q, k
  <1>6. p <= q
    BY <1>1, <1>5
  <1> QED BY <1>1, <1>2, <1>4, <1>6 DEF Rises, p, q, k

\* The pieces make up C, and each argument is in one of them.
Tiles(C, off, l) ==
    /\ off \in [1..(l + 1) -> Nat] /\ off[1] = 0 /\ Len(C) = off[l + 1]
    /\ \A y \in 1..l : Rises(off, y)
    /\ \A k \in 1..Len(C) : \E x \in 1..l : off[x] < k /\ k <= off[x + 1]

LEMMA Tiled ==
  ASSUME NEW C, NEW T, NEW ss \in Seq(Seq(T)), NEW off, Lays(C, ss, off)
  PROVE  Tiles(C, off, Len(ss))
  <1> DEFINE l == Len(ss)
  <1>1. /\ off \in [1..(l + 1) -> Nat] /\ off[1] = 0 /\ Len(C) = off[l + 1]
        /\ \A k \in 1..Len(C) : \E x \in 1..l : \E j \in 1..Len(ss[x]) : k = off[x] + j
    BY DEF Lays
  <1>2. \A y \in 1..l : Rises(off, y) /\ off[y + 1] = off[y] + Len(ss[y]) /\ Len(ss[y]) \in Nat
    BY Rising
  <1>3. ASSUME NEW k \in 1..Len(C) PROVE \E x \in 1..l : off[x] < k /\ k <= off[x + 1]
    <2>1. PICK x \in 1..l : \E j \in 1..Len(ss[x]) : k = off[x] + j
      BY <1>1
    <2>2. PICK j \in 1..Len(ss[x]) : k = off[x] + j
      BY <2>1
    <2> DEFINE p == off[x]
               q == off[x + 1]
               m == Len(ss[x])
    <2>3. p \in Nat /\ q = p + m /\ m \in Nat /\ j \in 1..m /\ k = p + j
      BY <1>2, <2>2 DEF Rises
    <2> HIDE DEF p, q, m
    <2>4. p < k /\ k <= q
      BY <2>3
    <2> QED BY <2>4 DEF p, q
  <1> QED BY <1>1, <1>2, <1>3 DEF Tiles

LEMMA Within ==
  ASSUME NEW off, NEW w \in Nat, Rises(off, w), Rises(off, w + 1), Rises(off, w + 2),
         Rises(off, w + 3), NEW x \in w..(w + 3)
  PROVE  off[w] <= off[x] /\ off[x + 1] <= off[w + 4]
  <1>1. /\ (w + 1) + 1 = w + 2 /\ (w + 2) + 1 = w + 3 /\ (w + 3) + 1 = w + 4
        /\ (x = w \/ x = w + 1 \/ x = w + 2 \/ x = w + 3)
    OBVIOUS
  <1>2. /\ off[w] \in Nat /\ off[w + 1] \in Nat /\ off[w + 2] \in Nat /\ off[w + 3] \in Nat
        /\ off[w + 4] \in Nat
        /\ off[w] <= off[w + 1] /\ off[w + 1] <= off[w + 2] /\ off[w + 2] <= off[w + 3]
        /\ off[w + 3] <= off[w + 4]
    BY <1>1 DEF Rises
  <1>3. /\ off[w] <= off[w + 2] /\ off[w] <= off[w + 3] /\ off[w] <= off[w]
        /\ off[w + 1] <= off[w + 4] /\ off[w + 2] <= off[w + 4] /\ off[w + 4] <= off[w + 4]
    BY <1>2
  <1> QED BY <1>1, <1>2, <1>3

\* The pieces of the disks.
DiskPieces(C, off, volumes, spaced) ==
    \A i \in 1..Len(volumes) :
        LET file == BlockFile(i, volumes[i], spaced[i]) IN
        /\ One(C, off, 4 * i - 1, Option("-blockdev"))
        /\ i \in Qcow2(volumes) =>
              /\ Three(C, off, 4 * i, file, Option("-blockdev"), BlockQcow2(file))
              /\ One(C, off, 4 * i + 2, Moved(i))
        /\ i \notin Qcow2(volumes) =>
              /\ One(C, off, 4 * i, file)
              /\ One(C, off, 4 * i + 2, Device(i))
        /\ One(C, off, 4 * i + 1, Option("-device"))

\* The pieces of the command line make up a formatted one.
LEMMA LaidFormatted ==
  ASSUME NEW volumes, NEW spaced, NEW n \in Nat, n = Len(volumes),
         NEW l \in Nat, l = 2 + 4 * n, NEW C, NEW off, Tiles(C, off, l),
         One(C, off, 1, Option("-name")), One(C, off, 2, Option("guest")),
         DiskPieces(C, off, volumes, spaced)
  PROVE  \E b : Formatted(C, b, volumes, spaced)
  <1> DEFINE b == [i \in 1..(n + 1) |-> off[4 * i - 1]]
             File(i) == BlockFile(i, volumes[i], spaced[i])
  <1>1. l \in Nat /\ l = 2 + 4 * n
    OBVIOUS
  <1>2. /\ off \in [1..(l + 1) -> Nat] /\ off[1] = 0 /\ Len(C) = off[l + 1]
        /\ \A y \in 1..l : Rises(off, y)
        /\ \A k \in 1..Len(C) : \E x \in 1..l : off[x] < k /\ k <= off[x + 1]
    BY DEF Tiles
  <1>4. /\ off[2] = 1 /\ off[3] = 2
        /\ C[1] = Option("-name") /\ C[2] = Option("guest")
    BY <1>2 DEF One
  <1>5. b \in [1..(n + 1) -> Nat] /\ b[1] = 2 /\ Len(C) = b[n + 1]
    <2>1. ASSUME NEW i \in 1..(n + 1) PROVE 4 * i - 1 \in 1..(l + 1)
      BY <1>1
    <2>2. 4 * (n + 1) - 1 = l + 1 /\ 1 \in 1..(n + 1) /\ n + 1 \in 1..(n + 1)
      BY <1>1
    <2>3. \A i \in 1..(n + 1) : off[4 * i - 1] \in Nat
      BY Zenon, <1>2, <2>1
    <2>4. b \in [1..(n + 1) -> Nat]
      BY Zenon, <2>3
    <2>5. b[1] = off[4 * 1 - 1] /\ b[n + 1] = off[4 * (n + 1) - 1]
      BY Zenon, <2>2
    <2> HIDE DEF b
    <2> QED BY <1>2, <1>4, <2>2, <2>4, <2>5
  <1>6. ASSUME NEW i \in 1..n
        PROVE  b[i] = off[4 * i - 1] /\ b[i + 1] = off[4 * i + 3]
    <2>1. i \in 1..(n + 1) /\ i + 1 \in 1..(n + 1) /\ 4 * (i + 1) - 1 = 4 * i + 3
      OBVIOUS
    <2>2. b[i] = off[4 * i - 1] /\ b[i + 1] = off[4 * (i + 1) - 1]
      BY Zenon, <2>1
    <2> HIDE DEF b
    <2> QED BY <2>1, <2>2
  <1> HIDE DEF b
  <1>7. ASSUME NEW i \in 1..n
        PROVE  /\ b[i + 1] <= Len(C)
               /\ C[b[i] + 1] = Option("-blockdev")
               /\ C[b[i] + 2] = File(i)
               /\ i \in Qcow2(volumes) =>
                     /\ b[i + 1] = b[i] + 6
                     /\ C[b[i] + 3] = Option("-blockdev")
                     /\ C[b[i] + 4] = BlockQcow2(File(i))
                     /\ C[b[i] + 5] = Option("-device")
                     /\ C[b[i] + 6] = Moved(i)
               /\ i \notin Qcow2(volumes) =>
                     /\ b[i + 1] = b[i] + 4
                     /\ C[b[i] + 3] = Option("-device")
                     /\ C[b[i] + 4] = Device(i)
    <2> DEFINE w == 4 * i - 1
               o == Option("-blockdev")
               f == File(i)
               q == BlockQcow2(File(i))
               e == Option("-device")
    <2>1. w \in Nat /\ 4 * i = w + 1 /\ 4 * i + 1 = w + 2 /\ 4 * i + 2 = w + 3
          /\ 4 * i + 3 = w + 4
      OBVIOUS
    <2>2. b[i] = off[w] /\ b[i + 1] = off[w + 4]
      BY <1>6, <2>1
    <2>3. One(C, off, w, o) /\ One(C, off, w + 2, e)
      BY <2>1 DEF DiskPieces
    <2>4. CASE i \in Qcow2(volumes)
      <3>1. Three(C, off, w + 1, f, o, q) /\ One(C, off, w + 3, Moved(i))
        BY <2>1, <2>4 DEF DiskPieces
      <3> HIDE DEF w, o, f, q, e
      <3>2. off[w + 4] = off[w] + 6 /\ off[w + 4] <= Len(C) /\ Six(C, off[w], o, f, q, e, Moved(i))
        BY Zenon, <2>1, <2>3, <3>1, LaidSix
      <3> QED BY Zenon, <2>2, <2>4, <3>2 DEF o, f, q, e, Six
    <2>5. CASE i \notin Qcow2(volumes)
      <3>1. One(C, off, w + 1, f) /\ One(C, off, w + 3, Device(i))
        BY <2>1, <2>5 DEF DiskPieces
      <3> HIDE DEF w, o, f, q, e
      <3>2. off[w + 4] = off[w] + 4 /\ off[w + 4] <= Len(C) /\ Four(C, off[w], o, f, e, Device(i))
        BY Zenon, <2>1, <2>3, <3>1, LaidFour
      <3> QED BY Zenon, <2>2, <2>5, <3>2 DEF o, f, q, e, Four
    <2> QED BY Zenon, <2>4, <2>5
  <1>8. ASSUME NEW k \in 1..Len(C), k \notin {1, 2}
        PROVE  \E i \in 1..n : k \in (b[i] + 1)..b[i + 1]
    <2>1. PICK x \in 1..l : off[x] < k /\ k <= off[x + 1]
      BY <1>2
    <2>2. off[x] \in Nat /\ off[x + 1] \in Nat /\ Rises(off, x)
      BY <1>2 DEF Rises
    <2>3. k \in Nat /\ k > 2
      <3>1. Len(C) \in Nat
        BY <1>5
      <3> QED BY <1>8, <3>1
    <2>4. x # 1 /\ x # 2
      BY <1>4, <2>1, <2>3
    <2>5. PICK i \in 1..n : x \in (4 * i - 1)..(4 * i + 2)
      <3> DEFINE i == (x + 1) \div 4
      <3>1. i \in 1..n /\ x \in (4 * i - 1)..(4 * i + 2)
        BY <1>1, <2>4
      <3> QED BY <3>1
    <2> DEFINE w == 4 * i - 1
    <2>6. w \in Nat /\ w \in 1..l /\ w + 1 \in 1..l /\ w + 2 \in 1..l /\ w + 3 \in 1..l
          /\ x \in w..(w + 3) /\ 4 * i + 3 = w + 4
      BY <1>1, <2>5
    <2>7. b[i] = off[w] /\ b[i + 1] = off[w + 4]
      BY <1>6, <2>5, <2>6
    <2> HIDE DEF w
    <2>8. Rises(off, w) /\ Rises(off, w + 1) /\ Rises(off, w + 2) /\ Rises(off, w + 3)
      BY <1>2, <2>6
    <2>9. off[w] <= off[x] /\ off[x + 1] <= off[w + 4]
      BY <2>6, <2>8, Within
    <2>10. off[w] \in Nat /\ off[w + 4] \in Nat
      <3>1. (w + 3) + 1 = w + 4
        BY <2>6
      <3> QED BY <2>8, <3>1 DEF Rises
    <2> DEFINE p == off[w]
               q == off[w + 4]
               r == off[x]
               t == off[x + 1]
    <2>11. /\ p \in Nat /\ q \in Nat /\ r \in Nat /\ t \in Nat /\ k \in Nat
           /\ p <= r /\ r < k /\ k <= t /\ t <= q
      BY <2>1, <2>2, <2>3, <2>9, <2>10
    <2> HIDE DEF p, q, r, t
    <2>12. k \in (p + 1)..q
      BY <2>11
    <2>13. k \in (b[i] + 1)..b[i + 1]
      BY Zenon, <2>7, <2>12 DEF p, q
    <2> QED BY <2>13
  <1>9. Formatted(C, b, volumes, spaced)
    BY <1>4, <1>5, <1>7, <1>8 DEF Formatted
  <1> QED BY <1>9

LEMMA Injected ==
  ASSUME NEW V, NEW volumes \in Seq(V), NEW spaced, NEW S, NEW B \in Seq(S),
         DiskArgs(B, 2, volumes, spaced),
         B[1] = Option("-name"), B[2] = Option("guest")
  PROVE  \E T : /\ InjectFormats(B, Qcow2Nodes(B)) \in Seq(T)
                /\ \E b : Formatted(InjectFormats(B, Qcow2Nodes(B)), b, volumes, spaced)
  <1> DEFINE n == Len(volumes)
             l == Len(B)
             nodes == Qcow2(volumes)
             ss == [x \in 1..l |-> Injects(B, x, nodes)]
             C == InjectFormats(B, nodes)
             T == Injectable(S)
             File(i) == BlockFile(i, volumes[i], spaced[i])
  <1>1. n \in Nat /\ l = 2 + 4 * n /\ l \in Nat
    BY DEF DiskArgs
  <1>2. Qcow2Nodes(B) = nodes
    BY Qcow2Found
  <1>3. C = SeqExt!FlattenSeq(ss)
    BY InjectFlat
  <1>4. ss \in Seq(Seq(T)) /\ Len(ss) = l
    <2>1. PiecesOf(ss, B, nodes)
      BY DEF PiecesOf
    <2> HIDE DEF ss, nodes
    <2>2. ss \in Seq(Seq(Injectable(S))) /\ Len(ss) = Len(B)
      BY Zenon, <2>1, InjectionType
    <2> QED BY Zenon, <2>2
  <1>5. \A x \in 1..l : ss[x] = Injects(B, x, nodes)
    BY Zenon
  <1>6. /\ Injects(B, 1, nodes) = <<Option("-name")>>
        /\ Injects(B, 2, nodes) = <<Option("guest")>>
        /\ \A i \in 1..n :
              /\ Injects(B, 4 * i - 1, nodes) = <<Option("-blockdev")>>
              /\ i \in nodes => Injects(B, 4 * i, nodes)
                                  = <<File(i), Option("-blockdev"), BlockQcow2(File(i))>>
              /\ i \notin nodes => Injects(B, 4 * i, nodes) = <<File(i)>>
              /\ Injects(B, 4 * i + 1, nodes) = <<Option("-device")>>
              /\ i \in nodes => Injects(B, 4 * i + 2, nodes) = <<Moved(i)>>
              /\ i \notin nodes => Injects(B, 4 * i + 2, nodes) = <<Device(i)>>
    <2> HIDE DEF nodes
    <2>1. Injecting(B, volumes, spaced, nodes)
      BY Injections
    <2> QED BY Zenon, <2>1 DEF Injecting
  <1> HIDE DEF T, C, ss, nodes
  <1>7. C \in Seq(T) /\ \E off : Lays(C, ss, off)
    BY <1>3, <1>4, FlattenLays
  <1>8. PICK off : Lays(C, ss, off)
    BY <1>7
  <1>9. Len(ss) \in Nat /\ Tiles(C, off, l)
    BY <1>1, <1>4, <1>8, Tiled
  <1>10. One(C, off, 1, Option("-name")) /\ One(C, off, 2, Option("guest"))
    <2>1. 1 \in 1..l /\ 2 \in 1..l
      BY <1>1
    <2>2. /\ ss[1] = <<Option("-name")>> /\ ss[2] = <<Option("guest")>>
          /\ 1 \in 1..Len(ss) /\ 2 \in 1..Len(ss)
      BY Zenon, <1>4, <1>5, <1>6, <2>1
    <2> QED BY Zenon, <1>8, <1>9, <2>2, LaidOne
  <1>11. DiskPieces(C, off, volumes, spaced)
    <2> SUFFICES ASSUME NEW i \in 1..n
                 PROVE  /\ One(C, off, 4 * i - 1, Option("-blockdev"))
                        /\ i \in nodes =>
                              /\ Three(C, off, 4 * i, File(i), Option("-blockdev"),
                                       BlockQcow2(File(i)))
                              /\ One(C, off, 4 * i + 2, Moved(i))
                        /\ i \notin nodes =>
                              /\ One(C, off, 4 * i, File(i))
                              /\ One(C, off, 4 * i + 2, Device(i))
                        /\ One(C, off, 4 * i + 1, Option("-device"))
      BY Zenon DEF DiskPieces, nodes
    <2> DEFINE w == 4 * i - 1
               x == 4 * i
               y == 4 * i + 1
               z == 4 * i + 2
               o == Option("-blockdev")
               e == Option("-device")
               f == File(i)
               q == BlockQcow2(File(i))
               d == Device(i)
               m == Moved(i)
    <2>1. w \in 1..l /\ x \in 1..l /\ y \in 1..l /\ z \in 1..l
      BY <1>1
    <2>2. /\ w \in 1..Len(ss) /\ x \in 1..Len(ss) /\ y \in 1..Len(ss) /\ z \in 1..Len(ss)
          /\ ss[w] = <<o>> /\ ss[y] = <<e>>
          /\ i \in nodes => ss[x] = <<f, o, q>> /\ ss[z] = <<m>>
          /\ i \notin nodes => ss[x] = <<f>> /\ ss[z] = <<d>>
      BY Zenon, <1>4, <1>5, <1>6, <2>1
    <2> HIDE DEF w, x, y, z, o, e, f, q, d, m
    <2>3. One(C, off, w, o) /\ One(C, off, y, e)
      BY Zenon, <1>8, <1>9, <2>2, LaidOne
    <2>4. i \in nodes => Three(C, off, x, f, o, q) /\ One(C, off, z, m)
      BY Zenon, <1>8, <1>9, <2>2, LaidOne, LaidThree
    <2>5. i \notin nodes => One(C, off, x, f) /\ One(C, off, z, d)
      BY Zenon, <1>8, <1>9, <2>2, LaidOne
    <2> QED BY Zenon, <2>3, <2>4, <2>5 DEF w, x, y, z, o, e, f, q, d, m
  <1>12. \E b : Formatted(C, b, volumes, spaced)
    <2> HIDE DEF l, n
    <2>1. n = Len(volumes)
      BY DEF n
    <2> QED BY Zenon, <1>1, <1>9, <1>10, <1>11, <2>1, LaidFormatted
  <1>13. InjectFormats(B, Qcow2Nodes(B)) = C
    BY <1>2 DEF C
  <1> QED BY Zenon, <1>7, <1>12, <1>13

-----------------------------------------------------------------------------
(* The whole script *)

LEMMA FileUnspaced ==
  ASSUME NEW i, NEW path, NEW sp, ~sp
  PROVE  ~BlockFile(i, path, sp).spaced /\ ~BlockQcow2(BlockFile(i, path, sp)).spaced
  BY DEF BlockFile, BlockQcow2, Option

LEMMA OthersUnspaced ==
  ASSUME NEW i
  PROVE  ~Device(i).spaced /\ ~Moved(i).spaced /\ \A text : ~Option(text).spaced
  BY DEF Device, Moved, Option

NoSpace(volumes, spaced) == \A i \in 1..Len(volumes) : ~spaced[i]

LEMMA StrippedUnspaced ==
  ASSUME NEW V, NEW volumes \in Seq(V), NEW spaced, NoSpace(volumes, spaced),
         NEW S, NEW B \in Seq(S), DiskArgs(B, 2, volumes, spaced),
         B[1] = Option("-name"), B[2] = Option("guest"), NEW x \in 1..Len(B)
  PROVE  ~B[x].spaced
  <1> DEFINE n == Len(volumes)
  <1>1. CASE x \in {1, 2}
    <2>1. B[1].spaced = Option("-name").spaced /\ B[2].spaced = Option("guest").spaced
      BY Zenon
    <2>2. ~Option("-name").spaced /\ ~Option("guest").spaced
      BY Zenon, OthersUnspaced
    <2> QED BY Zenon, <1>1, <2>1, <2>2
  <1>2. CASE x \notin {1, 2}
    <2>1. PICK i \in 1..n : x \in (4 * i - 1)..(4 * i + 2)
      <3>1. \A y \in 1..Len(B) :
               y \in {1, 2} \/ \E i \in 1..n : y \in (4 * i - 1)..(4 * i + 2)
        <4>1. Placed(B, volumes, spaced)
          BY DiskPlaces
        <4> QED BY Zenon, <4>1 DEF Placed
      <3> QED BY <1>2, <3>1
    <2>2. x = 4 * i - 1 \/ x = 4 * i \/ x = 4 * i + 1 \/ x = 4 * i + 2
      <3>1. x \in Nat /\ i \in Nat
        OBVIOUS
      <3> QED BY <2>1, <3>1
    <2>3. /\ B[4 * i - 1] = Option("-blockdev")
          /\ B[4 * i] = BlockFile(i, volumes[i], spaced[i])
          /\ B[4 * i + 1] = Option("-device") /\ B[4 * i + 2] = Device(i)
      <3>1. Placed(B, volumes, spaced)
        BY DiskPlaces
      <3> QED BY Zenon, <3>1 DEF Placed
    <2>4. ~BlockFile(i, volumes[i], spaced[i]).spaced
      <3>1. ~spaced[i]
        BY Zenon DEF NoSpace
      <3> QED BY Zenon, <3>1, FileUnspaced
    <2>5. ~Option("-blockdev").spaced /\ ~Option("-device").spaced /\ ~Device(i).spaced
      BY Zenon, OthersUnspaced
    <2> QED BY Zenon, <2>2, <2>3, <2>4, <2>5
  <1> QED BY <1>1, <1>2

\* Which argument is at place x of a formatted command line.
PartAt(C, b, volumes, spaced, x) ==
    \/ x = 1 /\ C[x] = Option("-name")
    \/ x = 2 /\ C[x] = Option("guest")
    \/ \E i \in 1..Len(volumes) :
          /\ b[i] \in Nat
          /\ \/ x = b[i] + 1 /\ C[x] = Option("-blockdev")
             \/ x = b[i] + 2 /\ C[x] = BlockFile(i, volumes[i], spaced[i])
             \/ /\ i \in Qcow2(volumes)
                /\ \/ x = b[i] + 3 /\ C[x] = Option("-blockdev")
                   \/ x = b[i] + 4 /\ C[x] = BlockQcow2(BlockFile(i, volumes[i], spaced[i]))
                   \/ x = b[i] + 5 /\ C[x] = Option("-device")
                   \/ x = b[i] + 6 /\ C[x] = Moved(i)
             \/ /\ i \notin Qcow2(volumes)
                /\ \/ x = b[i] + 3 /\ C[x] = Option("-device")
                   \/ x = b[i] + 4 /\ C[x] = Device(i)

LEMMA FormattedParts ==
  ASSUME NEW C, NEW b, NEW volumes, NEW spaced, Formatted(C, b, volumes, spaced),
         Len(volumes) \in Nat, NEW x \in 1..Len(C)
  PROVE  PartAt(C, b, volumes, spaced, x)
  <1> DEFINE n == Len(volumes)
  <1>1. CASE x \in {1, 2}
    BY <1>1 DEF Formatted, PartAt
  <1>2. CASE x \notin {1, 2}
    <2>1. PICK i \in 1..n : x \in (b[i] + 1)..b[i + 1]
      BY <1>2 DEF Formatted
    <2>2. b[i] \in Nat
      <3>1. b \in [1..(n + 1) -> Nat]
        BY DEF Formatted
      <3>2. i \in 1..(n + 1)
        OBVIOUS
      <3> QED BY Zenon, <3>1, <3>2
    <2> DEFINE p == b[i]
    <2>3. CASE i \in Qcow2(volumes)
      <3>1. /\ b[i + 1] = p + 6
            /\ C[p + 1] = Option("-blockdev")
            /\ C[p + 2] = BlockFile(i, volumes[i], spaced[i])
            /\ C[p + 3] = Option("-blockdev")
            /\ C[p + 4] = BlockQcow2(BlockFile(i, volumes[i], spaced[i]))
            /\ C[p + 5] = Option("-device")
            /\ C[p + 6] = Moved(i)
        BY <2>3 DEF Formatted
      <3>2. p \in Nat /\ x \in (p + 1)..(p + 6)
        BY <2>1, <2>2, <3>1
      <3> HIDE DEF p
      <3>3. x = p + 1 \/ x = p + 2 \/ x = p + 3 \/ x = p + 4 \/ x = p + 5 \/ x = p + 6
        BY <3>2
      <3> QED BY Zenon, <2>2, <2>3, <3>1, <3>3 DEF p, PartAt
    <2>4. CASE i \notin Qcow2(volumes)
      <3>1. /\ b[i + 1] = p + 4
            /\ C[p + 1] = Option("-blockdev")
            /\ C[p + 2] = BlockFile(i, volumes[i], spaced[i])
            /\ C[p + 3] = Option("-device")
            /\ C[p + 4] = Device(i)
        BY <2>4 DEF Formatted
      <3>2. p \in Nat /\ x \in (p + 1)..(p + 4)
        BY <2>1, <2>2, <3>1
      <3> HIDE DEF p
      <3>3. x = p + 1 \/ x = p + 2 \/ x = p + 3 \/ x = p + 4
        BY <3>2
      <3> QED BY Zenon, <2>2, <2>4, <3>1, <3>3 DEF p, PartAt
    <2> QED BY <2>3, <2>4
  <1> QED BY <1>1, <1>2

LEMMA FormattedUnspaced ==
  ASSUME NEW C, NEW b, NEW volumes, NEW spaced, Formatted(C, b, volumes, spaced),
         NoSpace(volumes, spaced), Len(volumes) \in Nat, NEW x \in 1..Len(C)
  PROVE  ~C[x].spaced
  <1>1. \A text : ~Option(text).spaced
    BY Zenon, OthersUnspaced
  <1>2. \A i \in 1..Len(volumes) :
           /\ ~BlockFile(i, volumes[i], spaced[i]).spaced
           /\ ~BlockQcow2(BlockFile(i, volumes[i], spaced[i])).spaced
           /\ ~Device(i).spaced /\ ~Moved(i).spaced
    <2> SUFFICES ASSUME NEW i \in 1..Len(volumes)
                 PROVE  /\ ~BlockFile(i, volumes[i], spaced[i]).spaced
                        /\ ~BlockQcow2(BlockFile(i, volumes[i], spaced[i])).spaced
                        /\ ~Device(i).spaced /\ ~Moved(i).spaced
      OBVIOUS
    <2>1. ~spaced[i]
      BY Zenon DEF NoSpace
    <2>2. /\ ~BlockFile(i, volumes[i], spaced[i]).spaced
          /\ ~BlockQcow2(BlockFile(i, volumes[i], spaced[i])).spaced
      BY Zenon, <2>1, FileUnspaced
    <2> QED BY Zenon, <2>2, OthersUnspaced
  <1>3. \/ C[x] = Option("-name") \/ C[x] = Option("guest") \/ C[x] = Option("-blockdev")
        \/ C[x] = Option("-device")
        \/ \E i \in 1..Len(volumes) :
              \/ C[x] = BlockFile(i, volumes[i], spaced[i])
              \/ C[x] = BlockQcow2(BlockFile(i, volumes[i], spaced[i]))
              \/ C[x] = Device(i) \/ C[x] = Moved(i)
    <2>1. PartAt(C, b, volumes, spaced, x)
      BY FormattedParts
    <2> QED BY Zenon, <2>1 DEF PartAt
  <1> QED BY Zenon, <1>1, <1>2, <1>3

\* What is left of a guest's command line: the formatted one and the network.
LEMMA Rewritten ==
  ASSUME NEW V, NEW volumes \in Seq(V), NEW spaced, NoSpace(volumes, spaced)
  PROVE  \E T, C, b : /\ C \in Seq(T) /\ Formatted(C, b, volumes, spaced)
                      /\ Rewrite(LaunchArgs(volumes, spaced)) = C \o UserNet
  <1> DEFINE A == LaunchArgs(volumes, spaced)
             B == StripSandbox(A)
             C == InjectFormats(B, Qcow2Nodes(B))
  <1> HIDE DEF A
  <1>1. PICK S : /\ A \in Seq(S) /\ DiskArgs(A, 4, volumes, spaced)
                 /\ \A x \in 1..4 : A[x] = Opening[x]
    BY Launched DEF A
  <1>2. /\ B \in Seq(S) /\ DiskArgs(B, 2, volumes, spaced)
        /\ B[1] = Option("-name") /\ B[2] = Option("guest")
    BY <1>1, Stripped
  <1>3. 2 \in DOMAIN A /\ A[2].text = "guest"
    <2>1. Len(A) >= 4
      BY <1>1 DEF DiskArgs
    <2>2. A[2] = Option("guest")
      BY <1>1 DEF Opening
    <2> QED BY <1>1, <2>1, <2>2, OptionText
  <1> HIDE DEF B
  <1>4. SplitWords(B) = B
    <2>1. \A x \in 1..Len(B) : ~B[x].spaced
      BY <1>2, StrippedUnspaced
    <2> QED BY <1>2, <2>1, NothingSplit
  <1>5. PICK T : C \in Seq(T) /\ \E b : Formatted(C, b, volumes, spaced)
    BY <1>2, Injected
  <1> HIDE DEF C
  <1>6. PICK b : Formatted(C, b, volumes, spaced)
    BY <1>5
  <1>7. SplitWords(C) = C
    <2>1. Len(volumes) \in Nat
      OBVIOUS
    <2>2. \A x \in 1..Len(C) : ~C[x].spaced
      BY <1>6, <2>1, FormattedUnspaced
    <2> QED BY <1>5, <2>2, NothingSplit
  <1>8. Rewrite(A) = SplitWords(InjectFormats(SplitWords(B), Qcow2Nodes(SplitWords(B)))) \o UserNet
    BY Zenon, <1>3 DEF Rewrite, B
  <1>9. Rewrite(A) = C \o UserNet
    BY Zenon, <1>4, <1>7, <1>8 DEF C
  <1> QED BY Zenon, <1>5, <1>6, <1>9 DEF A

\* The command line is C and then the network of the user.
Ends(args, C) ==
    /\ Len(C) \in Nat /\ Len(args) = Len(C) + 4
    /\ \A x \in 1..Len(C) : args[x] = C[x]
    /\ args[Len(C) + 1].text = "-netdev" /\ args[Len(C) + 2].text = "user"
    /\ args[Len(C) + 3].text = "-device" /\ args[Len(C) + 4].text = "netdev=net0"

LEMMA Ended ==
  ASSUME NEW T, NEW C \in Seq(T)
  PROVE  Ends(C \o UserNet, C) /\ DOMAIN (C \o UserNet) = 1..(Len(C) + 4)
  <1> DEFINE S == T \cup {Option("-netdev"), Option("user"), Option("-device"),
                          Option("netdev=net0")}
             args == C \o UserNet
             k == Len(C)
  <1>1. /\ UserNet \in Seq(S) /\ Len(UserNet) = 4
        /\ UserNet[1] = Option("-netdev") /\ UserNet[2] = Option("user")
        /\ UserNet[3] = Option("-device") /\ UserNet[4] = Option("netdev=net0")
    BY DEF UserNet
  <1>2. C \in Seq(S) /\ k \in Nat
    OBVIOUS
  <1> HIDE DEF S
  <1>3. args \in Seq(S) /\ Joined(C, UserNet, args)
    BY Zenon, <1>1, <1>2, Concatenated
  <1> HIDE DEF args
  <1>4. /\ Len(args) = k + 4 /\ \A x \in 1..k : args[x] = C[x]
        /\ \A x \in 1..4 : args[k + x] = UserNet[x]
    BY <1>1, <1>3 DEF Joined
  <1>5. /\ args[k + 1] = UserNet[1] /\ args[k + 2] = UserNet[2]
        /\ args[k + 3] = UserNet[3] /\ args[k + 4] = UserNet[4]
    BY <1>4
  <1>6. /\ args[k + 1].text = "-netdev" /\ args[k + 2].text = "user"
        /\ args[k + 3].text = "-device" /\ args[k + 4].text = "netdev=net0"
    BY Zenon, <1>1, <1>5, OptionText
  <1>7. DOMAIN args = 1..(k + 4)
    BY <1>3, <1>4
  <1> QED BY <1>2, <1>4, <1>6, <1>7 DEF Ends, args

LEMMA MoreParts ==
  ASSUME NEW i \in Nat, NEW path, NEW sp
  PROVE  /\ BlockQcow2(BlockFile(i, path, sp)).text = "qcow2"
         /\ BlockQcow2(BlockFile(i, path, sp)).node = -i
         /\ BlockQcow2(BlockFile(i, path, sp)).ref = i
         /\ Moved(i).text = "drive" /\ Moved(i).disk = i /\ Moved(i).ref = -i
  BY DEF BlockFile, BlockQcow2, Moved, Device, Option, Fmt

\* The texts of a formatted command line.
LEMMA FormattedTexts ==
  ASSUME NEW C, NEW b, NEW volumes, NEW spaced, Formatted(C, b, volumes, spaced),
         Len(volumes) \in Nat, NEW x \in 1..Len(C)
  PROVE  /\ C[x].text \notin {"-sandbox", "on"}
         /\ C[x].text = "-blockdev" =>
               \E i \in 1..Len(volumes) :
                  b[i] \in Nat /\ (x = b[i] + 1 \/ (i \in Qcow2(volumes) /\ x = b[i] + 3))
  <1>1. PartAt(C, b, volumes, spaced, x)
    BY FormattedParts
  <1>2. \A i \in 1..Len(volumes) :
           /\ BlockFile(i, volumes[i], spaced[i]).text = "file"
           /\ BlockQcow2(BlockFile(i, volumes[i], spaced[i])).text = "qcow2"
           /\ Device(i).text = "drive" /\ Moved(i).text = "drive"
    <2> SUFFICES ASSUME NEW i \in 1..Len(volumes)
                 PROVE  /\ BlockFile(i, volumes[i], spaced[i]).text = "file"
                        /\ BlockQcow2(BlockFile(i, volumes[i], spaced[i])).text = "qcow2"
                        /\ Device(i).text = "drive" /\ Moved(i).text = "drive"
      OBVIOUS
    <2> DEFINE path == volumes[i]
               sp == spaced[i]
    <2> HIDE DEF path, sp
    <2>1. i \in Nat
      OBVIOUS
    <2>2. BlockFile(i, path, sp).text = "file" /\ Device(i).text = "drive"
      BY Parts
    <2>3. BlockQcow2(BlockFile(i, path, sp)).text = "qcow2" /\ Moved(i).text = "drive"
      BY <2>1, MoreParts
    <2> QED BY Zenon, <2>2, <2>3 DEF path, sp
  <1>3. \/ C[x].text \in {"-name", "guest", "-device", "file", "qcow2", "drive"}
        \/ /\ C[x].text = "-blockdev"
           /\ \E i \in 1..Len(volumes) :
                 b[i] \in Nat /\ (x = b[i] + 1 \/ (i \in Qcow2(volumes) /\ x = b[i] + 3))
    <2>1. CASE x = 1 /\ C[x] = Option("-name")
      BY Zenon, <2>1, OptionText
    <2>2. CASE x = 2 /\ C[x] = Option("guest")
      BY Zenon, <2>2, OptionText
    <2>3. ASSUME NEW i \in 1..Len(volumes), b[i] \in Nat,
                 \/ x = b[i] + 1 /\ C[x] = Option("-blockdev")
                 \/ x = b[i] + 2 /\ C[x] = BlockFile(i, volumes[i], spaced[i])
                 \/ /\ i \in Qcow2(volumes)
                    /\ \/ x = b[i] + 3 /\ C[x] = Option("-blockdev")
                       \/ x = b[i] + 4 /\ C[x] = BlockQcow2(BlockFile(i, volumes[i], spaced[i]))
                       \/ x = b[i] + 5 /\ C[x] = Option("-device")
                       \/ x = b[i] + 6 /\ C[x] = Moved(i)
                 \/ /\ i \notin Qcow2(volumes)
                    /\ \/ x = b[i] + 3 /\ C[x] = Option("-device")
                       \/ x = b[i] + 4 /\ C[x] = Device(i)
          PROVE  \/ C[x].text \in {"-name", "guest", "-device", "file", "qcow2", "drive"}
                 \/ /\ C[x].text = "-blockdev"
                    /\ x = b[i] + 1 \/ (i \in Qcow2(volumes) /\ x = b[i] + 3)
      BY Zenon, <1>2, <2>3, OptionText
    <2> QED BY Zenon, <1>1, <2>1, <2>2, <2>3 DEF PartAt
  <1> DEFINE t == C[x].text
             Here == \E i \in 1..Len(volumes) :
                        b[i] \in Nat /\ (x = b[i] + 1 \/ (i \in Qcow2(volumes) /\ x = b[i] + 3))
  <1>4. t \in {"-name", "guest", "-device", "file", "qcow2", "drive"} \/ (t = "-blockdev" /\ Here)
    BY Zenon, <1>3
  <1> HIDE DEF t, Here
  <1>5. t \notin {"-sandbox", "on"} /\ (t = "-blockdev" => Here)
    BY <1>4
  <1> QED BY Zenon, <1>5 DEF t, Here

\* The arguments of disk i behind its file, from place p + 3 on.
ThroughQcow2(args, p, i, k) ==
    /\ p + 6 <= k
    /\ args[p + 3].text = "-blockdev"
    /\ args[p + 4].text = "qcow2" /\ args[p + 4].ref = i
    /\ args[p + 4].node = -i
    /\ args[p + 5].text = "-device"
    /\ args[p + 6].disk = i /\ args[p + 6].ref = -i
Directly(args, p, i) ==
    /\ args[p + 3].text = "-device"
    /\ args[p + 4].disk = i /\ args[p + 4].ref = i

\* The arguments of disk i on the whole command line.
LEMMA DiskRead ==
  ASSUME NEW args, NEW C, Ends(args, C), NEW b, NEW volumes, NEW spaced,
         Formatted(C, b, volumes, spaced), Len(volumes) \in Nat,
         NEW i \in 1..Len(volumes)
  PROVE  /\ b[i] \in Nat /\ i \in Nat /\ b[i] + 4 <= Len(C)
         /\ args[b[i] + 1].text = "-blockdev"
         /\ args[b[i] + 2].text = "file" /\ args[b[i] + 2].disk = i
         /\ args[b[i] + 2].node = i
         /\ i \in Qcow2(volumes) => ThroughQcow2(args, b[i], i, Len(C))
         /\ i \notin Qcow2(volumes) => Directly(args, b[i], i)
  <1> DEFINE p == b[i]
             path == volumes[i]
             sp == spaced[i]
             k == Len(C)
  <1>1. p \in Nat /\ i \in Nat
    <2>1. b \in [1..(Len(volumes) + 1) -> Nat]
      BY DEF Formatted
    <2>2. i \in 1..(Len(volumes) + 1) /\ i \in Nat
      OBVIOUS
    <2> QED BY Zenon, <2>1, <2>2
  <1>2. k \in Nat /\ \A x \in 1..k : args[x] = C[x]
    BY DEF Ends
  <1>3. /\ b[i + 1] <= k
        /\ C[p + 1] = Option("-blockdev") /\ C[p + 2] = BlockFile(i, path, sp)
        /\ i \in Qcow2(volumes) =>
              /\ b[i + 1] = p + 6
              /\ C[p + 3] = Option("-blockdev")
              /\ C[p + 4] = BlockQcow2(BlockFile(i, path, sp))
              /\ C[p + 5] = Option("-device") /\ C[p + 6] = Moved(i)
        /\ i \notin Qcow2(volumes) =>
              /\ b[i + 1] = p + 4
              /\ C[p + 3] = Option("-device") /\ C[p + 4] = Device(i)
    BY Zenon DEF Formatted
  <1> HIDE DEF p, path, sp, k
  <1>4. /\ BlockFile(i, path, sp).text = "file" /\ BlockFile(i, path, sp).disk = i
        /\ BlockFile(i, path, sp).node = i
        /\ Device(i).disk = i /\ Device(i).ref = i
    BY Parts
  <1>5. /\ BlockQcow2(BlockFile(i, path, sp)).text = "qcow2"
        /\ BlockQcow2(BlockFile(i, path, sp)).node = -i
        /\ BlockQcow2(BlockFile(i, path, sp)).ref = i
        /\ Moved(i).disk = i /\ Moved(i).ref = -i
    BY <1>1, MoreParts
  <1>6. Option("-blockdev").text = "-blockdev" /\ Option("-device").text = "-device"
    BY Zenon, OptionText
  <1>7. CASE i \in Qcow2(volumes)
    <2>1. p + 6 <= k
      BY <1>3, <1>7
    <2>2. /\ p + 1 \in 1..k /\ p + 2 \in 1..k /\ p + 3 \in 1..k /\ p + 4 \in 1..k
          /\ p + 5 \in 1..k /\ p + 6 \in 1..k /\ p + 4 <= k
      BY <1>1, <1>2, <2>1
    <2>3. /\ args[p + 1] = C[p + 1] /\ args[p + 2] = C[p + 2] /\ args[p + 3] = C[p + 3]
          /\ args[p + 4] = C[p + 4] /\ args[p + 5] = C[p + 5] /\ args[p + 6] = C[p + 6]
      BY Zenon, <1>2, <2>2
    <2> QED BY Zenon, <1>1, <1>3, <1>4, <1>5, <1>6, <1>7, <2>1, <2>2, <2>3
         DEF p, k, ThroughQcow2
  <1>8. CASE i \notin Qcow2(volumes)
    <2>1. p + 4 <= k
      BY <1>3, <1>8
    <2>2. p + 1 \in 1..k /\ p + 2 \in 1..k /\ p + 3 \in 1..k /\ p + 4 \in 1..k
      BY <1>1, <1>2, <2>1
    <2>3. /\ args[p + 1] = C[p + 1] /\ args[p + 2] = C[p + 2] /\ args[p + 3] = C[p + 3]
          /\ args[p + 4] = C[p + 4]
      BY Zenon, <1>2, <2>2
    <2> QED BY Zenon, <1>1, <1>3, <1>4, <1>6, <1>8, <2>1, <2>2, <2>3
         DEF p, k, Directly
  <1> QED BY <1>7, <1>8

\* Where -blockdev puts its definitions.
LEMMA Definitions ==
  ASSUME NEW args, NEW C, Ends(args, C), NEW b, NEW volumes, NEW spaced,
         Formatted(C, b, volumes, spaced), Len(volumes) \in Nat,
         NEW j \in 1..Len(args), After(args, j, "-blockdev")
  PROVE  \E i \in 1..Len(volumes) :
            /\ b[i] \in Nat
            /\ \/ j = b[i] + 2 /\ args[j].node = i
               \/ j = b[i] + 4 /\ args[j].node = -i
  <1> DEFINE k == Len(C)
             y == j - 1
  <1>1. /\ k \in Nat /\ Len(args) = k + 4
        /\ \A x \in 1..k : args[x] = C[x]
        /\ args[k + 1].text = "-netdev" /\ args[k + 2].text = "user"
        /\ args[k + 3].text = "-device"
    BY DEF Ends
  <1>2. y \in 1..(k + 3) /\ args[y].text = "-blockdev" /\ j = y + 1
    BY <1>1 DEF After
  <1> HIDE DEF k, y
  <1>3. y \in 1..k
    <2>1. CASE y \notin 1..k
      <3>1. y = k + 1 \/ y = k + 2 \/ y = k + 3
        BY <1>1, <1>2, <2>1
      <3> QED BY <1>1, <1>2, <3>1
    <2> QED BY <2>1
  <1>4. C[y].text = "-blockdev"
    BY <1>1, <1>2, <1>3
  <1>5. PICK i \in 1..Len(volumes) :
           b[i] \in Nat /\ (y = b[i] + 1 \/ (i \in Qcow2(volumes) /\ y = b[i] + 3))
    <2>1. C[y].text = "-blockdev" =>
             \E i \in 1..Len(volumes) :
                b[i] \in Nat /\ (y = b[i] + 1 \/ (i \in Qcow2(volumes) /\ y = b[i] + 3))
      <3>1. y \in 1..Len(C)
        BY <1>3 DEF k
      <3> QED BY <3>1, FormattedTexts
    <2> QED BY <1>4, <2>1
  <1>6. args[b[i] + 2].node = i /\ (i \in Qcow2(volumes) => args[b[i] + 4].node = -i)
    BY DiskRead DEF ThroughQcow2
  <1> DEFINE p == b[i]
  <1>7. p \in Nat /\ ((j = p + 2 /\ y = p + 1) \/ (i \in Qcow2(volumes) /\ j = p + 4))
    <2>1. p \in Nat /\ (y = p + 1 \/ (i \in Qcow2(volumes) /\ y = p + 3))
      BY <1>5
    <2> HIDE DEF p
    <2>2. CASE y = p + 1
      <3>1. j = p + 2
        BY <1>2, <2>1, <2>2
      <3> QED BY <2>1, <2>2, <3>1
    <2>3. CASE i \in Qcow2(volumes) /\ y = p + 3
      <3>1. j = p + 4
        BY <1>2, <2>1, <2>3
      <3> QED BY <2>1, <2>3, <3>1
    <2> QED BY <2>1, <2>2, <2>3
  <1> QED BY Zenon, <1>6, <1>7

-----------------------------------------------------------------------------
(* GuestDisks *)

Defs(args) == {j \in DOMAIN args : After(args, j, "-blockdev")}
Uses(args) == {j \in DOMAIN args : After(args, j, "-device")}
ReadsRaw(args, f, j) == f < j /\ args[j].ref = args[f].node
ReadsQcow2(args, f, j) ==
    /\ f < j
    /\ \E q \in Defs(args) : /\ f < q /\ q < j
                             /\ args[q].text = "qcow2"
                             /\ args[q].ref = args[f].node
                             /\ args[j].ref = args[q].node
FileOf(args, f, d) == args[f].text = "file" /\ args[f].disk = d
Reader(args, d, volumes) ==
    \E j \in Uses(args), f \in Defs(args) :
       /\ args[j].disk = d /\ FileOf(args, f, d)
       /\ d \in Qcow2(volumes) => ReadsQcow2(args, f, j)
       /\ d \notin Qcow2(volumes) => ReadsRaw(args, f, j)

\* The device of disk d refers to a node of the file of disk d: directly, or
\* through the format node when the volume is a qcow2 image.
LEMMA DeviceReads ==
  ASSUME NEW args, NEW C, Ends(args, C), DOMAIN args = 1..(Len(C) + 4),
         NEW b, NEW volumes, NEW spaced,
         Formatted(C, b, volumes, spaced), Len(volumes) \in Nat,
         NEW d \in 1..Len(volumes)
  PROVE  Reader(args, d, volumes)
  <1> DEFINE p == b[d]
             k == Len(C)
  <1>1. /\ p \in Nat /\ p + 4 <= k
        /\ args[p + 1].text = "-blockdev"
        /\ args[p + 2].text = "file" /\ args[p + 2].disk = d
        /\ args[p + 2].node = d
    BY DiskRead
  <1>2. /\ d \in Qcow2(volumes) => ThroughQcow2(args, p, d, k)
        /\ d \notin Qcow2(volumes) => Directly(args, p, d)
    BY DiskRead
  <1>3. k \in Nat /\ DOMAIN args = 1..(k + 4)
    BY DEF Ends
  <1> HIDE DEF p, k
  <1>4. p + 2 \in Defs(args) /\ FileOf(args, p + 2, d)
    <2>1. p + 2 \in 1..(k + 4) /\ p + 2 > 1 /\ (p + 2) - 1 = p + 1
      BY <1>1, <1>3
    <2> QED BY <1>1, <1>3, <2>1 DEF Defs, After, FileOf
  <1>5. CASE d \in Qcow2(volumes)
    <2>0. ThroughQcow2(args, p, d, k)
      BY <1>2, <1>5
    <2>1. /\ p + 4 \in 1..(k + 4) /\ p + 4 > 1 /\ (p + 4) - 1 = p + 3
          /\ p + 6 \in 1..(k + 4) /\ p + 6 > 1 /\ (p + 6) - 1 = p + 5
          /\ p + 2 < p + 4 /\ p + 4 < p + 6 /\ p + 2 < p + 6
      BY <1>1, <1>3, <2>0 DEF ThroughQcow2
    <2>2. p + 4 \in Defs(args)
      BY <1>3, <2>0, <2>1 DEF ThroughQcow2, Defs, After
    <2>3. p + 6 \in Uses(args)
      BY <1>3, <2>0, <2>1 DEF ThroughQcow2, Uses, After
    <2>4. ReadsQcow2(args, p + 2, p + 6)
      BY Zenon, <1>1, <2>0, <2>1, <2>2 DEF ThroughQcow2, ReadsQcow2
    <2> QED BY Zenon, <1>4, <1>5, <2>0, <2>3, <2>4 DEF ThroughQcow2, Reader
  <1>6. CASE d \notin Qcow2(volumes)
    <2>0. Directly(args, p, d)
      BY <1>2, <1>6
    <2>1. p + 4 \in 1..(k + 4) /\ p + 4 > 1 /\ (p + 4) - 1 = p + 3 /\ p + 2 < p + 4
      BY <1>1, <1>3
    <2>2. p + 4 \in Uses(args)
      BY <1>3, <2>0, <2>1 DEF Directly, Uses, After
    <2>3. ReadsRaw(args, p + 2, p + 4)
      BY Zenon, <1>1, <2>0, <2>1 DEF Directly, ReadsRaw
    <2> QED BY Zenon, <1>4, <1>6, <2>0, <2>2, <2>3 DEF Directly, Reader
  <1> QED BY <1>5, <1>6

\* A node is defined once.
LEMMA DefinedOnce ==
  ASSUME NEW args, NEW C, Ends(args, C), DOMAIN args = 1..(Len(C) + 4),
         NEW b, NEW volumes, NEW spaced,
         Formatted(C, b, volumes, spaced), Len(volumes) \in Nat,
         NEW j \in Defs(args), NEW l \in Defs(args), args[j].node = args[l].node
  PROVE  j = l
  <1>1. DOMAIN args = 1..Len(args)
    BY DEF Ends
  <1>2. PICK i \in 1..Len(volumes) :
            /\ b[i] \in Nat
            /\ \/ j = b[i] + 2 /\ args[j].node = i
               \/ j = b[i] + 4 /\ args[j].node = -i
    <2>1. j \in 1..Len(args) /\ After(args, j, "-blockdev")
      BY <1>1 DEF Defs
    <2> QED BY <2>1, Definitions
  <1>3. PICK h \in 1..Len(volumes) :
            /\ b[h] \in Nat
            /\ \/ l = b[h] + 2 /\ args[l].node = h
               \/ l = b[h] + 4 /\ args[l].node = -h
    <2>1. l \in 1..Len(args) /\ After(args, l, "-blockdev")
      BY <1>1 DEF Defs
    <2> QED BY <2>1, Definitions
  <1> DEFINE x == args[j].node
  <1>4. x = args[l].node
    OBVIOUS
  <1> HIDE DEF x
  <1>5. i \in Nat \ {0} /\ h \in Nat \ {0}
    OBVIOUS
  <1>6. (x = i /\ x # -i /\ j = b[i] + 2) \/ (x = -i /\ x # i /\ j = b[i] + 4)
    <2>1. i # -i
      BY <1>5
    <2> QED BY Zenon, <1>2, <2>1 DEF x
  <1>7. (x = h /\ x # -h /\ l = b[h] + 2) \/ (x = -h /\ x # h /\ l = b[h] + 4)
    <2>1. h # -h
      BY <1>5
    <2> QED BY Zenon, <1>3, <1>4, <2>1
  <1>8. i = h
    BY <1>5, <1>6, <1>7
  <1> QED BY Zenon, <1>6, <1>7, <1>8

LEMMA SandboxGone ==
  ASSUME NEW args, NEW C, Ends(args, C), DOMAIN args = 1..(Len(C) + 4),
         NEW b, NEW volumes, NEW spaced,
         Formatted(C, b, volumes, spaced), Len(volumes) \in Nat,
         NEW j \in DOMAIN args
  PROVE  args[j].text \notin {"-sandbox", "on"}
  <1> DEFINE k == Len(C)
             t == args[j].text
  <1>1. /\ k \in Nat /\ \A x \in 1..k : args[x] = C[x]
        /\ args[k + 1].text = "-netdev" /\ args[k + 2].text = "user"
        /\ args[k + 3].text = "-device" /\ args[k + 4].text = "netdev=net0"
    BY DEF Ends
  <1>2. CASE j \in 1..k
    BY <1>1, <1>2, FormattedTexts
  <1>3. CASE j \notin 1..k
    <2>1. j \in 1..(k + 4)
      OBVIOUS
    <2> HIDE DEF k
    <2>2. j = k + 1 \/ j = k + 2 \/ j = k + 3 \/ j = k + 4
      BY <1>1, <1>3, <2>1
    <2>3. t \in {"-netdev", "user", "-device", "netdev=net0"}
      BY Zenon, <1>1, <2>2
    <2> HIDE DEF t
    <2>4. t \notin {"-sandbox", "on"}
      BY <2>3
    <2> QED BY <2>4 DEF t
  <1> QED BY <1>2, <1>3

\* The name of a volume tells its format, for a file that is named plainly.
LEMMA ExtensionTells ==
  ASSUME NEW disk, Plainly(Attributes(disk.image))
  PROVE  ContainerPath(disk).ext = "qcow2" <=> Attributes(disk.image).magic
  <1> DEFINE file == Attributes(disk.image)
  <1>1. ContainerPath(disk).ext = ContainerExtension(disk.image)
    BY DEF ContainerPath
  <1>2. ContainerExtension(disk.image)
           = IF file.magic /\ file.ext \notin {"qcow2", "QCOW2"} THEN "qcow2" ELSE file.ext
    BY DEF ContainerExtension
  <1>3. /\ file.magic => file.ext # "QCOW2"
        /\ ~file.magic => file.ext # "qcow2"
    BY DEF Plainly
  <1> HIDE DEF file
  <1>4. ContainerExtension(disk.image) = "qcow2" <=> file.magic
    BY Zenon, <1>2, <1>3
  <1> QED BY Zenon, <1>1, <1>4 DEF file

\* On the command line QEMU gets, every disk of the guest reads the file that
\* the configuration names for it, in the format of that file; no node has two
\* definitions or is used before its own, and the sandbox is gone: whatever
\* the disks and their number, as long as no name misleads the wrapper.
THEOREM DisksReadTheirFiles == Spec => []GuestDisks
  <1>1. CreateInv => GuestDisks
    <2> DEFINE File(d) == Attributes(vm.disks[d].image)
               volumes == ctr.vmi.volumes
               spaced == [d \in DOMAIN vm.disks |-> File(d).spaced]
               args == Rewrite(LaunchArgs(volumes, spaced))
               Reads(j, d) ==
                 \E f \in Defs(args) :
                    /\ f < j
                    /\ args[f].text = "file" /\ args[f].disk = d
                    /\ IF File(d).magic
                       THEN \E q \in Defs(args) : /\ f < q /\ q < j
                                                  /\ args[q].text = "qcow2"
                                                  /\ args[q].ref = args[f].node
                                                  /\ args[j].ref = args[q].node
                       ELSE args[j].ref = args[f].node
    <2>1. SUFFICES ASSUME CreateInv, pc = "created",
                          \A d \in DOMAIN vm.disks : Plainly(File(d))
                   PROVE  /\ \A d \in DOMAIN vm.disks :
                                \E j \in Uses(args) : args[j].disk = d /\ Reads(j, d)
                          /\ \A j, l \in Defs(args) : args[j].node = args[l].node => j = l
                          /\ \A j \in DOMAIN args : args[j].text \notin {"-sandbox", "on"}
      BY Zenon DEF GuestDisks, Defs, Uses
    <2>2. /\ vm.disks \in Seq(DiskSpec)
          /\ volumes = [i \in DOMAIN vm.disks |-> ContainerPath(vm.disks[i])]
      <3>1. vm \in VMSpec /\ ctr = ContainerSpec(vm.name, ToVMI(vm))
        BY <2>1 DEF CreateInv, TypeOK
      <3>2. ctr.vmi = ToVMI(vm)
        BY <3>1 DEF ContainerSpec
      <3>3. ToVMI(vm).volumes = [i \in DOMAIN vm.disks |-> ContainerPath(vm.disks[i])]
        BY DEF ToVMI
      <3> QED BY <3>1, <3>2, <3>3 DEF VMSpec
    <2> DEFINE n == Len(vm.disks)
               V == {ContainerPath(vm.disks[i]) : i \in DOMAIN vm.disks}
    <2>3. n \in Nat /\ DOMAIN vm.disks = 1..n
      BY <2>2
    <2>4. volumes \in Seq(V) /\ Len(volumes) = n /\ \A i \in 1..n :
             volumes[i] = ContainerPath(vm.disks[i])
      <3>1. volumes \in [1..n -> V]
        BY Zenon, <2>2, <2>3
      <3>2. \A i \in 1..n : volumes[i] = ContainerPath(vm.disks[i])
        BY Zenon, <2>2, <2>3
      <3> HIDE DEF V, volumes, n
      <3> QED BY <2>3, <3>1, <3>2, AsSeq
    <2>5. NoSpace(volumes, spaced)
      <3> SUFFICES ASSUME NEW i \in 1..n PROVE ~spaced[i]
        BY Zenon, <2>4 DEF NoSpace
      <3>1. i \in DOMAIN vm.disks /\ Plainly(File(i))
        BY Zenon, <2>1, <2>3
      <3>2. ~File(i).spaced
        BY Zenon, <3>1 DEF Plainly
      <3> QED BY Zenon, <3>1, <3>2
    <2>6. \A d \in 1..n : d \in Qcow2(volumes) <=> File(d).magic
      <3> SUFFICES ASSUME NEW d \in 1..n
                   PROVE  d \in Qcow2(volumes) <=> File(d).magic
        BY Zenon
      <3>1. Plainly(File(d))
        BY Zenon, <2>1, <2>3
      <3>2. ContainerPath(vm.disks[d]).ext = "qcow2" <=> File(d).magic
        BY Zenon, <3>1, ExtensionTells
      <3>3. volumes[d] = ContainerPath(vm.disks[d]) /\ d \in 1..Len(volumes)
        BY Zenon, <2>4
      <3>4. d \in Qcow2(volumes) <=> volumes[d].ext = "qcow2"
        BY Zenon, <3>3 DEF Qcow2
      <3> QED BY Zenon, <3>2, <3>3, <3>4
    <2> HIDE DEF V, volumes, n, spaced
    <2>7. PICK T, C, b : /\ C \in Seq(T) /\ Formatted(C, b, volumes, spaced)
                         /\ args = C \o UserNet
      BY Zenon, <2>4, <2>5, Rewritten
    <2> HIDE DEF args
    <2>8. Ends(args, C) /\ DOMAIN args = 1..(Len(C) + 4)
      BY Zenon, <2>7, Ended
    <2>9. Len(volumes) \in Nat
      BY <2>3, <2>4
    <2>10. ASSUME NEW d \in DOMAIN vm.disks
           PROVE  \E j \in Uses(args) : args[j].disk = d /\ Reads(j, d)
      <3>1. d \in 1..Len(volumes) /\ d \in 1..n
        BY <2>3, <2>4
      <3>2. PICK j \in Uses(args), f \in Defs(args) :
               /\ args[j].disk = d /\ FileOf(args, f, d)
               /\ d \in Qcow2(volumes) => ReadsQcow2(args, f, j)
               /\ d \notin Qcow2(volumes) => ReadsRaw(args, f, j)
        <4>1. Reader(args, d, volumes)
          BY <2>7, <2>8, <2>9, <3>1, DeviceReads
        <4> QED BY Zenon, <4>1 DEF Reader
      <3>3. CASE d \in Qcow2(volumes)
        <4>1. File(d).magic
          BY Zenon, <2>6, <3>1, <3>3
        <4> QED BY Zenon, <3>2, <3>3, <4>1 DEF FileOf, ReadsQcow2
      <3>4. CASE d \notin Qcow2(volumes)
        <4>1. ~File(d).magic
          BY Zenon, <2>6, <3>1, <3>4
        <4> QED BY Zenon, <3>2, <3>4, <4>1 DEF FileOf, ReadsRaw
      <3> QED BY <3>3, <3>4
    <2>11. \A j, l \in Defs(args) : args[j].node = args[l].node => j = l
      BY Zenon, <2>7, <2>8, <2>9, DefinedOnce
    <2>12. \A j \in DOMAIN args : args[j].text \notin {"-sandbox", "on"}
      BY Zenon, <2>7, <2>8, <2>9, SandboxGone
    <2> QED BY Zenon, <2>10, <2>11, <2>12
  <1> QED BY <1>1, CreateInvariant, PTL
=============================================================================
