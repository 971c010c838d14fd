----------------------------- MODULE MessageProofs ----------------------------
(***************************************************************************)
(* What TLAPS proves of the daemon's reading of a message, for any commands*)
(* a user may have in mind and any displays: the text is cut, character by *)
(* character, into the lines and words it was written from; each line is   *)
(* done as it was meant, at once or by way of lines that the daemon writes *)
(* anew; and so the displays are asked for what was meant, in its order.   *)
(***************************************************************************)
EXTENDS CommandLineProofs

-----------------------------------------------------------------------------
(* Reading a text: a reader goes forward through it, from what it reads to  *)
(* where it goes on.                                                        *)

\* From i < n + 1 on, f is what is read at i and what is read from where the reader jumps to.
Jumps(n, first, top, out, nxt, f) ==
    \A i \in first .. top : f[i] = IF i > n THEN <<>> ELSE out[i] \o f[nxt[i]]

\* A reader that only jumps forward comes to an end.
LEMMA JumpsRun ==
  ASSUME NEW n \in Nat, NEW top \in Nat, top > n, NEW U, NEW out \in [1 .. n -> Seq(U)],
         NEW nxt \in [1 .. n -> 1 .. n + 1], \A i \in 1 .. n : nxt[i] > i
  PROVE  \E f \in [1 .. top -> Seq(U)] : Jumps(n, 1, top, out, nxt, f)
<1> DEFINE Solved(k) == \E f \in [n + 1 - k .. top -> Seq(U)] :
               Jumps(n, n + 1 - k, top, out, nxt, f)
<1> DEFINE S == {k \in 0 .. n : Solved(k)}
<1>1. 0 \in S
  <2> DEFINE f == [i \in n + 1 - 0 .. top |-> <<>>]
  <2>1. f \in [n + 1 - 0 .. top -> Seq(U)]
    OBVIOUS
  <2>2. \A i \in n + 1 - 0 .. top : i > n /\ f[i] = <<>>
    OBVIOUS
  <2> HIDE DEF f
  <2>3. Jumps(n, n + 1 - 0, top, out, nxt, f)
    BY <2>2 DEF Jumps
  <2>4. Solved(0)
    BY <2>1, <2>3
  <2> HIDE DEF Solved
  <2> QED
    BY <2>4
<1>2. ASSUME NEW k \in 0 .. n, k < n, k \in S PROVE k + 1 \in S
  <2> DEFINE m == n + 1 - k
  <2> DEFINE l == n + 1 - (k + 1)
  <2>1. PICK f \in [m .. top -> Seq(U)] : Jumps(n, m, top, out, nxt, f)
    BY <1>2
  <2>2. /\ m \in 2 .. n + 1 /\ l \in 1 .. n /\ l = m - 1 /\ top \in Nat /\ m <= top
        /\ nxt[l] \in m .. top /\ l <= n
    <3>1. m \in 2 .. n + 1 /\ l \in 1 .. n /\ l = m - 1 /\ m <= top
      BY <1>2
    <3>2. nxt[l] \in 1 .. n + 1 /\ nxt[l] > l
      BY <3>1
    <3> QED
      BY <3>1, <3>2
  <2> HIDE DEF m, l
  <2> DEFINE new == out[l] \o f[nxt[l]]
  <2> DEFINE g == [i \in l .. top |-> IF i = l THEN new ELSE f[i]]
  <2>3. new \in Seq(U)
    <3>1. out[l] \in Seq(U) /\ f[nxt[l]] \in Seq(U)
      BY <2>1, <2>2
    <3> QED
      BY <3>1
  <2>4. g[l] = new /\ \A i \in m .. top : g[i] = f[i]
    BY <2>2
  <2>5. g \in [l .. top -> Seq(U)]
    <3>1. \A i \in l .. top : i = l \/ i \in m .. top
      BY <2>2
    <3> QED
      BY <2>1, <2>3, <3>1
  <2> HIDE DEF g
  <2>6. Jumps(n, l, top, out, nxt, g)
    <3> SUFFICES ASSUME NEW i \in l .. top
                 PROVE  g[i] = IF i > n THEN <<>> ELSE out[i] \o g[nxt[i]]
      BY DEF Jumps
    <3>1. CASE i = l
      <4>1. g[nxt[l]] = f[nxt[l]] /\ ~(l > n)
        BY <2>2, <2>4
      <4> QED
        BY <2>4, <3>1, <4>1
    <3>2. CASE i # l
      <4>1. i \in m .. top
        BY <2>2, <3>2
      <4>2. f[i] = IF i > n THEN <<>> ELSE out[i] \o f[nxt[i]]
        BY <2>1, <4>1 DEF Jumps
      <4>3. ~(i > n) => g[nxt[i]] = f[nxt[i]]
        <5>1. ~(i > n) => i \in 1 .. n
          BY <2>2, <4>1
        <5>2. ~(i > n) => nxt[i] \in 1 .. n + 1 /\ nxt[i] > i
          BY <5>1
        <5>3. \A x \in 1 .. n + 1 : x > i => x \in m .. top
          BY <2>2, <4>1
        <5>4. ~(i > n) => nxt[i] \in m .. top
          BY <5>2, <5>3
        <5> QED
          BY <2>4, <5>4
      <4> QED
        BY <2>4, <4>1, <4>2, <4>3
    <3> QED
      BY <3>1, <3>2
  <2>7. Solved(k + 1)
    BY <2>5, <2>6 DEF l
  <2> HIDE DEF Solved
  <2> QED
    BY <2>7, <1>2
<1> HIDE DEF S
<1>3. 0 .. n \subseteq S
  BY <1>1, <1>2, UpTo
<1>4. n \in S
  BY <1>3
<1>5. n + 1 - n = 1
  OBVIOUS
<1> QED
  BY <1>4, <1>5 DEF S

\* One more in front of the rest of a list.
LEMMA OneBefore ==
  ASSUME NEW W, NEW w \in Seq(W), NEW m \in Nat, Len(w) = m, NEW j \in 1 .. m
  PROVE  <<w[j]>> \o SubSeq(w, j + 1, m) = SubSeq(w, j, m)
<1> DEFINE a == <<w[j]>>
<1> DEFINE b == SubSeq(w, j + 1, m)
<1> DEFINE c == SubSeq(w, j, m)
<1> DEFINE q == m - j
<1>1. a \in Seq(W) /\ Len(a) = 1 /\ a[1] = w[j]
  OBVIOUS
<1>2. b \in Seq(W) /\ Len(b) = q /\ \A i \in 1 .. q : b[i] = w[i + j]
  OBVIOUS
<1>3. c \in Seq(W) /\ Len(c) = q + 1 /\ \A i \in 1 .. q + 1 : c[i] = w[i + j - 1]
  OBVIOUS
<1>4. q \in Nat
  OBVIOUS
<1> HIDE DEF a, b, c, q
<1>10. a \in Seq(W) /\ b \in Seq(W)
  BY <1>1, <1>2
<1>11. /\ a \o b \in Seq(W) /\ Len(a \o b) = Len(a) + Len(b)
       /\ \A i \in 1 .. Len(a) + Len(b) : (a \o b)[i] = IF i <= Len(a) THEN a[i] ELSE b[i - Len(a)]
  BY <1>10, ConcatProperties
<1>5. a \o b \in Seq(W) /\ Len(a \o b) = 1 + q
  BY <1>1, <1>2, <1>11
<1>6. \A i \in 1 .. 1 + q : (a \o b)[i] = IF i <= 1 THEN a[i] ELSE b[i - 1]
  BY <1>1, <1>2, <1>11
<1>7. \A i \in 1 .. q + 1 : c[i] = (a \o b)[i]
  <2> SUFFICES ASSUME NEW i \in 1 .. q + 1 PROVE c[i] = (a \o b)[i]
    OBVIOUS
  <2>1. CASE i = 1
    <3>1. 1 + j - 1 = j /\ 1 \in 1 .. q + 1 /\ 1 \in 1 .. 1 + q
      BY <1>4
    <3>2. c[1] = w[1 + j - 1]
      BY <1>3, <3>1
    <3>4. (a \o b)[1] = IF 1 <= 1 THEN a[1] ELSE b[1 - 1]
      BY <1>6, <3>1
    <3> QED
      BY <1>1, <2>1, <3>1, <3>2, <3>4
  <2>2. CASE i # 1
    <3>1. i - 1 \in 1 .. q /\ i - 1 + j = i + j - 1 /\ i \in 1 .. 1 + q /\ ~(i <= 1)
      BY <1>4, <2>2
    <3>2. c[i] = w[i + j - 1] /\ b[i - 1] = w[i - 1 + j]
      BY <1>2, <1>3, <3>1
    <3>3. (a \o b)[i] = b[i - 1]
      BY <1>1, <1>6, <3>1
    <3> QED
      BY <3>1, <3>2, <3>3
  <2> QED
    BY <2>1, <2>2
<1>8. Len(c) = Len(a \o b)
  BY <1>3, <1>4, <1>5
<1>9. c = a \o b
  BY <1>3, <1>5, <1>7, <1>8, SeqEqual
<1> QED
  BY <1>9 DEF a, b, c

\* The reader jumps along s, and reads the elements of w there.
Along(out, nxt, s, w, m, n) ==
    /\ Len(w) = m
    /\ \A k \in 1 .. m : out[s[k]] = <<w[k]>>
    /\ \A k \in 1 .. m : nxt[s[k]] = IF k < m THEN s[k + 1] ELSE n + 1

\* What is read from i on, when the reader jumps along s and reads the elements of w there.
LEMMA JumpsGive ==
  ASSUME NEW n \in Nat, NEW top \in Nat, top > n, NEW out, NEW nxt, NEW f,
         Jumps(n, 1, top, out, nxt, f),
         NEW W, NEW w \in Seq(W), NEW m \in Nat \ {0}, NEW s \in [1 .. m -> 1 .. n],
         Along(out, nxt, s, w, m, n)
  PROVE  f[s[1]] = w
<1> USE DEF Along
<1> DEFINE S == {k \in 0 .. m - 1 : f[s[m - k]] = SubSeq(w, m - k, m)}
<1>1. 0 \in S
  <2>5. m \in 1 .. m /\ m - 0 = m /\ 0 \in 0 .. m - 1
    OBVIOUS
  <2>6. s[m] \in 1 .. n
    BY <2>5
  <2>1. s[m] \in 1 .. top /\ ~(s[m] > n) /\ m - 0 = m /\ 0 \in 0 .. m - 1 /\ m \in 1 .. m
    BY <2>5, <2>6
  <2>7. nxt[s[m]] = n + 1 /\ out[s[m]] = <<w[m]>>
    BY <2>5
  <2>8. \A i \in 1 .. top : ~(i > n) => f[i] = out[i] \o f[nxt[i]]
    BY DEF Jumps
  <2>2. f[s[m]] = <<w[m]>> \o f[n + 1]
    BY <2>1, <2>7, <2>8
  <2>3. f[n + 1] = <<>>
    <3>1. n + 1 \in 1 .. top /\ n + 1 > n
      OBVIOUS
    <3> QED
      BY <3>1 DEF Jumps
  <2>4. <<w[m]>> \o <<>> = SubSeq(w, m, m)
    <3>1. w[m] \in W
      OBVIOUS
    <3> QED
      BY <3>1
  <2> QED
    BY <2>1, <2>2, <2>3, <2>4
<1>2. ASSUME NEW k \in 0 .. m - 1, k < m - 1, k \in S PROVE k + 1 \in S
  <2> DEFINE j == m - (k + 1)
  <2>1. j \in 1 .. m /\ j < m /\ j + 1 = m - k /\ j + 1 \in 1 .. m
    BY <1>2
  <2>2. f[s[j + 1]] = SubSeq(w, j + 1, m)
    BY <1>2, <2>1
  <2> HIDE DEF j
  <2>3. s[j] \in 1 .. n
    BY <2>1
  <2>4. s[j] \in 1 .. top /\ ~(s[j] > n)
    BY <2>3
  <2>5. f[s[j]] = <<w[j]>> \o f[s[j + 1]]
    BY <2>1, <2>4 DEF Jumps
  <2>6. <<w[j]>> \o SubSeq(w, j + 1, m) = SubSeq(w, j, m)
    BY <2>1, OneBefore
  <2>7. k + 1 \in 0 .. m - 1
    BY <1>2
  <2> QED
    BY <2>2, <2>5, <2>6, <2>7 DEF j
<1> HIDE DEF S
<1>3. m - 1 \in S
  <2>1. m - 1 \in Nat /\ m - 1 \in 0 .. m - 1
    OBVIOUS
  <2> DEFINE p == m - 1
  <2> HIDE DEF p
  <2>2. \A k \in 0 .. p : k < p /\ k \in S => k + 1 \in S
    BY <1>2 DEF p
  <2>3. 0 .. p \subseteq S
    BY <1>1, <2>1, <2>2, UpTo DEF p
  <2> QED
    BY <2>1, <2>3 DEF p
<1>4. m - (m - 1) = 1
  OBVIOUS
<1>5. SubSeq(w, 1, m) = w
  BY WholePart
<1> QED
  BY <1>3, <1>4, <1>5 DEF S

\* What is joined so far, and with one part more.
LEMMA FlattenParts ==
  ASSUME NEW U, NEW e \in Seq(Seq(U)), NEW k \in 1 .. Len(e)
  PROVE  /\ FlattenSeq(Prefix(e, k - 1)) \in Seq(U) /\ FlattenSeq(Prefix(e, k)) \in Seq(U)
         /\ FlattenSeq(Prefix(e, k)) = FlattenSeq(Prefix(e, k - 1)) \o e[k]
         /\ \E rest \in Seq(U) : FlattenSeq(e) = FlattenSeq(Prefix(e, k)) \o rest
<1> DEFINE X == Seq(U)
<1> DEFINE n == Len(e)
<1>1. n \in Nat /\ e \in [1 .. n -> X] /\ k \in 1 .. n /\ e \in Seq(X)
  OBVIOUS
<1>2. k - 1 \in Nat /\ k - 1 < n /\ k - 1 + 1 = k /\ k \in Nat
  BY <1>1
<1> HIDE DEF X, n
<1>3. \A h \in 0 .. n : Prefix(e, h) \in Seq(X)
  <2> SUFFICES ASSUME NEW h \in 0 .. n PROVE Prefix(e, h) \in Seq(X)
    OBVIOUS
  <2>1. h \in Nat /\ \A i \in 1 .. h : e[i] \in X
    BY <1>1
  <2> QED
    BY <2>1 DEF Prefix
<1>4. Prefix(e, k - 1) \in Seq(X) /\ Prefix(e, k) \in Seq(X) /\ e[k] \in X
  <2>1. k - 1 \in 0 .. n /\ k \in 0 .. n
    BY <1>1, <1>2
  <2> QED
    BY <1>1, <1>3, <2>1
<1>5. Prefix(e, k) = Prefix(e, k - 1) \o <<e[k]>>
  <2> DEFINE h == k - 1
  <2>1. h \in Nat /\ h < n /\ h + 1 = k
    BY <1>2
  <2> HIDE DEF h
  <2>2. Prefix(e, h + 1) = Prefix(e, h) \o <<e[h + 1]>>
    BY <1>1, <2>1, PrefixGrows
  <2> QED
    BY <2>1, <2>2 DEF h
<1>6. FlattenSeq(Prefix(e, k)) = FlattenSeq(Prefix(e, k - 1)) \o e[k]
  <2> DEFINE a == Prefix(e, k - 1)
  <2> DEFINE b == <<e[k]>>
  <2>1. a \in Seq(Seq(U)) /\ b \in Seq(Seq(U)) /\ e[k] \in Seq(U)
    BY <1>4 DEF X
  <2>2. FlattenSeq(b) = e[k]
    BY <2>1, FlattenOne
  <2> HIDE DEF a, b
  <2>3. FlattenSeq(a \o b) = FlattenSeq(a) \o FlattenSeq(b)
    BY <2>1, FlattenConcat
  <2> QED
    BY <1>5, <2>2, <2>3 DEF a, b
<1>7. \E rest \in Seq(U) : FlattenSeq(e) = FlattenSeq(Prefix(e, k)) \o rest
  <2> DEFINE a == Prefix(e, k)
  <2> DEFINE b == SubSeq(e, k + 1, n)
  <2>1. a \in Seq(Seq(U)) /\ b \in Seq(Seq(U))
    BY <1>1, <1>4 DEF X
  <2>2. e = a \o b
    <3>1. Len(a) = k /\ \A i \in 1 .. k : a[i] = e[i]
      BY <1>2 DEF Prefix
    <3> DEFINE q == n - k
    <3>2. Len(b) = q /\ \A i \in 1 .. q : b[i] = e[i + k]
      BY <1>1
    <3>3. q \in Nat /\ k + q = n
      BY <1>1
    <3> HIDE DEF a, b, q
    <3>4. \A i \in 1 .. k + q : e[i] = IF i <= k THEN a[i] ELSE b[i - k]
      <4> SUFFICES ASSUME NEW i \in 1 .. k + q PROVE e[i] = IF i <= k THEN a[i] ELSE b[i - k]
        OBVIOUS
      <4>1. CASE i <= k
        BY <1>2, <3>1, <4>1
      <4>2. CASE ~(i <= k)
        <5>1. i - k \in 1 .. q /\ i - k + k = i
          BY <1>2, <3>3, <4>2
        <5>2. b[i - k] = e[i - k + k]
          BY <3>2, <5>1
        <5> QED
          BY <4>2, <5>1, <5>2
      <4> QED
        BY <4>1, <4>2
    <3>5. e \in [1 .. k + q -> X]
      BY <1>1, <3>3
    <3>6. a \in Seq(X) /\ b \in Seq(X)
      BY <2>1 DEF X
    <3>7. Len(a) = k /\ Len(b) = q
      BY <3>1, <3>2
    <3>8. k \in Nat /\ q \in Nat
      BY <1>2, <3>3
    <3> QED
      BY ONLY <3>4, <3>5, <3>6, <3>7, <3>8, ConcatIs, ZenonT(60)
  <2> HIDE DEF a, b
  <2>3. FlattenSeq(a \o b) = FlattenSeq(a) \o FlattenSeq(b)
    BY <2>1, FlattenConcat
  <2>4. FlattenSeq(b) \in Seq(U)
    BY <2>1, FlattenType
  <2>5. FlattenSeq(e) = FlattenSeq(a) \o FlattenSeq(b)
    BY <2>2, <2>3
  <2> QED
    BY <2>4, <2>5 DEF a
<1>8. FlattenSeq(Prefix(e, k - 1)) \in Seq(U) /\ FlattenSeq(Prefix(e, k)) \in Seq(U)
  BY <1>4, FlattenType DEF X
<1> QED
  BY <1>6, <1>7, <1>8

-----------------------------------------------------------------------------
(* Pieces of a text, with blanks between them, and where they are.          *)

\* A text of pieces with a blank between any two: piece k is at s[k].
Laid(text, p, s) ==
    /\ s \in [1 .. Len(p) + 1 -> Nat] /\ s[1] = 1
    /\ \A k \in 1 .. Len(p) : s[k + 1] = s[k] + Len(p[k]) + 1
    /\ Len(text) = s[Len(p) + 1] - 2
    /\ \A k \in 1 .. Len(p) : \A j \in 1 .. Len(p[k]) : text[s[k] + j - 1] = p[k][j]
    /\ \A k \in 2 .. Len(p) : text[s[k] - 1] = Blank

\* Each piece with a blank before it.
Blanked(p) == [i \in DOMAIN p |-> <<Blank>> \o p[i]]

\* One in front of a list.
LEMMA OneMore ==
  ASSUME NEW U, NEW x \in U, NEW t \in Seq(U)
  PROVE  /\ <<x>> \o t \in Seq(U) /\ Len(<<x>> \o t) = Len(t) + 1 /\ (<<x>> \o t)[1] = x
         /\ \A i \in 1 .. Len(t) : (<<x>> \o t)[i + 1] = t[i]
<1> DEFINE a == <<x>>
<1>1. a \in Seq(U) /\ Len(a) = 1 /\ a[1] = x
  OBVIOUS
<1>2. Len(t) \in Nat
  OBVIOUS
<1> HIDE DEF a
<1>3. a \in Seq(U)
  BY <1>1
<1>4. /\ a \o t \in Seq(U) /\ Len(a \o t) = Len(a) + Len(t)
      /\ \A i \in 1 .. Len(a) + Len(t) : (a \o t)[i] = IF i <= Len(a) THEN a[i] ELSE t[i - Len(a)]
  BY <1>3, ConcatProperties
<1>5. \A i \in 1 .. 1 + Len(t) : (a \o t)[i] = IF i <= 1 THEN a[i] ELSE t[i - 1]
  BY <1>1, <1>4
<1>6. (a \o t)[1] = x
  <2>1. 1 \in 1 .. 1 + Len(t)
    BY <1>2
  <2>2. (a \o t)[1] = IF 1 <= 1 THEN a[1] ELSE t[1 - 1]
    BY <1>5, <2>1
  <2> QED
    BY <1>1, <2>2
<1>7. ASSUME NEW i \in 1 .. Len(t) PROVE (a \o t)[i + 1] = t[i]
  <2> DEFINE h == i + 1
  <2>1. h \in 1 .. 1 + Len(t) /\ ~(h <= 1) /\ h - 1 = i
    BY <1>2
  <2> HIDE DEF h
  <2>2. (a \o t)[h] = t[h - 1]
    BY <1>5, <2>1
  <2> QED
    BY <2>1, <2>2 DEF h
<1>8. Len(a \o t) = Len(t) + 1
  BY <1>1, <1>2, <1>4
<1> QED
  BY <1>4, <1>6, <1>7, <1>8 DEF a

\* Pieces with blanks between them have their places in the text.
LEMMA LaidOut ==
  ASSUME NEW U, Blank \in U, NEW text \in Seq(U), NEW p \in Seq(Seq(U)), p # <<>>,
         <<Blank>> \o text = FlattenSeq(Blanked(p))
  PROVE  \E s : Laid(text, p, s)
<1> DEFINE m == Len(p)
<1> DEFINE e == Blanked(p)
<1> DEFINE whole == <<Blank>> \o text
<1> DEFINE G(k) == FlattenSeq(Prefix(e, k))
<1> DEFINE s == [k \in 1 .. m + 1 |-> Len(G(k - 1)) + 1]
<1>1. m \in Nat /\ m > 0 /\ DOMAIN p = 1 .. m /\ \A k \in 1 .. m : p[k] \in Seq(U)
  OBVIOUS
<1>2. \A k \in 1 .. m : /\ e[k] \in Seq(U) /\ Len(e[k]) = Len(p[k]) + 1 /\ e[k][1] = Blank
                        /\ Len(p[k]) \in Nat
                        /\ \A j \in 1 .. Len(p[k]) : e[k][j + 1] = p[k][j]
  <2> SUFFICES ASSUME NEW k \in 1 .. m
               PROVE  /\ e[k] \in Seq(U) /\ Len(e[k]) = Len(p[k]) + 1 /\ e[k][1] = Blank
                      /\ Len(p[k]) \in Nat
                      /\ \A j \in 1 .. Len(p[k]) : e[k][j + 1] = p[k][j]
    OBVIOUS
  <2>1. e[k] = <<Blank>> \o p[k] /\ p[k] \in Seq(U)
    BY <1>1 DEF Blanked
  <2> DEFINE x == p[k]
  <2>2. x \in Seq(U)
    BY <2>1
  <2> HIDE DEF x
  <2>3. /\ <<Blank>> \o x \in Seq(U) /\ Len(<<Blank>> \o x) = Len(x) + 1
             /\ (<<Blank>> \o x)[1] = Blank
        /\ \A i \in 1 .. Len(x) : (<<Blank>> \o x)[i + 1] = x[i]
    BY <2>2, OneMore
  <2>4. e[k] = <<Blank>> \o x
    BY <2>1 DEF x
  <2> HIDE DEF e
  <2>5. Len(x) \in Nat
    BY <2>2
  <2>6. /\ e[k] \in Seq(U) /\ Len(e[k]) = Len(x) + 1 /\ e[k][1] = Blank /\ Len(x) \in Nat
        /\ \A j \in 1 .. Len(x) : e[k][j + 1] = x[j]
    BY <2>3, <2>4, <2>5
  <2> QED
    BY <2>6 DEF x
<1>3. e \in Seq(Seq(U)) /\ Len(e) = m /\ Prefix(e, m) = e
  <2>1. e = [i \in 1 .. m |-> e[i]]
    BY <1>1 DEF Blanked
  <2> DEFINE X == Seq(U)
  <2>2. \A i \in 1 .. m : e[i] \in X
    BY <1>2
  <2> HIDE DEF X, e
  <2>3. e \in Seq(X) /\ Len(e) = m
    BY <1>1, <2>1, <2>2, ListIs
  <2>4. Prefix(e, m) = e
    BY <2>1 DEF Prefix
  <2> QED
    BY <2>3, <2>4 DEF X
<1>4. /\ whole \in Seq(U) /\ Len(whole) = Len(text) + 1 /\ Len(text) \in Nat
      /\ \A i \in 1 .. Len(text) : whole[i + 1] = text[i]
  BY OneMore
<1>5. whole = FlattenSeq(e) /\ whole = G(m)
  BY <1>3
<1> HIDE DEF whole, e
<1>6. \A k \in 1 .. m : /\ G(k - 1) \in Seq(U) /\ G(k) \in Seq(U) /\ G(k) = G(k - 1) \o e[k]
                        /\ \E rest \in Seq(U) : whole = G(k) \o rest
  <2> SUFFICES ASSUME NEW k \in 1 .. m
               PROVE  /\ G(k - 1) \in Seq(U) /\ G(k) \in Seq(U) /\ G(k) = G(k - 1) \o e[k]
                      /\ \E rest \in Seq(U) : whole = G(k) \o rest
    OBVIOUS
  <2>1. k \in 1 .. Len(e) /\ e \in Seq(Seq(U))
    BY <1>3
  <2>2. /\ G(k - 1) \in Seq(U) /\ G(k) \in Seq(U) /\ G(k) = G(k - 1) \o e[k]
        /\ \E rest \in Seq(U) : FlattenSeq(e) = G(k) \o rest
    BY <2>1, FlattenParts
  <2> QED
    BY <1>5, <2>2
<1>7. G(0) = <<>>
  <2>1. Prefix(e, 0) = <<>>
    BY DEF Prefix
  <2>2. <<>> \in Seq({<<>>})
    OBVIOUS
  <2> QED
    BY <2>1, <2>2, FlattenEmpty
<1> HIDE DEF G
<1>8. \A k \in 1 .. m :
        /\ Len(G(k - 1)) \in Nat /\ Len(G(k)) = Len(G(k - 1)) + Len(p[k]) + 1
        /\ whole[Len(G(k - 1)) + 1] = Blank
        /\ \A j \in 1 .. Len(p[k]) : whole[Len(G(k - 1)) + 1 + j] = p[k][j]
  <2> SUFFICES ASSUME NEW k \in 1 .. m
        PROVE /\ Len(G(k - 1)) \in Nat /\ Len(G(k)) = Len(G(k - 1)) + Len(p[k]) + 1
              /\ whole[Len(G(k - 1)) + 1] = Blank
              /\ \A j \in 1 .. Len(p[k]) : whole[Len(G(k - 1)) + 1 + j] = p[k][j]
    OBVIOUS
  <2> DEFINE a == G(k - 1)
  <2> DEFINE b == e[k]
  <2> DEFINE x == p[k]
  <2> DEFINE l == Len(a)
  <2> DEFINE q == Len(x)
  <2>11. a \in Seq(U) /\ b \in Seq(U) /\ G(k) \in Seq(U)
    BY <1>2, <1>6
  <2>1. a \in Seq(U) /\ b \in Seq(U) /\ G(k) \in Seq(U) /\ l \in Nat /\ q \in Nat
    BY <1>2, <2>11
  <2>2. Len(b) = q + 1 /\ b[1] = Blank /\ \A j \in 1 .. q : b[j + 1] = x[j]
    BY <1>2
  <2>3. PICK rest \in Seq(U) : whole = G(k) \o rest
    BY <1>6
  <2>4. G(k) = a \o b
    BY <1>6
  <2> DEFINE g == G(k)
  <2>5. g = a \o b /\ whole = g \o rest /\ g \in Seq(U)
    BY <2>1, <2>3, <2>4
  <2> HIDE DEF a, b, x, q, g
  <2>6. Len(g) = l + (q + 1) /\ \A i \in 1 .. l + (q + 1) : g[i] = IF i <= l THEN a[i] ELSE b[i - l]
    <3>1. /\ Len(a \o b) = Len(a) + Len(b)
          /\ \A i \in 1 .. Len(a) + Len(b) :
               (a \o b)[i] = IF i <= Len(a) THEN a[i] ELSE b[i - Len(a)]
      BY <2>1, ConcatProperties
    <3> QED
      BY <2>2, <2>5, <3>1
  <2>7. \A i \in 1 .. l + (q + 1) : whole[i] = g[i]
    <3>1. \A i \in 1 .. Len(g) + Len(rest) :
             (g \o rest)[i] = IF i <= Len(g) THEN g[i] ELSE rest[i - Len(g)]
      BY <2>5, ConcatProperties
    <3>2. Len(rest) \in Nat
      BY <2>3
    <3>3. \A i \in 1 .. l + (q + 1) : i \in 1 .. Len(g) + Len(rest) /\ i <= Len(g)
      BY <2>1, <2>6, <3>2
    <3> QED
      BY <2>5, <3>1, <3>3
  <2> HIDE DEF l
  <2>8. whole[l + 1] = Blank
    <3> DEFINE h == l + 1
    <3>1. h \in 1 .. l + (q + 1) /\ ~(h <= l) /\ h - l = 1
      BY <2>1
    <3> HIDE DEF h
    <3>2. whole[h] = b[h - l]
      BY <2>6, <2>7, <3>1
    <3> QED
      BY <2>2, <3>1, <3>2 DEF h
  <2>9. ASSUME NEW j \in 1 .. q PROVE whole[l + 1 + j] = x[j]
    <3> DEFINE h == l + 1 + j
    <3>1. h \in 1 .. l + (q + 1) /\ ~(h <= l) /\ h - l = j + 1
      BY <2>1
    <3> HIDE DEF h
    <3>2. whole[h] = b[h - l]
      BY <2>6, <2>7, <3>1
    <3> QED
      BY <2>2, <3>1, <3>2 DEF h
  <2>10. Len(g) = l + q + 1
    BY <2>1, <2>6
  <2> QED
    BY <2>1, <2>8, <2>9, <2>10 DEF l, q, x, a, g
<1>9. Len(G(m)) = Len(text) + 1
  BY <1>4, <1>5
<1>10. /\ DOMAIN s = 1 .. m + 1 /\ \A k \in 1 .. m + 1 : s[k] = Len(G(k - 1)) + 1
  OBVIOUS
<1>11. s \in [1 .. m + 1 -> Nat]
  <2>1. \A k \in 1 .. m + 1 : Len(G(k - 1)) \in Nat
    <3> SUFFICES ASSUME NEW k \in 1 .. m + 1 PROVE Len(G(k - 1)) \in Nat
      OBVIOUS
    <3>1. CASE k \in 1 .. m
      BY <1>8, <3>1
    <3>2. CASE k = m + 1
      <4>1. k - 1 = m
        BY <1>1, <3>2
      <4> QED
        BY <1>4, <1>9, <4>1
    <3> QED
      BY <1>1, <3>1, <3>2
  <2> QED
    BY <2>1
<1> HIDE DEF s
<1>12. s[1] = 1
  <2>1. 1 \in 1 .. m + 1 /\ 1 - 1 = 0
    BY <1>1
  <2>2. Len(G(0)) = 0
    BY <1>7
  <2>3. s[1] = Len(G(1 - 1)) + 1
    BY <1>10, <2>1
  <2> QED
    BY <2>1, <2>2, <2>3
<1>13. ASSUME NEW k \in 1 .. m
       PROVE /\ s[k + 1] = s[k] + Len(p[k]) + 1
             /\ \A j \in 1 .. Len(p[k]) : text[s[k] + j - 1] = p[k][j]
             /\ s[k] > 1 => text[s[k] - 1] = Blank
  <2> DEFINE l == Len(G(k - 1))
  <2> DEFINE q == Len(p[k])
  <2>1. k \in 1 .. m + 1 /\ k + 1 \in 1 .. m + 1 /\ k + 1 - 1 = k
    BY <1>1
  <2>2. s[k] = l + 1 /\ s[k + 1] = Len(G(k)) + 1
    <3>1. s[k + 1] = Len(G(k + 1 - 1)) + 1
      BY <1>10, <2>1
    <3> QED
      BY <1>10, <2>1, <3>1
  <2>3. /\ l \in Nat /\ Len(G(k)) = l + q + 1 /\ whole[l + 1] = Blank
        /\ \A j \in 1 .. q : whole[l + 1 + j] = p[k][j]
    BY <1>8
  <2>4. q \in Nat
    BY <1>2
  <2> HIDE DEF l, q
  <2>5. l + q + 1 <= Len(text) + 1
    <3>1. PICK rest \in Seq(U) : whole = G(k) \o rest
      BY <1>6
    <3>2. G(k) \in Seq(U)
      BY <1>6
    <3> DEFINE g == G(k)
    <3>3. g \in Seq(U) /\ rest \in Seq(U)
      BY <3>1, <3>2
    <3> HIDE DEF g
    <3>4. Len(g \o rest) = Len(g) + Len(rest) /\ Len(rest) \in Nat /\ Len(g) \in Nat
      BY <3>3, ConcatProperties
    <3>5. Len(whole) = Len(G(k)) + Len(rest)
      BY <3>1, <3>4 DEF g
    <3>6. Len(rest) \in Nat /\ Len(whole) = l + q + 1 + Len(rest)
      BY <2>3, <3>4, <3>5
    <3> QED
      BY <1>4, <2>3, <2>4, <3>6
  <2>6. ASSUME NEW j \in 1 .. q PROVE text[s[k] + j - 1] = p[k][j]
    <3>1. l + j \in 1 .. Len(text) /\ l + j + 1 = l + 1 + j /\ s[k] + j - 1 = l + j
      BY <1>4, <2>2, <2>3, <2>4, <2>5
    <3>2. whole[l + j + 1] = text[l + j]
      BY <1>4, <3>1
    <3> QED
      BY <2>3, <3>1, <3>2
  <2>7. ASSUME s[k] > 1 PROVE text[s[k] - 1] = Blank
    <3>1. l \in 1 .. Len(text) /\ s[k] - 1 = l
      BY <1>4, <2>2, <2>3, <2>4, <2>5, <2>7
    <3>2. whole[l + 1] = text[l]
      BY <1>4, <3>1
    <3> QED
      BY <2>3, <3>1, <3>2
  <2>8. s[k + 1] = s[k] + q + 1
    BY <2>2, <2>3, <2>4
  <2> QED
    BY <2>6, <2>7, <2>8 DEF q
<1>14. \A k \in 2 .. m : text[s[k] - 1] = Blank
  <2> SUFFICES ASSUME NEW k \in 2 .. m PROVE text[s[k] - 1] = Blank
    OBVIOUS
  <2>1. k \in 1 .. m /\ k - 1 \in 1 .. m /\ k - 1 + 1 = k /\ k - 1 \in 1 .. m + 1
    BY <1>1
  <2>2. s[k] = s[k - 1] + Len(p[k - 1]) + 1 /\ s[k - 1] \in Nat
    <3>1. s[k - 1 + 1] = s[k - 1] + Len(p[k - 1]) + 1
      BY <1>13, <2>1
    <3>2. s[k - 1] \in Nat
      BY <1>11, <2>1
    <3> QED
      BY <2>1, <3>1, <3>2
  <2>3. Len(p[k - 1]) \in Nat /\ s[k - 1] >= 1
    <3> DEFINE h == k - 1
    <3>1. h \in 1 .. m /\ h \in 1 .. m + 1
      BY <2>1
    <3> HIDE DEF h
    <3>2. Len(p[h]) \in Nat /\ s[h] = Len(G(h - 1)) + 1 /\ Len(G(h - 1)) \in Nat
      BY <1>2, <1>8, <1>10, <3>1
    <3>3. s[h] >= 1
      BY <3>2
    <3> QED
      BY <3>2, <3>3 DEF h
  <2>4. s[k] > 1
    BY <2>2, <2>3
  <2> QED
    BY <1>13, <2>1, <2>4
<1>15. Len(text) = s[m + 1] - 2
  <2>1. m + 1 \in 1 .. m + 1 /\ m + 1 - 1 = m
    BY <1>1
  <2>2. s[m + 1] = Len(G(m + 1 - 1)) + 1
    BY <1>10, <2>1
  <2> QED
    BY <1>4, <1>9, <2>1, <2>2
<1>16. Laid(text, p, s)
  BY <1>11, <1>12, <1>13, <1>14, <1>15 DEF Laid
<1> QED
  BY <1>16

\* Every place of the text is in a piece, or is the blank before one.
LEMMA InPiece ==
  ASSUME NEW U, NEW text \in Seq(U), NEW p \in Seq(Seq(U)), p # <<>>, NEW s, Laid(text, p, s),
         NEW i \in 1 .. Len(text)
  PROVE  \/ \E k \in 1 .. Len(p) : \E j \in 1 .. Len(p[k]) : i = s[k] + j - 1
         \/ \E k \in 2 .. Len(p) : i = s[k] - 1
<1> DEFINE m == Len(p)
<1> DEFINE T == {k \in 1 .. m : i < s[k + 1]}
<1>1. m \in Nat /\ m > 0 /\ \A k \in 1 .. m : Len(p[k]) \in Nat
  OBVIOUS
<1>2. /\ s \in [1 .. m + 1 -> Nat] /\ s[1] = 1 /\ Len(text) = s[m + 1] - 2
      /\ \A k \in 1 .. m : s[k + 1] = s[k] + Len(p[k]) + 1
  BY DEF Laid
<1> HIDE DEF m
<1>3. m \in T
  <2>1. m \in 1 .. m /\ m + 1 \in 1 .. m + 1
    BY <1>1
  <2>2. s[m + 1] \in Nat
    BY <1>2, <2>1
  <2> QED
    BY <1>2, <2>1, <2>2
<1>4. PICK k \in T : \A h \in T : k <= h
  <2>1. T \in SUBSET Nat /\ T # {}
    BY <1>3
  <2> HIDE DEF T
  <2> QED
    BY <2>1, LeastNumber
<1>5. k \in 1 .. m /\ i < s[k + 1] /\ s[k] \in Nat /\ s[k + 1] = s[k] + Len(p[k]) + 1
      /\ Len(p[k]) \in Nat
  BY <1>1, <1>2, <1>4
<1>9. i \in Nat /\ i > 0
  OBVIOUS
<1>6. s[k] <= i
  <2>1. CASE k = 1
    BY <1>2, <2>1
  <2>2. CASE k # 1
    <3>1. k - 1 \in 1 .. m /\ k - 1 + 1 = k /\ ~(k <= k - 1)
      BY <1>1, <1>5, <2>2
    <3>2. ~(k - 1 \in T)
      BY <1>4, <3>1
    <3>3. ~(i < s[k - 1 + 1])
      BY <3>1, <3>2
    <3> QED
      BY <1>5, <3>1, <3>3
  <2> QED
    BY <2>1, <2>2
<1>7. CASE i = s[k + 1] - 1
  <2>1. k # m
    <3> SUFFICES ASSUME k = m PROVE FALSE
      OBVIOUS
    <3>1. Len(text) = s[k + 1] - 2 /\ s[k + 1] \in Nat
      BY <1>2, <1>5
    <3> QED
      BY <1>7, <3>1
  <2>2. k + 1 \in 2 .. m
    BY <1>1, <1>5, <2>1
  <2> QED
    BY <1>7, <2>2 DEF m
<1>8. CASE i # s[k + 1] - 1
  <2> DEFINE a == s[k]
  <2> DEFINE q == Len(p[k])
  <2> DEFINE b == s[k + 1]
  <2> DEFINE j == i - a + 1
  <2>1. a \in Nat /\ q \in Nat /\ b = a + q + 1 /\ i < b /\ a <= i /\ i # b - 1
    BY <1>5, <1>6, <1>8
  <2> HIDE DEF a, q, b
  <2>2. j \in 1 .. q /\ i = a + j - 1
    BY <1>9, <2>1
  <2> QED
    BY <1>5, <2>2 DEF m, a, q
<1> QED
  BY <1>7, <1>8

\* The first of some positions from i on is one of the text, or behind it.
LEMMA FirstRange ==
  ASSUME NEW text, NEW n \in Nat, Len(text) = n, NEW positions \in SUBSET (1 .. n), NEW i \in Nat
  PROVE  /\ FirstOf(positions, i, text) \in 1 .. n + 1
         /\ FirstOf(positions, i, text) >= i \/ FirstOf(positions, i, text) = n + 1
<1> DEFINE first == FirstOf(positions, i, text)
<1>1. IsFirst(first, positions, i, n)
  BY FirstOfIs
<1> HIDE DEF first
<1>2. (first = n + 1 \/ first \in positions) /\ (first \in positions => first >= i)
  BY <1>1 DEF IsFirst
<1>3. first >= i \/ first = n + 1
  BY <1>2
<1>4. first \in 1 .. n + 1
  <2>1. first \in positions => first \in 1 .. n
    OBVIOUS
  <2>2. n + 1 \in 1 .. n + 1 /\ \A x \in 1 .. n : x \in 1 .. n + 1
    OBVIOUS
  <2> QED
    BY <1>2, <2>1, <2>2
<1> QED
  BY <1>3, <1>4 DEF first

\* The next word of a text begins here, if there is one.
After(text, i) == FirstOf(WhereNot(text, {Blank}), i, text)

\* Where a quote is closed, and where a word without quotes ends.
Closing(text, i) == FirstOf(Where(text, {Quote}), i + 1, text)

Ending(text, i) == FirstOf(Where(text, {Blank}), i, text)

\* What is read at i, and where stringsplit goes on.
WordAt(text, i) ==
    IF text[i] = Quote
    THEN IF Closing(text, i) > Len(text) THEN <<From(text, i)>>
         ELSE QuotedWord(SubSeq(text, i + 1, Closing(text, i) - 1))
    ELSE <<SubSeq(text, i, Ending(text, i) - 1)>>

WordBehind(text, i) ==
    IF text[i] = Quote
    THEN IF Closing(text, i) > Len(text) THEN Len(text) + 1 ELSE After(text, Closing(text, i) + 1)
    ELSE After(text, Ending(text, i) + 1)

\* stringsplit as a reader that jumps (tools.cpp:13-48).
LEMMA Splitting ==
  ASSUME NEW U, NEW text \in Seq(U), NEW n \in Nat, Len(text) = n
  PROVE  \E f : /\ Jumps(n, 1, n + 2, [i \in 1 .. n |-> WordAt(text, i)],
                         [i \in 1 .. n |-> WordBehind(text, i)], f)
                /\ stringsplit(text) = IF After(text, 1) > Len(text) /\ text # <<>> THEN <<<<>>>>
                                       ELSE f[After(text, 1)]
<1> DEFINE top == n + 2
<1> DEFINE out == [i \in 1 .. n |-> WordAt(text, i)]
<1> DEFINE nxt == [i \in 1 .. n |-> WordBehind(text, i)]
<1> DEFINE Body(f, i) ==
      IF i > Len(text) THEN <<>>
      ELSE IF text[i] = Quote
           THEN IF Closing(text, i) > Len(text) THEN <<From(text, i)>>
                ELSE QuotedWord(SubSeq(text, i + 1, Closing(text, i) - 1))
                       \o f[After(text, Closing(text, i) + 1)]
           ELSE <<SubSeq(text, i, Ending(text, i) - 1)>> \o f[After(text, Ending(text, i) + 1)]
<1> DEFINE Eq(f) == f = [i \in 1 .. Len(text) + 2 |-> Body(f, i)]
<1> DEFINE g == CHOOSE f : Eq(f)
<1>1. stringsplit(text) = IF After(text, 1) > Len(text) /\ text # <<>> THEN <<<<>>>>
                          ELSE g[After(text, 1)]
  BY DEF stringsplit, After, Closing, Ending
<1>2. Where(text, {Quote}) \in SUBSET (1 .. n) /\ Where(text, {Blank}) \in SUBSET (1 .. n)
      /\ WhereNot(text, {Blank}) \in SUBSET (1 .. n)
  BY DEF Where, WhereNot
<1>3. \A i \in Nat : After(text, i) \in 1 .. n + 1
      /\ (After(text, i) >= i \/ After(text, i) = n + 1)
  BY <1>2, FirstRange DEF After
<1>4. \A i \in 1 .. n : Closing(text, i) \in i + 1 .. n + 1
  <2> SUFFICES ASSUME NEW i \in 1 .. n PROVE Closing(text, i) \in i + 1 .. n + 1
    OBVIOUS
  <2> DEFINE h == i + 1
  <2>1. h \in Nat /\ h <= n + 1 /\ h > 0
    OBVIOUS
  <2> HIDE DEF h
  <2> DEFINE c == FirstOf(Where(text, {Quote}), h, text)
  <2>2. c \in 1 .. n + 1 /\ (c >= h \/ c = n + 1)
    BY <1>2, <2>1, FirstRange
  <2> HIDE DEF c
  <2>3. c \in h .. n + 1
    BY <2>1, <2>2
  <2> QED
    BY <2>3 DEF c, h, Closing
<1>5. \A i \in 1 .. n : Ending(text, i) \in i .. n + 1
  <2> SUFFICES ASSUME NEW i \in 1 .. n PROVE Ending(text, i) \in i .. n + 1
    OBVIOUS
  <2> DEFINE c == FirstOf(Where(text, {Blank}), i, text)
  <2>1. i \in Nat
    OBVIOUS
  <2>2. c \in 1 .. n + 1 /\ (c >= i \/ c = n + 1)
    BY <1>2, <2>1, FirstRange
  <2> HIDE DEF c
  <2>3. c \in i .. n + 1
    BY <2>2
  <2> QED
    BY <2>3 DEF c, Ending
<1>6. \A i \in 1 .. n : WordBehind(text, i) \in 1 .. n + 1 /\ WordBehind(text, i) > i
  <2> SUFFICES ASSUME NEW i \in 1 .. n
               PROVE  WordBehind(text, i) \in 1 .. n + 1 /\ WordBehind(text, i) > i
    OBVIOUS
  <2>1. \A e \in i .. n + 1 : After(text, e + 1) \in 1 .. n + 1 /\ After(text, e + 1) > i
    <3> SUFFICES ASSUME NEW e \in i .. n + 1
                 PROVE  After(text, e + 1) \in 1 .. n + 1 /\ After(text, e + 1) > i
      OBVIOUS
    <3> DEFINE h == e + 1
    <3>1. h \in Nat /\ h > i
      OBVIOUS
    <3> HIDE DEF h
    <3>2. After(text, h) \in 1 .. n + 1 /\ (After(text, h) >= h \/ After(text, h) = n + 1)
      BY <1>3, <3>1
    <3>3. After(text, h) \in 1 .. n + 1 /\ After(text, h) > i
      BY <3>1, <3>2
    <3> QED
      BY <3>3 DEF h
  <2>2. Closing(text, i) \in i .. n + 1 /\ Ending(text, i) \in i .. n + 1
    <3>1. \A x \in i + 1 .. n + 1 : x \in i .. n + 1
      OBVIOUS
    <3> QED
      BY <1>4, <1>5, <3>1
  <2>3. Len(text) + 1 \in 1 .. n + 1 /\ Len(text) + 1 > i
    OBVIOUS
  <2> QED
    BY <2>1, <2>2, <2>3 DEF WordBehind
<1>7. \A i \in 1 .. n : WordAt(text, i) \in Seq(Seq(U))
  <2> SUFFICES ASSUME NEW i \in 1 .. n PROVE WordAt(text, i) \in Seq(Seq(U))
    OBVIOUS
  <2>1. \A a, b \in Int : a >= 1 /\ b <= n => SubSeq(text, a, b) \in Seq(U)
    OBVIOUS
  <2>2. From(text, i) \in Seq(U)
    BY <2>1 DEF From
  <2>3. SubSeq(text, i + 1, Closing(text, i) - 1) \in Seq(U)
    <3>1. i + 1 \in Int /\ i + 1 >= 1 /\ Closing(text, i) - 1 \in Int /\ Closing(text, i) - 1 <= n
      <4>1. Closing(text, i) \in i + 1 .. n + 1
        BY <1>4
      <4> QED
        BY <4>1
    <3> QED
      BY <2>1, <3>1
  <2>4. SubSeq(text, i, Ending(text, i) - 1) \in Seq(U)
    <3>1. i \in Int /\ i >= 1 /\ Ending(text, i) - 1 \in Int /\ Ending(text, i) - 1 <= n
      <4>1. Ending(text, i) \in i .. n + 1
        BY <1>5
      <4> QED
        BY <4>1
    <3> QED
      BY <2>1, <3>1
  <2> DEFINE X == Seq(U)
  <2>5. \A x \in X : <<x>> \in Seq(X) /\ QuotedWord(x) \in Seq(X)
    <3> HIDE DEF X
    <3> QED
      BY DEF QuotedWord
  <2> QED
    BY <2>2, <2>3, <2>4, <2>5 DEF WordAt
<1>8. \E f : Eq(f)
  <2> DEFINE X == Seq(U)
  <2>1. out \in [1 .. n -> Seq(X)] /\ nxt \in [1 .. n -> 1 .. n + 1] /\ \A i \in 1 .. n : nxt[i] > i
    BY <1>6, <1>7
  <2>2. top \in Nat /\ top > n
    OBVIOUS
  <2> HIDE DEF out, nxt, top, X
  <2>3. PICK f \in [1 .. top -> Seq(X)] : Jumps(n, 1, top, out, nxt, f)
    BY <2>1, <2>2, JumpsRun
  <2>4. \A i \in 1 .. top : f[i] = IF i > n THEN <<>> ELSE out[i] \o f[nxt[i]]
    BY <2>3 DEF Jumps
  <2>5. f[n + 1] = <<>>
    <3>1. n + 1 \in 1 .. top /\ n + 1 > n
      BY <2>2
    <3> QED
      BY <2>4, <3>1
  <2>6. ASSUME NEW i \in 1 .. top PROVE f[i] = Body(f, i)
    <3>1. CASE i > n
      BY <2>4, <3>1
    <3>2. CASE ~(i > n)
      <4>1. i \in 1 .. n
        BY <3>2
      <4>2. f[i] = WordAt(text, i) \o f[WordBehind(text, i)]
        BY <2>4, <3>2, <4>1 DEF out, nxt
      <4>3. CASE text[i] = Quote /\ Closing(text, i) > Len(text)
        <5>1. WordAt(text, i) = <<From(text, i)>> /\ WordBehind(text, i) = n + 1
          BY <4>3 DEF WordAt, WordBehind
        <5>2. WordAt(text, i) \in Seq(Seq(U))
          BY <1>7, <4>1
        <5>3. WordAt(text, i) \o <<>> = WordAt(text, i)
          BY <5>2
        <5>4. f[i] = <<From(text, i)>>
          BY <2>5, <4>2, <5>1, <5>3
        <5> QED
          BY <3>2, <4>3, <5>4
      <4>4. CASE ~(text[i] = Quote /\ Closing(text, i) > Len(text))
        BY <3>2, <4>2, <4>4 DEF WordAt, WordBehind
      <4> QED
        BY <4>3, <4>4
    <3> QED
      BY <3>1, <3>2
  <2>7. f = [i \in 1 .. top |-> Body(f, i)]
    <3>1. f = [i \in 1 .. top |-> f[i]]
      BY <2>3
    <3> HIDE DEF Body
    <3> QED
      BY <2>6, <3>1
  <2> QED
    BY <2>7 DEF top
<1>9. Eq(g)
  BY <1>8
<1> HIDE DEF g
<1>10. \A i \in 1 .. top : g[i] = Body(g, i)
  <2> HIDE DEF Body
  <2> QED
    BY <1>9
<1>11. g[n + 1] = <<>>
  <2>1. n + 1 \in 1 .. top /\ n + 1 > Len(text)
    OBVIOUS
  <2> QED
    BY <1>10, <2>1
<1>12. ASSUME NEW i \in 1 .. top PROVE g[i] = IF i > n THEN <<>> ELSE out[i] \o g[nxt[i]]
  <2>1. CASE i > n
    BY <1>10, <2>1
  <2>2. CASE ~(i > n)
    <3>1. i \in 1 .. n
      BY <2>2
    <3>2. g[i] = WordAt(text, i) \o g[WordBehind(text, i)]
      <4>1. CASE text[i] = Quote /\ Closing(text, i) > Len(text)
        <5>1. WordAt(text, i) = <<From(text, i)>> /\ WordBehind(text, i) = n + 1
          BY <4>1 DEF WordAt, WordBehind
        <5>2. WordAt(text, i) \in Seq(Seq(U))
          BY <1>7, <3>1
        <5>3. WordAt(text, i) \o <<>> = WordAt(text, i)
          BY <5>2
        <5>4. g[i] = <<From(text, i)>>
          BY <1>10, <2>2, <4>1
        <5> QED
          BY <1>11, <5>1, <5>3, <5>4
      <4>2. CASE ~(text[i] = Quote /\ Closing(text, i) > Len(text))
        BY <1>10, <2>2, <4>2 DEF WordAt, WordBehind
      <4> QED
        BY <4>1, <4>2
    <3> QED
      BY <2>2, <3>1, <3>2
  <2> QED
    BY <2>1, <2>2
<1>13. Jumps(n, 1, top, out, nxt, g)
  <2> HIDE DEF out, nxt, top, Body
  <2> QED
    BY <1>12 DEF Jumps
<1> QED
  BY <1>1, <1>13

\* Where the pieces begin and end.
LEMMA LaidBounds ==
  ASSUME NEW U, NEW text \in Seq(U), NEW p \in Seq(Seq(U)), p # <<>>, NEW s, Laid(text, p, s),
         \A k \in 1 .. Len(p) : p[k] # <<>>
  PROVE  /\ s \in [1 .. Len(p) + 1 -> Nat] /\ s[1] = 1
         /\ \A k \in 1 .. Len(p) :
              /\ Len(p[k]) \in Nat /\ Len(p[k]) > 0
              /\ s[k] \in 1 .. Len(text) /\ s[k + 1] \in Nat /\ s[k + 1] = s[k] + Len(p[k]) + 1
              /\ k < Len(p) => s[k + 1] <= Len(text) /\ text[s[k + 1] - 1] = Blank
              /\ k = Len(p) => s[k + 1] = Len(text) + 2
<1> DEFINE n == Len(text)
<1> DEFINE m == Len(p)
<1>0. n \in Nat
  OBVIOUS
<1>1. m \in Nat /\ m > 0 /\ \A k \in 1 .. m : Len(p[k]) \in Nat /\ Len(p[k]) > 0
  <2>1. \A x \in Seq(U) : x # <<>> => Len(x) \in Nat /\ Len(x) > 0
    OBVIOUS
  <2>2. \A k \in 1 .. m : p[k] \in Seq(U)
    OBVIOUS
  <2> QED
    BY <2>1, <2>2
<1>2. /\ s \in [1 .. m + 1 -> Nat] /\ s[1] = 1 /\ n = s[m + 1] - 2
      /\ \A k \in 1 .. m : s[k + 1] = s[k] + Len(p[k]) + 1
      /\ \A k \in 2 .. m : text[s[k] - 1] = Blank
  BY DEF Laid
<1> HIDE DEF m, n
<1>3. \A k \in 1 .. m + 1 : s[k] \in Nat
  BY <1>2
<1> DEFINE S == {h \in 0 .. m : s[m + 1 - h] + 2 * h <= s[m + 1]}
<1>4. 0 \in S
  <2>1. m + 1 - 0 = m + 1 /\ m + 1 \in 1 .. m + 1 /\ 0 \in 0 .. m
    BY <1>1
  <2>2. s[m + 1] \in Nat
    BY <1>3, <2>1
  <2>3. s[m + 1] + 2 * 0 <= s[m + 1]
    BY <2>2
  <2> QED
    BY <2>1, <2>3
<1>5. ASSUME NEW h \in 0 .. m, h < m, h \in S PROVE h + 1 \in S
  <2> DEFINE k == m + 1 - (h + 1)
  <2>1. k \in 1 .. m /\ k + 1 = m + 1 - h /\ k \in 1 .. m + 1 /\ k + 1 \in 1 .. m + 1
        /\ h + 1 \in 0 .. m
    BY <1>1, <1>5
  <2> HIDE DEF k
  <2>2. s[k] \in Nat /\ s[k + 1] \in Nat /\ s[k + 1] = s[k] + Len(p[k]) + 1 /\ s[m + 1] \in Nat
    <3>1. m + 1 \in 1 .. m + 1
      BY <1>1
    <3> QED
      BY <1>2, <1>3, <2>1, <3>1
  <2>3. Len(p[k]) \in Nat /\ Len(p[k]) > 0
    BY <1>1, <2>1
  <2>4. s[k + 1] + 2 * h <= s[m + 1]
    BY <1>5, <2>1
  <2>5. s[k] + 2 * (h + 1) <= s[m + 1]
    BY <2>2, <2>3, <2>4
  <2> QED
    BY <2>1, <2>5 DEF k
<1> HIDE DEF S
<1>6. 0 .. m \subseteq S
  BY <1>1, <1>4, <1>5, UpTo
<1>7. ASSUME NEW k \in 1 .. m PROVE s[k] \in 1 .. n
  <2> DEFINE h == m + 1 - k
  <2>1. h \in 0 .. m /\ h >= 1 /\ m + 1 - h = k
    BY <1>1
  <2> HIDE DEF h
  <2>2. h \in S
    BY <1>6, <2>1
  <2>3. s[m + 1 - h] + 2 * h <= s[m + 1]
    BY <2>2 DEF S
  <2>4. s[k] \in Nat /\ s[m + 1] \in Nat
    <3>1. k \in 1 .. m + 1 /\ m + 1 \in 1 .. m + 1
      BY <1>1
    <3> QED
      BY <1>3, <3>1
  <2>5. s[k] <= n
    BY <1>2, <2>1, <2>3, <2>4
  <2>6. s[k] >= 1
    <3>1. CASE k = 1
      BY <1>2, <3>1
    <3>2. CASE k # 1
      <4> DEFINE j == k - 1
      <4>1. j \in 1 .. m /\ j + 1 = k /\ j \in 1 .. m + 1
        BY <1>1, <3>2
      <4> HIDE DEF j
      <4>2. s[j + 1] = s[j] + Len(p[j]) + 1 /\ s[j] \in Nat /\ Len(p[j]) \in Nat
        BY <1>1, <1>2, <1>3, <4>1
      <4>3. s[j + 1] >= 1
        BY <4>2
      <4> QED
        BY <4>1, <4>3
    <3> QED
      BY <3>1, <3>2
  <2> QED
    BY <2>4, <2>5, <2>6
<1>8. ASSUME NEW k \in 1 .. m
      PROVE  /\ Len(p[k]) \in Nat /\ Len(p[k]) > 0
             /\ s[k] \in 1 .. n /\ s[k + 1] \in Nat /\ s[k + 1] = s[k] + Len(p[k]) + 1
             /\ k < m => s[k + 1] <= n /\ text[s[k + 1] - 1] = Blank
             /\ k = m => s[k + 1] = n + 2
  <2>1. k + 1 \in 1 .. m + 1
    BY <1>1
  <2>2. s[k + 1] \in Nat
    BY <1>3, <2>1
  <2>3. ASSUME k < m PROVE s[k + 1] <= n /\ text[s[k + 1] - 1] = Blank
    <3>1. k + 1 \in 1 .. m /\ k + 1 \in 2 .. m
      BY <1>1, <2>3
    <3>2. s[k + 1] \in 1 .. n
      BY <1>7, <3>1
    <3> QED
      BY <1>2, <3>1, <3>2
  <2>4. ASSUME k = m PROVE s[k + 1] = n + 2
    BY <1>2, <2>2, <2>4
  <2> QED
    BY <1>1, <1>2, <1>7, <2>2, <2>3, <2>4
<1> QED
  BY <1>2, <1>8 DEF m, n

\* The first of some positions from i on.
LEMMA FirstIs ==
  ASSUME NEW text, NEW n \in Nat, Len(text) = n, NEW positions \in SUBSET (1 .. n), NEW i \in Nat
  PROVE  /\ \A j \in positions : j >= i /\ (\A x \in positions : x >= i => j <= x)
              => FirstOf(positions, i, text) = j
         /\ (\A x \in positions : x < i) => FirstOf(positions, i, text) = n + 1
<1> DEFINE first == FirstOf(positions, i, text)
<1>1. IsFirst(first, positions, i, n)
  BY FirstOfIs
<1> HIDE DEF first
<1>2. /\ first = n + 1 \/ first \in positions
      /\ first \in positions => first >= i
      /\ \A j \in positions : j >= i => first <= j
      /\ first = n + 1 => \A j \in positions : ~(j >= i)
  BY <1>1 DEF IsFirst
<1>3. \A x \in positions : x \in 1 .. n
  OBVIOUS
<1>4. ASSUME NEW j \in positions, j >= i, \A x \in positions : x >= i => j <= x PROVE first = j
  <2>1. first # n + 1
    BY <1>2, <1>4
  <2>2. first \in positions /\ first >= i /\ first <= j
    BY <1>2, <1>4, <2>1
  <2>3. j <= first
    BY <1>4, <2>2
  <2>4. first \in Nat /\ j \in Nat
    BY <1>3, <1>4, <2>2
  <2> QED
    BY <2>2, <2>3, <2>4
<1>5. ASSUME \A x \in positions : x < i PROVE first = n + 1
  <2>1. \A x \in positions : ~(x >= i)
    BY <1>3, <1>5
  <2> QED
    BY <1>2, <2>1
<1> QED
  BY <1>4, <1>5 DEF first

\* Where the next word begins.
LEMMA AfterIs ==
  ASSUME NEW text, NEW n \in Nat, Len(text) = n, DOMAIN text = 1 .. n, NEW i \in Nat
  PROVE  /\ i > n => After(text, i) = n + 1
         /\ i \in 1 .. n /\ text[i] # Blank => After(text, i) = i
         /\ i \in 1 .. n /\ i + 1 \in 1 .. n /\ text[i] = Blank /\ text[i + 1] # Blank
              => After(text, i) = i + 1
<1> DEFINE P == WhereNot(text, {Blank})
<1>1. P \in SUBSET (1 .. n) /\ \A x : x \in P <=> x \in 1 .. n /\ text[x] # Blank
  BY DEF WhereNot, Where
<1> HIDE DEF P
<1>2. /\ \A j \in P : j >= i /\ (\A x \in P : x >= i => j <= x) => FirstOf(P, i, text) = j
      /\ (\A x \in P : x < i) => FirstOf(P, i, text) = n + 1
  BY <1>1, FirstIs
<1>3. After(text, i) = FirstOf(P, i, text)
  BY DEF After, P
<1>4. ASSUME i > n PROVE After(text, i) = n + 1
  <2>1. \A x \in P : x < i
    BY <1>1, <1>4
  <2> QED
    BY <1>2, <1>3, <2>1
<1>5. ASSUME i \in 1 .. n, text[i] # Blank PROVE After(text, i) = i
  <2>1. i \in P /\ i >= i /\ \A x \in P : x >= i => i <= x
    BY <1>1, <1>5
  <2> QED
    BY <1>2, <1>3, <2>1
<1>6. ASSUME i \in 1 .. n, i + 1 \in 1 .. n, text[i] = Blank, text[i + 1] # Blank
      PROVE  After(text, i) = i + 1
  <2> DEFINE j == i + 1
  <2>1. j \in P
    BY <1>1, <1>6
  <2>2. j >= i
    OBVIOUS
  <2>3. \A x \in P : x >= i => j <= x
    <3>1. \A x \in P : x \in 1 .. n /\ x # i
      BY <1>1, <1>6
    <3> QED
      BY <3>1
  <2> HIDE DEF j
  <2>4. FirstOf(P, i, text) = j
    BY <1>2, <2>1, <2>2, <2>3
  <2> QED
    BY <1>3, <2>4 DEF j
<1> QED
  BY <1>4, <1>5, <1>6

-----------------------------------------------------------------------------
(* Words that are written down are read again, and so are lines.            *)

\* A word as it stands in a line: as it is, or in quotes.
Bare(x) == x # <<>> /\ x[1] # Quote /\ \A i \in 1 .. Len(x) : x[i] # Blank

Quotes(x, word) ==
    /\ Len(x) = Len(word) + 2 /\ x[1] = Quote /\ x[Len(x)] = Quote
    /\ \A i \in 1 .. Len(word) : x[i + 1] = word[i] /\ word[i] # Quote
    /\ ~(Len(word) = 1 /\ word[1] \in Characters)

Spells(x, word) == (Bare(x) /\ word = x) \/ Quotes(x, word)

\* A word that is written down does not begin with a blank.
LEMMA SpelledBegins ==
  ASSUME NEW U, NEW x \in Seq(U), NEW word \in Seq(U), Spells(x, word)
  PROVE  x # <<>> /\ x[1] # Blank
<1>1. CASE Bare(x)
  <2>1. 1 \in 1 .. Len(x)
    BY <1>1 DEF Bare
  <2> QED
    BY <1>1, <2>1 DEF Bare
<1>2. CASE Quotes(x, word)
  <2>1. Len(x) = Len(word) + 2 /\ x[1] = Quote /\ Len(word) \in Nat
    BY <1>2 DEF Quotes
  <2>2. x # <<>>
    BY <2>1
  <2> QED
    BY <2>1, <2>2 DEF Quote, Blank
<1> QED
  BY <1>1, <1>2 DEF Spells

\* This piece is in the text at i, and next is where the piece behind it begins.
PieceAt(text, n, x, i, next) ==
    /\ Len(text) = n /\ next = i + Len(x) + 1
    /\ next <= n \/ next = n + 2
    /\ next <= n => text[next - 1] = Blank /\ text[next] # Blank
    /\ \A j \in 1 .. Len(x) : text[i + j - 1] = x[j]

\* What is read where a piece begins.
LEMMA PieceIsRead ==
  ASSUME NEW U, NEW text \in Seq(U), NEW n \in Nat, NEW x \in Seq(U), NEW word \in Seq(U),
         Spells(x, word), NEW i \in 1 .. n, NEW next \in Nat, PieceAt(text, n, x, i, next)
  PROVE  /\ WordAt(text, i) = <<word>>
         /\ WordBehind(text, i) = IF next <= n THEN next ELSE n + 1
<1>0. /\ Len(text) = n /\ next = i + Len(x) + 1
      /\ next <= n \/ next = n + 2
      /\ next <= n => text[next - 1] = Blank /\ text[next] # Blank
      /\ \A j \in 1 .. Len(x) : text[i + j - 1] = x[j]
  BY DEF PieceAt
<1>9. next \in Nat /\ n \in Nat /\ (next <= n \/ next = n + 2)
  BY <1>0
<1> USE <1>0
<1> DEFINE q == Len(x)
<1>1. /\ q \in Nat /\ q > 0 /\ x # <<>> /\ x[1] # Blank
      /\ DOMAIN text = 1 .. n /\ next = i + q + 1
  <2>1. x # <<>> /\ x[1] # Blank
    BY SpelledBegins
  <2>2. Len(x) \in Nat /\ Len(x) > 0
    BY <2>1
  <2> QED
    BY <2>1, <2>2
<1>2. i + q - 1 <= n /\ (next <= n => next \in 1 .. n /\ next - 1 \in 1 .. n) /\ i \in Nat /\ i >= 1
  BY <1>1
<1> HIDE DEF q
<1>3. text[i] = x[1]
  <2>1. 1 \in 1 .. Len(x) /\ i + 1 - 1 = i
    BY <1>1 DEF q
  <2>2. text[i + 1 - 1] = x[1]
    BY <2>1
  <2> QED
    BY <2>1, <2>2
<1>4. After(text, next) = IF next <= n THEN next ELSE n + 1
  BY <1>1, <1>2, AfterIs
<1>5. After(text, next - 1) = IF next <= n THEN next ELSE n + 1
  <2> DEFINE h == next - 1
  <2>1. h \in Nat /\ h + 1 = next
    BY <1>1, <1>2
  <2> HIDE DEF h
  <2>2. CASE next <= n
    <3>1. h \in 1 .. n /\ h + 1 \in 1 .. n /\ text[h] = Blank /\ text[h + 1] # Blank
      <4>1. text[next - 1] = Blank
        BY <2>2
      <4> QED
        BY <1>2, <2>1, <2>2, <4>1 DEF h
    <3>2. After(text, h) = h + 1
      BY <1>1, <2>1, <3>1, AfterIs
    <3> QED
      BY <2>1, <2>2, <3>2 DEF h
  <2>3. CASE ~(next <= n)
    <3>1. h > n
      BY <2>1, <2>3
    <3>2. After(text, h) = n + 1
      BY <1>1, <2>1, <3>1, AfterIs
    <3> QED
      BY <2>3, <3>2 DEF h
  <2> QED
    BY <2>2, <2>3
<1>6. CASE Bare(x) /\ word = x
  <2>1. text[i] # Quote /\ \A j \in 1 .. q : x[j] # Blank
    BY <1>3, <1>6 DEF Bare, q
  <2> DEFINE P == Where(text, {Blank})
  <2>2. P \in SUBSET (1 .. n) /\ \A y : y \in P <=> y \in 1 .. n /\ text[y] = Blank
    BY <1>1 DEF Where
  <2> HIDE DEF P
  <2>3. \A y \in P : y >= i => y >= i + q
    <3> SUFFICES ASSUME NEW y \in P, y >= i, ~(y >= i + q) PROVE FALSE
      BY <2>2
    <3> DEFINE j == y - i + 1
    <3>3. y \in Nat /\ q \in Nat /\ i \in Nat /\ y >= i /\ ~(y >= i + q)
      BY <1>1, <1>2, <2>2
    <3>1. j \in 1 .. q /\ i + j - 1 = y
      BY <3>3
    <3> HIDE DEF j
    <3>2. text[i + j - 1] = x[j] /\ x[j] # Blank
      BY <2>1, <3>1 DEF q
    <3> QED
      BY <2>2, <3>1, <3>2
  <2>11. /\ \A j \in P : j >= i /\ (\A y \in P : y >= i => j <= y) => FirstOf(P, i, text) = j
         /\ (\A y \in P : y < i) => FirstOf(P, i, text) = n + 1
    <3>1. P \in SUBSET (1 .. n) /\ i \in Nat
      BY <1>2, <2>2
    <3> QED
      BY <3>1, FirstIs
  <2>4. FirstOf(P, i, text) = next - 1
    <3> DEFINE h == next - 1
    <3>1. h = i + q
      BY <1>1, <1>2
    <3>2. CASE next <= n
      <4>1. h \in P
        BY <1>2, <2>2, <3>2
      <4>2. h >= i
        BY <1>1, <1>2, <3>1
      <4> HIDE DEF h
      <4>3. \A y \in P : y >= i => h <= y
        BY <1>1, <1>2, <2>2, <2>3, <3>1
      <4>4. FirstOf(P, i, text) = h
        BY <2>11, <4>1, <4>2, <4>3
      <4> QED
        BY <4>4 DEF h
    <3>3. CASE ~(next <= n)
      <4>1. h = n + 1
        BY ONLY <1>9, <3>3
      <4>2. \A y \in P : y < i
        <5> SUFFICES ASSUME NEW y \in P, ~(y < i) PROVE FALSE
          OBVIOUS
        <5>1. y \in 1 .. n
          BY <2>2
        <5>2. y >= i + q
          BY <1>2, <2>3, <5>1
        <5> QED
          BY <1>1, <1>2, <3>1, <4>1, <5>1, <5>2
      <4>3. FirstOf(P, i, text) = n + 1
        BY <2>11, <4>2
      <4> QED
        BY <4>1, <4>3
    <3> QED
      BY <3>2, <3>3
  <2>5. Ending(text, i) = next - 1
    BY <2>4 DEF Ending, P
  <2>6. SubSeq(text, i, next - 1 - 1) = x
    <3> DEFINE b == i + q - 1
    <3> DEFINE k == i - 1
    <3>1. next - 1 - 1 = b /\ 1 + k = i /\ q + k = b /\ k \in Int /\ 1 <= 1 + k /\ b <= n
          /\ k \in Nat
      BY <1>1, <1>2
    <3>2. \A j \in 1 .. q : x[j] = text[j + k]
      <4> SUFFICES ASSUME NEW j \in 1 .. q PROVE x[j] = text[j + k]
        OBVIOUS
      <4>1. j + k = i + j - 1 /\ j \in 1 .. Len(x)
        BY <1>1, <1>2 DEF q
      <4> QED
        BY <4>1
    <3> HIDE DEF k, b
    <3> DEFINE one == 1
    <3>3. one \in Nat /\ q \in Nat /\ 1 <= one /\ q <= Len(x) /\ 1 <= one + k /\ q + k <= Len(text)
      BY <1>1, <3>1 DEF q
    <3>4. \A j \in one .. q : x[j] = text[j + k]
      BY <3>2
    <3> HIDE DEF one
    <3>5. SubSeq(x, one, q) = SubSeq(text, one + k, q + k)
      BY <3>1, <3>3, <3>4, SamePart
    <3>6. SubSeq(x, 1, q) = x
      BY WholePart DEF q
    <3> QED
      BY <3>1, <3>5, <3>6 DEF one
  <2>7. WordAt(text, i) = <<x>>
    BY <2>1, <2>5, <2>6 DEF WordAt
  <2>8. WordBehind(text, i) = After(text, next - 1 + 1)
    BY <2>1, <2>5 DEF WordBehind
  <2>9. next - 1 + 1 = next
    OBVIOUS
  <2> QED
    BY <1>4, <1>6, <2>7, <2>8, <2>9
<1>7. CASE Quotes(x, word)
  <2> DEFINE r == Len(word)
  <2>1. /\ q = r + 2 /\ x[1] = Quote /\ x[q] = Quote /\ r \in Nat
        /\ \A j \in 1 .. r : x[j + 1] = word[j] /\ word[j] # Quote
        /\ ~(Len(word) = 1 /\ word[1] \in Characters)
    BY <1>7 DEF Quotes, q
  <2>2. text[i] = Quote
    BY <1>3, <2>1
  <2> HIDE DEF r
  <2> DEFINE P == Where(text, {Quote})
  <2>3. P \in SUBSET (1 .. n) /\ \A y : y \in P <=> y \in 1 .. n /\ text[y] = Quote
    BY <1>1 DEF Where
  <2> HIDE DEF P
  <2> DEFINE c == next - 2
  <2>16. q = r + 2 /\ r \in Nat /\ next = i + q + 1 /\ i + q - 1 <= n /\ i \in Nat /\ i >= 1
    BY <1>1, <1>2, <2>1
  <2>4. c \in 1 .. n /\ c = i + q - 1 /\ c = i + 1 + r /\ c >= i + 1
    BY ONLY <1>9, <2>16
  <2>5. c \in P
    <3>1. q \in 1 .. Len(x)
      BY <1>1 DEF q
    <3>2. text[i + q - 1] = x[q]
      BY <3>1
    <3> QED
      BY <2>1, <2>3, <2>4, <3>2
  <2> HIDE DEF c
  <2>6. \A j \in 1 .. r : text[i + j] = word[j]
    <3> SUFFICES ASSUME NEW j \in 1 .. r PROVE text[i + j] = word[j]
      OBVIOUS
    <3> DEFINE h == j + 1
    <3>1. h \in 1 .. Len(x) /\ i + h - 1 = i + j
      BY <1>2, <2>1 DEF q
    <3> HIDE DEF h
    <3>2. text[i + h - 1] = x[h]
      BY <3>1
    <3> QED
      BY <2>1, <3>1, <3>2 DEF h
  <2>7. \A y \in P : y >= i + 1 => c <= y
    <3> SUFFICES ASSUME NEW y \in P, y >= i + 1, ~(c <= y) PROVE FALSE
      OBVIOUS
    <3> DEFINE j == y - i
    <3>1. j \in 1 .. r /\ i + j = y
      BY <1>2, <2>1, <2>3, <2>4
    <3> HIDE DEF j
    <3>2. text[i + j] = word[j] /\ word[j] # Quote
      BY <2>1, <2>6, <3>1
    <3> QED
      BY <2>3, <3>1, <3>2
  <2>8. FirstOf(P, i + 1, text) = c
    <3> DEFINE h == i + 1
    <3>1. h \in Nat /\ c >= h /\ \A y \in P : y >= h => c <= y
      BY <1>2, <2>4, <2>7
    <3> HIDE DEF h
    <3>3. P \in SUBSET (1 .. n) /\ h \in Nat
      BY <2>3, <3>1
    <3>4. \A j \in P : j >= h /\ (\A y \in P : y >= h => j <= y) => FirstOf(P, h, text) = j
      BY <3>3, FirstIs
    <3>2. FirstOf(P, h, text) = c
      BY <2>5, <3>1, <3>4
    <3> QED
      BY <3>2 DEF h
  <2>9. Closing(text, i) = c
    BY <2>8 DEF Closing, P
  <2>10. SubSeq(text, i + 1, c - 1) = word
    <3> DEFINE one == 1
    <3>1. /\ one \in Nat /\ r \in Nat /\ 1 <= one /\ r <= Len(word) /\ 1 <= one + i
               /\ r + i <= Len(text)
          /\ i \in Int
      BY <1>2, <2>1, <2>4 DEF r
    <3>5. one + i = i + 1 /\ r + i = c - 1
      BY <1>2, <2>1, <2>4
    <3>2. \A j \in one .. r : word[j] = text[j + i]
      <4> SUFFICES ASSUME NEW j \in one .. r PROVE word[j] = text[j + i]
        OBVIOUS
      <4>1. j \in 1 .. r /\ j + i = i + j
        BY <1>2, <2>1
      <4> QED
        BY <2>6, <4>1
    <3> HIDE DEF one
    <3> DEFINE k == i
    <3>6. k \in Int /\ 1 <= one + k /\ r + k <= Len(text)
          /\ \A j \in one .. r : word[j] = text[j + k]
      BY <3>1, <3>2
    <3> HIDE DEF k
    <3>7. SubSeq(word, one, r) = SubSeq(text, one + k, r + k)
      BY <3>1, <3>6, SamePart
    <3>3. SubSeq(word, one, r) = SubSeq(text, one + i, r + i)
      BY <3>7 DEF k
    <3>4. SubSeq(word, 1, r) = word
      BY WholePart DEF r
    <3> QED
      BY <3>3, <3>4, <3>5 DEF one
  <2>11. ~(c > Len(text))
    BY <2>4
  <2>12. QuotedWord(word) = <<word>>
    BY <2>1 DEF QuotedWord
  <2>13. WordAt(text, i) = <<word>>
    BY <2>2, <2>9, <2>10, <2>11, <2>12 DEF WordAt
  <2>14. WordBehind(text, i) = After(text, c + 1)
    BY <2>2, <2>9, <2>11 DEF WordBehind
  <2>15. c + 1 = next - 1
    BY <1>2 DEF c
  <2> QED
    BY <1>5, <2>13, <2>14, <2>15
<1> QED
  BY <1>6, <1>7 DEF Spells

\* Words that are written down with blanks between them are read again.
LEMMA WordsAreRead ==
  ASSUME NEW U, NEW text \in Seq(U), NEW p \in Seq(Seq(U)), p # <<>>, NEW s, Laid(text, p, s),
         NEW w \in Seq(Seq(U)), Len(w) = Len(p), \A k \in 1 .. Len(p) : Spells(p[k], w[k])
  PROVE  stringsplit(text) = w
<1> DEFINE n == Len(text)
<1> DEFINE m == Len(p)
<1>1. n \in Nat /\ m \in Nat \ {0} /\ \A k \in 1 .. m : p[k] \in Seq(U) /\ w[k] \in Seq(U)
  OBVIOUS
<1>2. \A k \in 1 .. m : p[k] # <<>> /\ p[k][1] # Blank
  BY <1>1, SpelledBegins
<1>3. /\ s \in [1 .. m + 1 -> Nat] /\ s[1] = 1
      /\ \A k \in 1 .. m :
           /\ Len(p[k]) \in Nat /\ Len(p[k]) > 0
           /\ s[k] \in 1 .. n /\ s[k + 1] \in Nat /\ s[k + 1] = s[k] + Len(p[k]) + 1
           /\ k < m => s[k + 1] <= n /\ text[s[k + 1] - 1] = Blank
           /\ k = m => s[k + 1] = n + 2
  BY <1>2, LaidBounds
<1>4. \A k \in 1 .. m : \A j \in 1 .. Len(p[k]) : text[s[k] + j - 1] = p[k][j]
  BY DEF Laid
<1>5. \A k \in 1 .. m : text[s[k]] = p[k][1]
  <2> SUFFICES ASSUME NEW k \in 1 .. m PROVE text[s[k]] = p[k][1]
    OBVIOUS
  <2>1. 1 \in 1 .. Len(p[k]) /\ s[k] + 1 - 1 = s[k]
    BY <1>3
  <2>2. text[s[k] + 1 - 1] = p[k][1]
    BY <1>4, <2>1
  <2> QED
    BY <2>1, <2>2
<1> HIDE DEF n, m
<1>6. ASSUME NEW k \in 1 .. m
      PROVE  /\ WordAt(text, s[k]) = <<w[k]>>
             /\ WordBehind(text, s[k]) = IF k < m THEN s[k + 1] ELSE n + 1
  <2> DEFINE next == s[k + 1]
  <2> DEFINE i == s[k]
  <2> DEFINE x == p[k]
  <2> DEFINE word == w[k]
  <2>8. Spells(x, word)
    BY DEF m
  <2>1. x \in Seq(U) /\ word \in Seq(U) /\ Spells(x, word) /\ Len(text) = n
    BY <1>1, <2>8 DEF n
  <2>9. /\ s[k] \in 1 .. n /\ s[k + 1] \in Nat /\ s[k + 1] = s[k] + Len(p[k]) + 1
        /\ k < m => s[k + 1] <= n /\ text[s[k + 1] - 1] = Blank
        /\ k = m => s[k + 1] = n + 2
    BY <1>3
  <2>10. k < m \/ k = m
    BY <1>1
  <2>2. i \in 1 .. n /\ next \in Nat /\ next = i + Len(x) + 1 /\ (next <= n \/ next = n + 2)
    BY <2>9, <2>10
  <2>3. next <= n => k < m
    BY <1>1, <2>9, <2>10
  <2>4. next <= n => text[next - 1] = Blank /\ text[next] # Blank
    <3> SUFFICES ASSUME next <= n PROVE text[next - 1] = Blank /\ text[next] # Blank
      OBVIOUS
    <3>1. k < m /\ k + 1 \in 1 .. m
      BY <1>1, <2>3
    <3>2. text[next] = p[k + 1][1]
      BY <1>5, <3>1
    <3>3. p[k + 1][1] # Blank
      BY <1>2, <3>1
    <3> QED
      BY <1>3, <3>1, <3>2, <3>3
  <2>5. \A j \in 1 .. Len(x) : text[i + j - 1] = x[j]
    BY <1>4
  <2>6. k < m => next <= n
    BY <1>3
  <2> HIDE DEF next, i, x, word
  <2>7. /\ WordAt(text, i) = <<word>> /\ WordBehind(text, i) = IF next <= n THEN next ELSE n + 1
    <3>1. n \in Nat /\ i \in 1 .. n /\ next \in Nat
      BY <1>1, <2>2
    <3>2. PieceAt(text, n, x, i, next)
      BY <2>1, <2>2, <2>4, <2>5 DEF PieceAt
    <3>3. x \in Seq(U) /\ word \in Seq(U) /\ Spells(x, word)
      BY <2>1
    <3> QED
      BY <3>1, <3>2, <3>3, PieceIsRead
  <2> QED
    BY <2>3, <2>6, <2>7 DEF next, i, word
<1> DEFINE out == [i \in 1 .. n |-> WordAt(text, i)]
<1> DEFINE nxt == [i \in 1 .. n |-> WordBehind(text, i)]
<1>7. PICK f : /\ Jumps(n, 1, n + 2, out, nxt, f)
               /\ stringsplit(text) = IF After(text, 1) > Len(text) /\ text # <<>> THEN <<<<>>>>
                                      ELSE f[After(text, 1)]
  BY <1>1, Splitting DEF n
<1>8. After(text, 1) = 1 /\ ~(1 > Len(text))
  <2>1. 1 \in 1 .. m
    BY <1>1
  <2>2. 1 \in 1 .. n /\ text[1] # Blank
    BY <1>2, <1>3, <1>5, <2>1
  <2>3. DOMAIN text = 1 .. n /\ Len(text) = n
    BY DEF n
  <2>4. After(text, 1) = 1
    BY <1>1, <2>2, <2>3, AfterIs
  <2> QED
    BY <2>2, <2>3, <2>4
<1>9. stringsplit(text) = f[1]
  BY <1>7, <1>8
<1> DEFINE t == [k \in 1 .. m |-> s[k]]
<1>10. t \in [1 .. m -> 1 .. n] /\ \A k \in 1 .. m : t[k] = s[k]
  BY <1>3
<1>11. \A k \in 1 .. m : out[t[k]] = <<w[k]>>
  BY <1>3, <1>6
<1>12. \A k \in 1 .. m : nxt[t[k]] = IF k < m THEN t[k + 1] ELSE n + 1
  <2> SUFFICES ASSUME NEW k \in 1 .. m PROVE nxt[t[k]] = IF k < m THEN t[k + 1] ELSE n + 1
    OBVIOUS
  <2>1. nxt[t[k]] = IF k < m THEN s[k + 1] ELSE n + 1
    BY <1>3, <1>6
  <2>2. k < m => k + 1 \in 1 .. m
    BY <1>1
  <2> QED
    BY <2>1, <2>2
<1> HIDE DEF out, nxt, t
<1> DEFINE top == n + 2
<1>13. top \in Nat /\ top > n /\ Jumps(n, 1, top, out, nxt, f)
  BY <1>1, <1>7
<1> HIDE DEF top
<1> DEFINE W == Seq(U)
<1>14. w \in Seq(W) /\ Len(w) = m
  BY DEF m
<1> HIDE DEF W
<1>15. f[t[1]] = w
  <2>1. n \in Nat /\ m \in Nat \ {0}
    BY <1>1
  <2>2. t \in [1 .. m -> 1 .. n]
    BY <1>10
  <2>3. Along(out, nxt, t, w, m, n)
    BY <1>11, <1>12, <1>14 DEF Along
  <2> QED
    BY <2>1, <2>2, <2>3, <1>13, <1>14, JumpsGive
<1>16. t[1] = 1
  <2>1. 1 \in 1 .. m
    BY <1>1
  <2> QED
    BY <1>3, <1>10, <2>1
<1> QED
  BY <1>9, <1>15, <1>16

\* The next command line begins here, and the one at i ends before this.
Beginning(text, i) == FirstOf(WhereNot(text, {Blank, Dash}), i, text)

LineStarts(text) == {i \in Where(text, {Blank}) : i < Len(text) /\ text[i + 1] = Dash}

Stop(text, i) == FirstOf(LineStarts(text), i, text)

\* extractSeparateCommands as a reader that jumps.
LEMMA Cutting ==
  ASSUME NEW U, NEW text \in Seq(U), NEW n \in Nat, Len(text) = n
  PROVE  \E f : /\ Jumps(n, 1, n + 1, [i \in 1 .. n |-> <<SubSeq(text, i, Stop(text, i) - 1)>>],
                         [i \in 1 .. n |-> Beginning(text, Stop(text, i))], f)
                /\ extractSeparateCommands(text) = f[FirstOf(WhereNot(text, {Dash}), 1, text)]
<1> DEFINE out == [i \in 1 .. n |-> <<SubSeq(text, i, Stop(text, i) - 1)>>]
<1> DEFINE nxt == [i \in 1 .. n |-> Beginning(text, Stop(text, i))]
<1> DEFINE top == n + 1
<1> DEFINE Body(f, i) ==
      IF i > Len(text) THEN <<>>
      ELSE <<SubSeq(text, i, Stop(text, i) - 1)>> \o f[Beginning(text, Stop(text, i))]
<1> DEFINE Eq(f) == f = [i \in 1 .. Len(text) + 1 |-> Body(f, i)]
<1> DEFINE g == CHOOSE f : Eq(f)
<1>1. extractSeparateCommands(text) = g[FirstOf(WhereNot(text, {Dash}), 1, text)]
  BY DEF extractSeparateCommands, Beginning, Stop, LineStarts
<1>2. LineStarts(text) \in SUBSET (1 .. n) /\ WhereNot(text, {Blank, Dash}) \in SUBSET (1 .. n)
  BY DEF LineStarts, Where, WhereNot
<1>3. \A i \in Nat : /\ Beginning(text, i) \in 1 .. n + 1
                     /\ Beginning(text, i) >= i \/ Beginning(text, i) = n + 1
  BY <1>2, FirstRange DEF Beginning
<1>4. \A i \in 1 .. n : Stop(text, i) \in i .. n + 1
  <2> SUFFICES ASSUME NEW i \in 1 .. n PROVE Stop(text, i) \in i .. n + 1
    OBVIOUS
  <2> DEFINE c == FirstOf(LineStarts(text), i, text)
  <2>1. i \in Nat
    OBVIOUS
  <2>2. c \in 1 .. n + 1 /\ (c >= i \/ c = n + 1)
    BY <1>2, <2>1, FirstRange
  <2> HIDE DEF c
  <2>3. c \in i .. n + 1
    BY <2>2
  <2> QED
    BY <2>3 DEF c, Stop
<1>5. \A i \in Nat : Beginning(text, i) \in 1 .. n => text[Beginning(text, i)] # Blank
  <2> SUFFICES ASSUME NEW i \in Nat, Beginning(text, i) \in 1 .. n
               PROVE  text[Beginning(text, i)] # Blank
    OBVIOUS
  <2> DEFINE P == WhereNot(text, {Blank, Dash})
  <2> DEFINE c == FirstOf(P, i, text)
  <2>1. P \in SUBSET (1 .. n) /\ \A y \in P : text[y] # Blank
    BY <1>2 DEF WhereNot, Where
  <2> HIDE DEF P
  <2>2. IsFirst(c, P, i, n)
    BY <2>1, FirstOfIs
  <2>3. c \in 1 .. n
    BY DEF Beginning, P
  <2> HIDE DEF c
  <2>4. c \in P
    BY <2>2, <2>3 DEF IsFirst
  <2> QED
    BY <2>1, <2>4 DEF c, P, Beginning
<1>6. ASSUME NEW i \in 1 .. n
      PROVE  Beginning(text, Stop(text, i)) \in 1 .. n + 1 /\ Beginning(text, Stop(text, i)) > i
  <2> DEFINE c == Stop(text, i)
  <2> DEFINE b == Beginning(text, c)
  <2>1. c \in i .. n + 1
    BY <1>4
  <2>2. c = i => text[i] = Blank
    <3> DEFINE P == LineStarts(text)
    <3>1. P \in SUBSET (1 .. n) /\ \A y \in P : text[y] = Blank
      BY <1>2 DEF LineStarts, Where
    <3> HIDE DEF P
    <3> DEFINE e == FirstOf(P, i, text)
    <3>2. IsFirst(e, P, i, n)
      <4>1. i \in Nat
        OBVIOUS
      <4> QED
        BY <3>1, <4>1, FirstOfIs
    <3>3. e = c
      BY DEF P, Stop
    <3> HIDE DEF e, c
    <3>4. c = i => c \in P
      BY <3>2, <3>3 DEF IsFirst
    <3> QED
      BY <3>1, <3>4
  <2> HIDE DEF c
  <2>3. c \in Nat
    BY <2>1
  <2>4. b \in 1 .. n + 1 /\ (b >= c \/ b = n + 1) /\ (b \in 1 .. n => text[b] # Blank)
    BY <1>3, <1>5, <2>3
  <2> HIDE DEF b
  <2>5. b = i => FALSE
    <3> SUFFICES ASSUME b = i PROVE FALSE
      OBVIOUS
    <3>1. c = i
      BY <2>1, <2>4
    <3> QED
      BY <2>2, <2>4, <3>1
  <2>6. b > i
    BY <2>1, <2>4, <2>5
  <2> QED
    BY <2>4, <2>6 DEF b, c
<1> DEFINE X == Seq(U)
<1>7. \A i \in 1 .. n : <<SubSeq(text, i, Stop(text, i) - 1)>> \in Seq(X)
  <2> SUFFICES ASSUME NEW i \in 1 .. n PROVE SubSeq(text, i, Stop(text, i) - 1) \in Seq(U)
    OBVIOUS
  <2>1. \A a, b \in Int : a >= 1 /\ b <= n => SubSeq(text, a, b) \in Seq(U)
    OBVIOUS
  <2>2. Stop(text, i) - 1 \in Int /\ Stop(text, i) - 1 <= n
    <3>1. Stop(text, i) \in i .. n + 1
      BY <1>4
    <3> QED
      BY <3>1
  <2> QED
    BY <2>1, <2>2
<1>8. \E f : Eq(f)
  <2>1. out \in [1 .. n -> Seq(X)] /\ nxt \in [1 .. n -> 1 .. n + 1] /\ \A i \in 1 .. n : nxt[i] > i
    BY <1>6, <1>7
  <2>2. top \in Nat /\ top > n
    OBVIOUS
  <2> HIDE DEF out, nxt, top, X
  <2>3. PICK f \in [1 .. top -> Seq(X)] : Jumps(n, 1, top, out, nxt, f)
    BY <2>1, <2>2, JumpsRun
  <2>4. \A i \in 1 .. top : f[i] = IF i > n THEN <<>> ELSE out[i] \o f[nxt[i]]
    BY <2>3 DEF Jumps
  <2>5. ASSUME NEW i \in 1 .. top PROVE f[i] = Body(f, i)
    <3>1. CASE i > n
      BY <2>4, <3>1
    <3>2. CASE ~(i > n)
      <4>1. i \in 1 .. n
        BY <3>2
      <4> QED
        BY <2>4, <3>2, <4>1 DEF out, nxt
    <3> QED
      BY <3>1, <3>2
  <2>6. f = [i \in 1 .. top |-> Body(f, i)]
    <3>1. f = [i \in 1 .. top |-> f[i]]
      BY <2>3
    <3> HIDE DEF Body
    <3> QED
      BY <2>5, <3>1
  <2> QED
    BY <2>6 DEF top
<1>9. Eq(g)
  BY <1>8
<1> HIDE DEF g
<1>10. \A i \in 1 .. top : g[i] = Body(g, i)
  <2> HIDE DEF Body
  <2> QED
    BY <1>9
<1>11. \A i \in 1 .. top : g[i] = IF i > n THEN <<>> ELSE out[i] \o g[nxt[i]]
  BY <1>10
<1>12. Jumps(n, 1, top, out, nxt, g)
  <2> HIDE DEF out, nxt, top, Body
  <2> QED
    BY <1>11 DEF Jumps
<1> QED
  BY <1>1, <1>12

\* No blank before a hyphen.
Uncut(line) == \A j \in 1 .. Len(line) : ~(j < Len(line) /\ line[j] = Blank /\ line[j + 1] = Dash)

\* This line is in the text at b, and next is where the line behind it begins.
LineAt(text, n, line, b, next) ==
    /\ Len(text) = n /\ Len(line) > 0 /\ next = b + Len(line) + 2
    /\ next <= n \/ next = n + 3
    /\ next <= n => text[next - 2] = Blank /\ text[next - 1] = Dash
         /\ text[next] \notin {Blank, Dash}
    /\ \A j \in 1 .. Len(line) : text[b + j - 1] = line[j]

\* The line at b is cut out of the text.
LEMMA LineIsCut ==
  ASSUME NEW U, NEW text \in Seq(U), NEW n \in Nat, NEW line \in Seq(U), Uncut(line),
         NEW b \in 1 .. n,
         NEW next \in Nat, LineAt(text, n, line, b, next)
  PROVE  /\ SubSeq(text, b, Stop(text, b) - 1) = line
         /\ Beginning(text, Stop(text, b)) = IF next <= n THEN next ELSE n + 1
<1> DEFINE r == Len(line)
<1> DEFINE e == b + r
<1>1. /\ r \in Nat /\ r > 0 /\ next = b + r + 2 /\ (next <= n \/ next = n + 3)
      /\ b \in Nat /\ b >= 1 /\ next \in Nat /\ n \in Nat /\ e = b + r /\ e \in Nat /\ b <= n
  BY DEF LineAt
<1>2. /\ next <= n => text[next - 2] = Blank /\ text[next - 1] = Dash
           /\ text[next] \notin {Blank, Dash}
      /\ \A j \in 1 .. r : text[b + j - 1] = line[j]
  BY DEF LineAt
<1>3. DOMAIN text = 1 .. n /\ Len(text) = n
  BY DEF LineAt
<1>4. \A j \in 1 .. r : ~(j < r /\ line[j] = Blank /\ line[j + 1] = Dash)
  BY DEF Uncut
<1> HIDE DEF r, e
<1>5. e <= n + 1 /\ next = e + 2 /\ (next <= n \/ e = n + 1)
      /\ (next <= n => e + 1 \in 1 .. n /\ e \in 1 .. n)
  BY ONLY <1>1
<1>6. next <= n => text[e] = Blank /\ text[e + 1] = Dash /\ text[e + 2] \notin {Blank, Dash}
  <2>1. next - 2 = e /\ next - 1 = e + 1
    BY ONLY <1>1, <1>5
  <2> QED
    BY ONLY <1>2, <1>5, <2>1
<1> DEFINE P == LineStarts(text)
<1>7. P \in SUBSET (1 .. n) /\ \A y : y \in P <=> y \in 1 .. n /\ text[y] = Blank /\ y < n
      /\ text[y + 1] = Dash
  BY <1>3 DEF LineStarts, Where
<1> HIDE DEF P
<1>8. \A y \in P : y >= b => y >= e
  <2> SUFFICES ASSUME NEW y \in P, y >= b, ~(y >= e) PROVE FALSE
    OBVIOUS
  <2>1. y \in Nat /\ y >= b /\ ~(y >= e) /\ y < n /\ text[y] = Blank /\ text[y + 1] = Dash
    BY ONLY <1>7, y \in P, y >= b, ~(y >= e), n \in Nat
  <2> DEFINE j == y - b + 1
  <2>2. j \in 1 .. r /\ b + j - 1 = y
    BY ONLY <1>1, <2>1
  <2>3. j < r => j + 1 \in 1 .. r /\ b + (j + 1) - 1 = y + 1
    BY ONLY <1>1, <2>1
  <2>4. ~(j < r) => y + 1 = e
    BY ONLY <1>1, <2>1
  <2> HIDE DEF j
  <2>5. line[j] = Blank
    BY ONLY <1>2, <2>1, <2>2
  <2>6. CASE j < r
    <3>1. line[j + 1] = Dash
      BY ONLY <1>2, <2>1, <2>3, <2>6
    <3> QED
      BY ONLY <1>4, <2>2, <2>5, <2>6, <3>1
  <2>7. CASE ~(j < r)
    <3>1. y + 1 = e
      BY <2>4, <2>7
    <3>2. next <= n
      BY ONLY <1>5, <2>1, <3>1, n \in Nat
    <3>3. text[y + 1] = Blank
      BY ONLY <1>6, <3>1, <3>2
    <3> QED
      BY ONLY <2>1, <3>3 DEF Blank, Dash
  <2> QED
    BY <2>6, <2>7
<1>9. /\ \A j \in P : j >= b /\ (\A y \in P : y >= b => j <= y) => FirstOf(P, b, text) = j
      /\ (\A y \in P : y < b) => FirstOf(P, b, text) = n + 1
  BY ONLY <1>1, <1>3, <1>7, FirstIs
<1>10. FirstOf(P, b, text) = e
  <2>1. CASE next <= n
    <3>1. e \in P
      <4>1. e < n /\ e \in 1 .. n
        BY ONLY <1>1, <1>5, <2>1
      <4> QED
        BY ONLY <1>6, <1>7, <2>1, <4>1
    <3>2. e >= b
      BY ONLY <1>1
    <3>3. \A y \in P : y >= b => e <= y
      BY ONLY <1>1, <1>7, <1>8
    <3> QED
      BY ONLY <1>9, <3>1, <3>2, <3>3
  <2>2. CASE ~(next <= n)
    <3>1. e = n + 1
      BY ONLY <1>5, <2>2
    <3>2. \A y \in P : y < b
      <4> SUFFICES ASSUME NEW y \in P, ~(y < b) PROVE FALSE
        OBVIOUS
      <4>1. y \in 1 .. n
        BY ONLY <1>7, y \in P
      <4>2. y >= b
        BY ONLY <1>1, <4>1, ~(y < b)
      <4>3. y >= e
        BY ONLY <1>8, <4>2, y \in P
      <4> QED
        BY ONLY <3>1, <4>1, <4>3, <1>1
    <3> QED
      BY ONLY <1>9, <3>1, <3>2
  <2> QED
    BY <2>1, <2>2
<1>11. Stop(text, b) = e
  BY <1>10 DEF Stop, P
<1>12. SubSeq(text, b, e - 1) = line
  <2> DEFINE one == 1
  <2> DEFINE k == b - 1
  <2>1. /\ one \in Nat /\ r \in Nat /\ 1 <= one /\ 1 <= one + k /\ r + k <= n /\ k \in Int
        /\ one + k = b /\ r + k = e - 1
    BY ONLY <1>1, <1>5
  <2>2. \A j \in one .. r : line[j] = text[j + k]
    <3> SUFFICES ASSUME NEW j \in 1 .. r PROVE line[j] = text[j + k]
      OBVIOUS
    <3>1. j + k = b + j - 1
      BY ONLY <1>1, j \in 1 .. r
    <3> QED
      BY ONLY <1>2, <3>1, j \in 1 .. r
  <2> HIDE DEF one, k
  <2>3. r <= Len(line) /\ r + k <= Len(text)
    BY <1>1, <1>3, <2>1 DEF r
  <2>4. SubSeq(line, one, r) = SubSeq(text, one + k, r + k)
    BY <2>1, <2>2, <2>3, SamePart
  <2>5. SubSeq(line, 1, r) = line
    BY WholePart DEF r
  <2> QED
    BY ONLY <2>1, <2>4, <2>5 DEF one
<1> DEFINE N == WhereNot(text, {Blank, Dash})
<1>13. N \in SUBSET (1 .. n) /\ \A y : y \in N <=> y \in 1 .. n /\ text[y] \notin {Blank, Dash}
  BY <1>3 DEF WhereNot, Where
<1> HIDE DEF N
<1>14. /\ \A j \in N : j >= e /\ (\A y \in N : y >= e => j <= y) => FirstOf(N, e, text) = j
       /\ (\A y \in N : y < e) => FirstOf(N, e, text) = n + 1
  BY ONLY <1>1, <1>3, <1>13, FirstIs
<1>15. FirstOf(N, e, text) = IF next <= n THEN next ELSE n + 1
  <2>1. CASE next <= n
    <3>1. next \in N
      <4>1. next \in 1 .. n /\ text[next] \notin {Blank, Dash}
        BY ONLY <1>1, <1>2, <2>1
      <4> QED
        BY ONLY <1>13, <4>1
    <3>2. next >= e
      BY ONLY <1>1, <1>5
    <3>3. \A y \in N : y >= e => next <= y
      <4> SUFFICES ASSUME NEW y \in N, y >= e, ~(next <= y) PROVE FALSE
        OBVIOUS
      <4>1. y \in 1 .. n /\ text[y] \notin {Blank, Dash}
        BY ONLY <1>13, y \in N
      <4>2. y = e \/ y = e + 1
        BY ONLY <1>1, <1>5, <4>1, y >= e, ~(next <= y)
      <4> QED
        BY ONLY <1>6, <2>1, <4>1, <4>2
    <3>4. FirstOf(N, e, text) = next
      BY ONLY <1>14, <3>1, <3>2, <3>3
    <3> QED
      BY <2>1, <3>4
  <2>2. CASE ~(next <= n)
    <3>1. \A y \in N : y < e
      BY ONLY <1>1, <1>5, <1>13, <2>2
    <3>2. FirstOf(N, e, text) = n + 1
      BY ONLY <1>14, <3>1
    <3> QED
      BY <2>2, <3>2
  <2> QED
    BY <2>1, <2>2
<1>16. Beginning(text, e) = IF next <= n THEN next ELSE n + 1
  BY <1>15 DEF Beginning, N
<1> QED
  BY <1>11, <1>12, <1>16

\* A piece of a message: a hyphen and the line.
Hyphened(x, line) ==
    /\ Len(line) > 0 /\ line[1] \notin {Blank, Dash} /\ Uncut(line)
    /\ Len(x) = Len(line) + 1 /\ x[1] = Dash
    /\ \A j \in 1 .. Len(line) : x[j + 1] = line[j]

\* Lines behind hyphens are cut out of a message again.
LEMMA LinesAreCut ==
  ASSUME NEW U, NEW text \in Seq(U), NEW p \in Seq(Seq(U)), p # <<>>, NEW s, Laid(text, p, s),
         NEW w \in Seq(Seq(U)), Len(w) = Len(p), \A k \in 1 .. Len(p) : Hyphened(p[k], w[k])
  PROVE  CommandLines(text) = w
<1> DEFINE n == Len(text)
<1> DEFINE m == Len(p)
<1>1. n \in Nat /\ m \in Nat \ {0} /\ DOMAIN text = 1 .. n
  OBVIOUS
<1>2. \A k \in 1 .. m : p[k] \in Seq(U) /\ w[k] \in Seq(U) /\ Len(w[k]) \in Nat
  OBVIOUS
<1>3. \A k \in 1 .. m :
        /\ Len(w[k]) > 0 /\ w[k][1] \notin {Blank, Dash} /\ Uncut(w[k])
        /\ Len(p[k]) = Len(w[k]) + 1 /\ p[k][1] = Dash
        /\ \A j \in 1 .. Len(w[k]) : p[k][j + 1] = w[k][j]
  BY DEF Hyphened
<1>4. \A k \in 1 .. m : p[k] # <<>>
  <2>1. \A x \in Seq(U) : Len(x) # 0 => x # <<>>
    OBVIOUS
  <2>2. \A k \in 1 .. m : Len(p[k]) # 0
    <3> SUFFICES ASSUME NEW k \in 1 .. m PROVE Len(p[k]) # 0
      OBVIOUS
    <3>1. Len(w[k]) \in Nat /\ Len(p[k]) = Len(w[k]) + 1
      BY <1>2, <1>3
    <3> QED
      BY ONLY <3>1
  <2> QED
    BY <1>2, <2>1, <2>2
<1>5. /\ s \in [1 .. m + 1 -> Nat] /\ s[1] = 1
      /\ \A k \in 1 .. m :
           /\ Len(p[k]) \in Nat /\ Len(p[k]) > 0
           /\ s[k] \in 1 .. n /\ s[k + 1] \in Nat /\ s[k + 1] = s[k] + Len(p[k]) + 1
           /\ k < m => s[k + 1] <= n /\ text[s[k + 1] - 1] = Blank
           /\ k = m => s[k + 1] = n + 2
  BY <1>4, LaidBounds
<1>6. \A k \in 1 .. m : \A j \in 1 .. Len(p[k]) : text[s[k] + j - 1] = p[k][j]
  <2>1. Laid(text, p, s)
    OBVIOUS
  <2> QED
    BY ONLY <2>1 DEF Laid, m
<1> DEFINE T == text
<1>7. T \in Seq(U) /\ Len(T) = n /\ (\A i : T[i] = text[i]) /\ T = text
  OBVIOUS
<1> HIDE DEF n, m
<1>8. ASSUME NEW k \in 1 .. m
      PROVE  text[s[k]] = Dash /\ \A j \in 1 .. Len(w[k]) : text[s[k] + 1 + j - 1] = w[k][j]
  <2>1. s[k] \in Nat /\ Len(p[k]) \in Nat /\ Len(p[k]) = Len(w[k]) + 1 /\ Len(w[k]) \in Nat
    <3>1. s[k] \in 1 .. n /\ n \in Nat /\ Len(p[k]) \in Nat
      BY ONLY <1>1, <1>5, k \in 1 .. m
    <3>2. Len(p[k]) = Len(w[k]) + 1 /\ Len(w[k]) \in Nat
      BY ONLY <1>2, <1>3, k \in 1 .. m
    <3> QED
      BY ONLY <3>1, <3>2
  <2>2. text[s[k]] = Dash
    <3>1. 1 \in 1 .. Len(p[k]) /\ s[k] + 1 - 1 = s[k]
      BY ONLY <2>1
    <3>2. text[s[k] + 1 - 1] = p[k][1]
      BY ONLY <1>6, <3>1, k \in 1 .. m
    <3> QED
      BY ONLY <1>3, <3>1, <3>2, k \in 1 .. m
  <2>3. ASSUME NEW j \in 1 .. Len(w[k]) PROVE text[s[k] + 1 + j - 1] = w[k][j]
    <3> DEFINE h == j + 1
    <3>1. h \in 1 .. Len(p[k]) /\ s[k] + h - 1 = s[k] + 1 + j - 1
      BY ONLY <2>1, j \in 1 .. Len(w[k])
    <3>2. p[k][h] = w[k][j]
      BY ONLY <1>3, k \in 1 .. m, j \in 1 .. Len(w[k])
    <3> HIDE DEF h
    <3>3. text[s[k] + h - 1] = p[k][h]
      BY ONLY <1>6, <3>1, k \in 1 .. m
    <3> QED
      BY ONLY <3>1, <3>2, <3>3
  <2> QED
    BY <2>2, <2>3
<1>9. \A k \in 1 .. m : s[k] + 1 \in 1 .. n /\ text[s[k] + 1] = w[k][1]
  <2> SUFFICES ASSUME NEW k \in 1 .. m PROVE s[k] + 1 \in 1 .. n /\ text[s[k] + 1] = w[k][1]
    OBVIOUS
  <2>1. s[k] \in Nat /\ Len(p[k]) = Len(w[k]) + 1 /\ Len(w[k]) \in Nat /\ Len(w[k]) > 0
    BY <1>1, <1>2, <1>3, <1>5
  <2>5. s[k + 1] = s[k] + Len(p[k]) + 1 /\ n \in Nat
    BY <1>1, <1>5
  <2>6. s[k + 1] <= n \/ s[k + 1] = n + 2
    <3>1. k < m \/ k = m
      BY ONLY <1>1, k \in 1 .. m
    <3>2. CASE k < m
      BY <1>5, <3>2
    <3>3. CASE k = m
      BY <1>5, <3>3
    <3> QED
      BY <3>1, <3>2, <3>3
  <2>2. s[k] + 1 \in 1 .. n
    <3> DEFINE z == s[k + 1]
    <3> DEFINE a == s[k]
    <3> DEFINE q == Len(w[k])
    <3>1. z = a + (q + 1) + 1
      BY <2>1, <2>5
    <3>2. a \in Nat /\ q \in Nat /\ q > 0 /\ n \in Nat /\ (z <= n \/ z = n + 2)
      BY <2>1, <2>5, <2>6
    <3> HIDE DEF z, a, q
    <3>3. a + 1 \in 1 .. n
      BY ONLY <3>1, <3>2
    <3> QED
      BY <3>3 DEF a
  <2>3. 1 \in 1 .. Len(w[k]) /\ s[k] + 1 + 1 - 1 = s[k] + 1
    BY ONLY <2>1
  <2>4. text[s[k] + 1 + 1 - 1] = w[k][1]
    BY ONLY <1>8, <2>3, k \in 1 .. m
  <2> QED
    BY ONLY <2>2, <2>3, <2>4
<1>10. ASSUME NEW k \in 1 .. m
       PROVE  /\ SubSeq(text, s[k] + 1, Stop(text, s[k] + 1) - 1) = w[k]
              /\ Beginning(text, Stop(text, s[k] + 1)) = IF k < m THEN s[k + 1] + 1 ELSE n + 1
  <2> DEFINE b == s[k] + 1
  <2> DEFINE next == s[k + 1] + 1
  <2> DEFINE line == w[k]
  <2>1. b \in 1 .. n /\ line \in Seq(U) /\ Uncut(line) /\ next \in Nat
    BY <1>2, <1>3, <1>5, <1>9
  <2>2. /\ Len(line) > 0 /\ Len(line) \in Nat /\ next = b + Len(line) + 2
        /\ \A j \in 1 .. Len(line) : text[b + j - 1] = line[j]
    <3>1. Len(line) > 0 /\ Len(line) \in Nat /\ s[k] \in Nat
      BY <1>2, <1>3, <1>5
    <3>4. s[k + 1] = s[k] + Len(p[k]) + 1 /\ Len(p[k]) = Len(w[k]) + 1
      BY <1>3, <1>5
    <3>2. s[k + 1] = s[k] + (Len(w[k]) + 1) + 1
      BY ONLY <3>4
    <3>3. next = b + Len(line) + 2
      <4> DEFINE z == s[k + 1]
      <4> DEFINE a == s[k]
      <4> DEFINE q == Len(w[k])
      <4>1. z = a + (q + 1) + 1 /\ a \in Nat /\ q \in Nat
        BY <3>1, <3>2
      <4> HIDE DEF z, a, q
      <4>2. z + 1 = a + 1 + q + 2
        BY ONLY <4>1
      <4> QED
        BY <4>2 DEF z, a, q
    <3> QED
      BY <1>8, <3>1, <3>3
  <2>3. CASE k < m
    <3>1. k + 1 \in 1 .. m
      BY <1>1, <2>3
    <3>2. next <= n /\ text[next] = w[k + 1][1]
      BY <1>9, <3>1
    <3>3. text[next] \notin {Blank, Dash}
      BY <1>3, <3>1, <3>2
    <3>4. text[s[k + 1]] = Dash /\ text[s[k + 1] - 1] = Blank
      BY <1>5, <1>8, <2>3, <3>1
    <3>5. next - 1 = s[k + 1] /\ next - 2 = s[k + 1] - 1
      BY <1>5
    <3>6. text[next - 1] = Dash /\ text[next - 2] = Blank
      BY ONLY <3>4, <3>5
    <3> HIDE DEF b, next, line
    <3>7. LineAt(text, n, line, b, next)
      BY <1>7, <2>2, <3>2, <3>3, <3>6 DEF LineAt
    <3>8. n \in Nat /\ text \in Seq(U)
      BY <1>1
    <3>9. /\ SubSeq(text, b, Stop(text, b) - 1) = line
          /\ Beginning(text, Stop(text, b)) = IF next <= n THEN next ELSE n + 1
      BY ONLY <2>1, <3>7, <3>8, LineIsCut
    <3> QED
      BY <2>3, <3>2, <3>9 DEF b, next, line
  <2>4. CASE ~(k < m)
    <3>1. s[k + 1] = n + 2
      <4>1. k = m
        BY ONLY <1>1, <2>4, k \in 1 .. m
      <4> QED
        BY <1>5, <4>1
    <3>2. next = n + 3 /\ ~(next <= n)
      BY <1>1, <3>1
    <3> HIDE DEF b, next, line
    <3>7. LineAt(text, n, line, b, next)
      BY <1>7, <2>2, <3>2 DEF LineAt
    <3>8. n \in Nat /\ text \in Seq(U)
      BY <1>1
    <3>9. /\ SubSeq(text, b, Stop(text, b) - 1) = line
          /\ Beginning(text, Stop(text, b)) = IF next <= n THEN next ELSE n + 1
      BY ONLY <2>1, <3>7, <3>8, LineIsCut
    <3> QED
      BY <2>4, <3>2, <3>9 DEF b, next, line
  <2> QED
    BY <2>3, <2>4
<1> DEFINE out == [i \in 1 .. n |-> <<SubSeq(text, i, Stop(text, i) - 1)>>]
<1> DEFINE nxt == [i \in 1 .. n |-> Beginning(text, Stop(text, i))]
<1>11. PICK f : /\ Jumps(n, 1, n + 1, out, nxt, f)
                /\ extractSeparateCommands(text) = f[FirstOf(WhereNot(text, {Dash}), 1, text)]
  BY <1>1, Cutting DEF n
<1>12. 1 \in 1 .. n /\ 2 \in 1 .. n /\ text[1] = Dash /\ text[2] \notin {Blank, Dash}
  <2>1. 1 \in 1 .. m
    BY <1>1
  <2>2. s[1] = 1 /\ s[1] + 1 = 2
    BY <1>5
  <2>3. 2 \in 1 .. n /\ text[2] = w[1][1] /\ text[1] = Dash
    BY <1>8, <1>9, <2>1, <2>2
  <2> QED
    BY <1>1, <1>3, <2>1, <2>3
<1>13. FirstOf(WhereNot(text, {Dash}), 1, text) = 2
  <2> DEFINE P == WhereNot(text, {Dash})
  <2>1. P \in SUBSET (1 .. n) /\ \A y : y \in P <=> y \in 1 .. n /\ text[y] # Dash
    BY <1>1 DEF WhereNot, Where
  <2> HIDE DEF P
  <2>2. Len(text) = n /\ 1 \in Nat
    BY DEF n
  <2>3. \A j \in P : j >= 1 /\ (\A y \in P : y >= 1 => j <= y) => FirstOf(P, 1, text) = j
    BY <1>1, <2>1, <2>2, FirstIs
  <2>4. 2 \in P
    BY <1>12, <2>1
  <2>5. \A y \in P : y >= 1 => 2 <= y
    <3> SUFFICES ASSUME NEW y \in P, ~(2 <= y) PROVE FALSE
      OBVIOUS
    <3>1. y = 1
      BY ONLY <2>1, y \in P, ~(2 <= y), <1>1
    <3> QED
      BY <1>12, <2>1, <3>1
  <2>6. FirstOf(P, 1, text) = 2
    BY <2>3, <2>4, <2>5
  <2> QED
    BY <2>6 DEF P
<1> DEFINE t == [k \in 1 .. m |-> s[k] + 1]
<1>14. t \in [1 .. m -> 1 .. n] /\ \A k \in 1 .. m : t[k] = s[k] + 1
  BY <1>9
<1>15. \A k \in 1 .. m : out[t[k]] = <<w[k]>>
  BY <1>9, <1>10
<1>16. \A k \in 1 .. m : nxt[t[k]] = IF k < m THEN t[k + 1] ELSE n + 1
  <2> SUFFICES ASSUME NEW k \in 1 .. m PROVE nxt[t[k]] = IF k < m THEN t[k + 1] ELSE n + 1
    OBVIOUS
  <2>1. nxt[t[k]] = IF k < m THEN s[k + 1] + 1 ELSE n + 1
    BY <1>9, <1>10
  <2>2. k < m => k + 1 \in 1 .. m
    BY <1>1
  <2> QED
    BY <2>1, <2>2
<1> HIDE DEF out, nxt, t
<1> DEFINE top == n + 1
<1>17. top \in Nat /\ top > n /\ Jumps(n, 1, top, out, nxt, f)
  BY <1>1, <1>11
<1> HIDE DEF top
<1> DEFINE W == Seq(U)
<1>18. w \in Seq(W) /\ Len(w) = m
  BY DEF m
<1> HIDE DEF W
<1>19. f[t[1]] = w
  <2>1. n \in Nat /\ m \in Nat \ {0}
    BY <1>1
  <2>2. t \in [1 .. m -> 1 .. n]
    BY <1>14
  <2>3. Along(out, nxt, t, w, m, n)
    BY <1>15, <1>16, <1>18 DEF Along
  <2> QED
    BY <2>1, <2>2, <2>3, <1>17, <1>18, JumpsGive
<1>20. t[1] = 2
  <2>1. 1 \in 1 .. m
    BY <1>1
  <2> QED
    BY <1>5, <1>14, <2>1
<1>21. extractSeparateCommands(text) = w
  BY <1>11, <1>13, <1>19, <1>20
<1>22. From(text, FirstOf(WhereNot(text, {Blank}), 1, text)) = text
  <2>1. Len(text) = n /\ text[1] # Blank
    BY <1>12 DEF n, Dash, Blank
  <2>2. After(text, 1) = 1
    BY <1>1, <1>12, <2>1, AfterIs
  <2>3. SubSeq(text, 1, Len(text)) = text
    BY WholePart
  <2> QED
    BY <2>2, <2>3 DEF After, From
<1>23. text # <<>>
  BY <1>12 DEF n
<1> QED
  BY <1>12, <1>21, <1>22, <1>23 DEF CommandLines

\* The symbols of a message. They are strings, which no prover knows of a literal.
Symbols ==
    STRING \cup {Blank, Dash, Quote, Escaped, "{", "}", ":"} \cup DOMAIN Arity \cup ToSet(Digits)
      \cup {"start_app_with_param", "com.webos.app.factorywin", "irKey", "inStart",
            "settings_other", "svcMenuFlag", "false", "adjust_curve_preset", "set_curve_preset",
            "flat"}

\* A piece of a line that says a word, and that does not begin or end a line.
Fits(x, word) == Spells(x, word) /\ x[1] # Dash /\ ~TwoSymbols(word, Blank, Dash)

\* In such a piece no blank is before a hyphen.
LEMMA PieceIsUncut ==
  ASSUME NEW U, NEW x \in Seq(U), NEW word \in Seq(U), Fits(x, word)
  PROVE  /\ Uncut(x) /\ x # <<>> /\ x[1] \notin {Blank, Dash} /\ x[Len(x)] # Blank
<1>1. x # <<>> /\ x[1] \notin {Blank, Dash} /\ Len(x) \in Nat /\ Len(x) > 0
  <2>1. x # <<>> /\ x[1] # Blank
    BY SpelledBegins DEF Fits
  <2>2. Len(x) \in Nat /\ Len(x) > 0
    BY <2>1
  <2> QED
    BY <2>1, <2>2 DEF Fits
<1>2. CASE Bare(x)
  <2>1. \A i \in 1 .. Len(x) : x[i] # Blank
    BY <1>2 DEF Bare
  <2>2. Len(x) \in 1 .. Len(x)
    BY <1>1
  <2> QED
    BY <1>1, <2>1, <2>2 DEF Uncut
<1>3. CASE Quotes(x, word)
  <2> DEFINE r == Len(word)
  <2> DEFINE q == Len(x)
  <2>1. /\ q = r + 2 /\ r \in Nat /\ x[1] = Quote /\ x[q] = Quote
        /\ \A i \in 1 .. r : x[i + 1] = word[i]
    BY <1>3 DEF Quotes
  <2>2. \A i \in 1 .. r - 1 : ~(word[i] = Blank /\ word[i + 1] = Dash)
    BY DEF Fits, TwoSymbols
  <2> HIDE DEF r, q
  <2>3. ASSUME NEW j \in 1 .. q, j < q, x[j] = Blank, x[j + 1] = Dash PROVE FALSE
    <3>1. j # 1 /\ j + 1 # q
      BY <2>1, <2>3 DEF Blank, Dash, Quote
    <3> DEFINE h == j - 1
    <3>2. h \in 1 .. r - 1 /\ h \in 1 .. r /\ h + 1 \in 1 .. r /\ h + 1 = j
      BY <2>1, <2>3, <3>1
    <3> HIDE DEF h
    <3>3. word[h] = Blank
      BY <2>1, <2>3, <3>2
    <3>4. x[h + 1 + 1] = word[h + 1]
      BY <2>1, <3>2
    <3>5. word[h + 1] = Dash
      BY <2>3, <3>2, <3>4
    <3> QED
      BY <2>2, <3>2, <3>3, <3>5
  <2>4. x[q] # Blank
    BY <2>1 DEF Quote, Blank
  <2> QED
    BY <1>1, <2>3, <2>4 DEF Uncut, q
<1> QED
  BY <1>2, <1>3 DEF Fits, Spells

\* Words with a blank between any two.
LineSays(line, w) ==
    \E p \in Seq(Seq(Symbols)) :
      /\ Len(p) = Len(w) /\ p # <<>> /\ <<Blank>> \o line = FlattenSeq(Blanked(p))
      /\ \A k \in 1 .. Len(p) : Fits(p[k], w[k])

\* A line can be cut out of a message.
IsLine(line) == Len(line) > 0 /\ line[1] \notin {Blank, Dash} /\ Uncut(line)

\* A line that says words is split into them, and can be cut out of a message.
LEMMA LineIsRead ==
  ASSUME NEW line \in Seq(Symbols), NEW w \in Seq(Seq(Symbols)), LineSays(line, w)
  PROVE  stringsplit(line) = w /\ IsLine(line)
<1>1. PICK p \in Seq(Seq(Symbols)) :
        /\ Len(p) = Len(w) /\ p # <<>> /\ <<Blank>> \o line = FlattenSeq(Blanked(p))
        /\ \A k \in 1 .. Len(p) : Fits(p[k], w[k])
  BY DEF LineSays
<1> DEFINE U == Symbols
<1>2. Blank \in U /\ line \in Seq(U) /\ p \in Seq(Seq(U)) /\ w \in Seq(Seq(U))
  BY <1>1 DEF Symbols
<1> HIDE DEF U
<1>3. PICK s : Laid(line, p, s)
  BY ONLY <1>1, <1>2, LaidOut
<1>4. \A k \in 1 .. Len(p) : Spells(p[k], w[k])
  BY <1>1 DEF Fits
<1>5. stringsplit(line) = w
  BY ONLY <1>1, <1>2, <1>3, <1>4, WordsAreRead
<1> DEFINE m == Len(p)
<1> DEFINE n == Len(line)
<1>6. m \in Nat \ {0} /\ n \in Nat /\ \A k \in 1 .. m : p[k] \in Seq(U) /\ w[k] \in Seq(U)
      /\ Len(p[k]) \in Nat
  BY <1>1, <1>2
<1>7. \A k \in 1 .. m : Uncut(p[k]) /\ p[k] # <<>> /\ p[k][1] \notin {Blank, Dash}
      /\ p[k][Len(p[k])] # Blank
  BY <1>1, <1>6, PieceIsUncut
<1>8. /\ s \in [1 .. m + 1 -> Nat] /\ s[1] = 1
      /\ \A k \in 1 .. m :
           /\ Len(p[k]) \in Nat /\ Len(p[k]) > 0
           /\ s[k] \in 1 .. n /\ s[k + 1] \in Nat /\ s[k + 1] = s[k] + Len(p[k]) + 1
           /\ k < m => s[k + 1] <= n /\ line[s[k + 1] - 1] = Blank
           /\ k = m => s[k + 1] = n + 2
  <2>1. \A k \in 1 .. Len(p) : p[k] # <<>>
    BY <1>7
  <2> QED
    BY ONLY <1>1, <1>2, <1>3, <2>1, LaidBounds
<1>9. \A k \in 1 .. m : \A j \in 1 .. Len(p[k]) : line[s[k] + j - 1] = p[k][j]
  BY <1>3 DEF Laid
<1>10. ASSUME NEW i \in 1 .. n
       PROVE  \/ \E k \in 1 .. m : \E j \in 1 .. Len(p[k]) : i = s[k] + j - 1
              \/ \E k \in 2 .. m : i = s[k] - 1
  <2> DEFINE h == i
  <2>1. h \in 1 .. Len(line)
    OBVIOUS
  <2>2. p # <<>>
    BY <1>1
  <2> HIDE DEF h
  <2>3. \/ \E k \in 1 .. Len(p) : \E j \in 1 .. Len(p[k]) : h = s[k] + j - 1
        \/ \E k \in 2 .. Len(p) : h = s[k] - 1
    BY ONLY <1>2, <1>3, <2>1, <2>2, InPiece
  <2> QED
    BY <2>3 DEF h
<1> HIDE DEF m, n
<1>11. \A k \in 1 .. m : line[s[k]] = p[k][1]
  <2> SUFFICES ASSUME NEW k \in 1 .. m PROVE line[s[k]] = p[k][1]
    OBVIOUS
  <2>1. 1 \in 1 .. Len(p[k]) /\ s[k] + 1 - 1 = s[k]
    BY <1>6, <1>8
  <2>2. line[s[k] + 1 - 1] = p[k][1]
    BY <1>9, <2>1
  <2> QED
    BY <2>1, <2>2
<1>12. Len(line) > 0 /\ line[1] \notin {Blank, Dash}
  <2>1. 1 \in 1 .. m
    BY <1>6
  <2>2. 1 \in 1 .. n /\ line[1] = p[1][1]
    BY <1>8, <1>11, <2>1
  <2>3. n > 0
    BY <1>6, <2>2
  <2> QED
    BY <1>7, <2>1, <2>2, <2>3 DEF n
<1>13. Uncut(line)
  <2> SUFFICES ASSUME NEW i \in 1 .. n, i < n, line[i] = Blank, line[i + 1] = Dash PROVE FALSE
    BY DEF Uncut, n
  <2>1. ASSUME NEW k \in 2 .. m, i = s[k] - 1 PROVE FALSE
    <3>1. k \in 1 .. m
      BY <1>6
    <3>2. s[k] \in Nat /\ i \in Nat
      BY <1>6, <1>8, <3>1
    <3>3. i + 1 = s[k]
      BY ONLY <2>1, <3>2
    <3>4. line[i + 1] = p[k][1]
      BY <1>11, <3>1, <3>3
    <3> QED
      BY <1>7, <3>1, <3>4
  <2>2. ASSUME NEW k \in 1 .. m, NEW j \in 1 .. Len(p[k]), i = s[k] + j - 1 PROVE FALSE
    <3> DEFINE a == s[k]
    <3> DEFINE q == Len(p[k])
    <3>1. a \in Nat /\ q \in Nat /\ j \in 1 .. q /\ i = a + j - 1 /\ n \in Nat
      BY <1>6, <1>8, <2>2
    <3>2. p[k][j] = Blank
      BY <1>9, <2>2
    <3>3. j # q
      BY <1>7, <3>2
    <3> HIDE DEF a, q
    <3> DEFINE h == j + 1
    <3>4. h \in 1 .. q /\ a + h - 1 = i + 1 /\ j < q
      BY ONLY <3>1, <3>3
    <3> HIDE DEF h
    <3>5. line[a + h - 1] = p[k][h]
      BY <1>9, <3>4 DEF a, q
    <3>6. p[k][j + 1] = Dash
      BY <3>4, <3>5 DEF h
    <3>7. Uncut(p[k])
      BY <1>7
    <3> QED
      BY <3>1, <3>2, <3>4, <3>6, <3>7 DEF Uncut, q
  <2> QED
    BY <1>10, <2>1, <2>2
<1> QED
  BY <1>5, <1>12, <1>13 DEF IsLine

\* Lines with a hyphen before each, and a blank between any two.
LEMMA MessageIsCut ==
  ASSUME NEW message \in Seq(Symbols), NEW lines \in Seq(Seq(Symbols)), lines # <<>>,
         \A i \in 1 .. Len(lines) : IsLine(lines[i]),
         <<Blank>> \o message = FlattenSeq(Blanked([i \in 1 .. Len(lines) |->
                                                    <<Dash>> \o lines[i]]))
  PROVE  CommandLines(message) = lines
<1> DEFINE U == Symbols
<1> DEFINE m == Len(lines)
<1> DEFINE p == [i \in 1 .. m |-> <<Dash>> \o lines[i]]
<1>1. Blank \in U /\ Dash \in U /\ message \in Seq(U) /\ lines \in Seq(Seq(U)) /\ m \in Nat \ {0}
  <2>1. Blank \in U /\ Dash \in U
    BY DEF Symbols
  <2>2. m \in Nat \ {0}
    OBVIOUS
  <2> QED
    BY <2>1, <2>2
<1> HIDE DEF U
<1>2. \A i \in 1 .. m : lines[i] \in Seq(U)
  BY <1>1
<1>3. \A i \in 1 .. m :
        /\ <<Dash>> \o lines[i] \in Seq(U) /\ Len(<<Dash>> \o lines[i]) = Len(lines[i]) + 1
        /\ (<<Dash>> \o lines[i])[1] = Dash
        /\ \A j \in 1 .. Len(lines[i]) : (<<Dash>> \o lines[i])[j + 1] = lines[i][j]
  BY <1>1, <1>2, OneMore
<1>4. \A i \in 1 .. m : p[i] = <<Dash>> \o lines[i]
  OBVIOUS
<1>5. \A i \in 1 .. m : Hyphened(p[i], lines[i])
  BY <1>3, <1>4 DEF Hyphened, IsLine
<1>6. p \in Seq(Seq(U)) /\ Len(p) = m
  <2>1. \A i \in 1 .. m : p[i] \in Seq(U)
    BY <1>3, <1>4
  <2>2. p = [i \in 1 .. m |-> p[i]]
    OBVIOUS
  <2> DEFINE W == Seq(U)
  <2>3. m \in Nat /\ \A i \in 1 .. m : p[i] \in W
    BY <1>1, <2>1
  <2> HIDE DEF p, W, m
  <2>4. p \in Seq(W) /\ Len(p) = m
    BY ONLY <2>2, <2>3, ListIs
  <2> QED
    BY <2>4 DEF W
<1>7. <<Blank>> \o message = FlattenSeq(Blanked(p))
  OBVIOUS
<1> HIDE DEF p
<1>8. p # <<>>
  BY <1>1, <1>6
<1>9. PICK s : Laid(message, p, s)
  BY ONLY <1>1, <1>6, <1>7, <1>8, LaidOut
<1>10. Len(lines) = Len(p) /\ \A i \in 1 .. Len(p) : Hyphened(p[i], lines[i])
  BY <1>5, <1>6
<1> QED
  BY ONLY <1>1, <1>6, <1>8, <1>9, <1>10, LinesAreCut

-----------------------------------------------------------------------------
(* A command that is written for the daemon, and the message of a line of   *)
(* commands.                                                                *)

\* A word with its quotes escaped, and the same word when the quotes are back.
LEMMA EscapedIs ==
  ASSUME NEW word \in Word
  PROVE  LET r == replaceAll(word, Quote, Escaped)
         IN  /\ r \in Seq(Symbols) /\ Len(r) = Len(word) /\ word \in Seq(Symbols)
             /\ \A i \in 1 .. Len(word) : r[i] = IF word[i] = Quote THEN Escaped ELSE word[i]
             /\ replaceAll(r, Escaped, Quote) = word
<1> DEFINE r == replaceAll(word, Quote, Escaped)
<1> DEFINE n == Len(word)
<1>1. /\ word \in Seq(STRING) /\ n \in Nat /\ DOMAIN word = 1 .. n
      /\ word = [i \in 1 .. n |-> word[i]]
      /\ \A i \in 1 .. n : word[i] \in STRING /\ word[i] # Escaped
  <2>1. word \in Seq(STRING) /\ Escaped \notin ToSet(word)
    BY DEF Word
  <2>2. \A i \in DOMAIN word : word[i] # Escaped
    BY <2>1 DEF ToSet
  <2> QED
    BY <2>1, <2>2
<1>2. r = [i \in 1 .. n |-> IF word[i] = Quote THEN Escaped ELSE word[i]]
  BY <1>1 DEF replaceAll
<1> HIDE DEF r, n
<1>3. r = [i \in 1 .. n |-> r[i]]
      /\ \A i \in 1 .. n : r[i] = IF word[i] = Quote THEN Escaped ELSE word[i]
  BY <1>2
<1>4. \A i \in 1 .. n : r[i] \in Symbols /\ word[i] \in Symbols
  BY <1>1, <1>3 DEF Symbols
<1>5. r \in Seq(Symbols) /\ Len(r) = n /\ word \in Seq(Symbols)
  <2> DEFINE W == Symbols
  <2>1. n \in Nat /\ \A i \in 1 .. n : r[i] \in W /\ word[i] \in W
    BY <1>1, <1>4
  <2> HIDE DEF W
  <2>2. r \in Seq(W) /\ Len(r) = n
    BY ONLY <1>3, <2>1, ListIs
  <2>3. word \in Seq(W)
    BY ONLY <1>1, <2>1, ListIs
  <2> QED
    BY <2>2, <2>3 DEF W
<1>6. replaceAll(r, Escaped, Quote) = word
  <2>1. DOMAIN r = 1 .. n
    BY <1>3
  <2>2. \A i \in 1 .. n : (IF r[i] = Escaped THEN Quote ELSE r[i]) = word[i]
    BY <1>1, <1>3
  <2>3. replaceAll(r, Escaped, Quote) = [i \in 1 .. n |-> IF r[i] = Escaped THEN Quote ELSE r[i]]
    BY <2>1 DEF replaceAll
  <2>4. replaceAll(r, Escaped, Quote) = [i \in 1 .. n |-> word[i]]
    BY <2>2, <2>3
  <2> QED
    BY <1>1, <2>4
<1> QED
  BY <1>3, <1>5, <1>6 DEF r, n

\* What stands in quotes.
LEMMA InQuotesIs ==
  ASSUME NEW U, Quote \in U, NEW r \in Seq(U)
  PROVE  LET x == <<Quote>> \o r \o <<Quote>>
         IN  /\ x \in Seq(U) /\ Len(x) = Len(r) + 2 /\ x[1] = Quote /\ x[Len(x)] = Quote
             /\ \A i \in 1 .. Len(r) : x[i + 1] = r[i]
<1> DEFINE y == <<Quote>> \o r
<1> DEFINE n == Len(r)
<1>1. /\ y \in Seq(U) /\ Len(y) = n + 1 /\ y[1] = Quote /\ n \in Nat
      /\ \A i \in 1 .. n : y[i + 1] = r[i]
  BY OneMore
<1> HIDE DEF y, n
<1> DEFINE z == <<Quote>>
<1>2. z \in Seq(U) /\ Len(z) = 1 /\ z[1] = Quote
  OBVIOUS
<1> HIDE DEF z
<1>3. /\ y \o z \in Seq(U) /\ Len(y \o z) = n + 1 + 1
      /\ \A i \in 1 .. n + 1 : (y \o z)[i] = y[i]
      /\ (y \o z)[n + 1 + 1] = z[1]
  <2>1. y \o z \in Seq(U) /\ Len(y \o z) = Len(y) + Len(z)
    BY ONLY <1>1, <1>2, ConcatProperties
  <2>2. \A i \in 1 .. Len(y) + Len(z) : (y \o z)[i] = IF i <= Len(y) THEN y[i] ELSE z[i - Len(y)]
    BY ONLY <1>1, <1>2, ConcatProperties
  <2>3. \A i \in 1 .. n + 1 : i \in 1 .. Len(y) + Len(z) /\ i <= Len(y)
    BY <1>1, <1>2
  <2>4. n + 1 + 1 \in 1 .. Len(y) + Len(z) /\ ~(n + 1 + 1 <= Len(y)) /\ n + 1 + 1 - Len(y) = 1
    BY <1>1, <1>2
  <2> QED
    BY <1>1, <1>2, <2>1, <2>2, <2>3, <2>4
<1> DEFINE x == y \o z
<1> HIDE DEF x
<1>4. x \in Seq(U) /\ Len(x) = n + 2 /\ x[1] = Quote /\ x[Len(x)] = Quote
  <2>1. n + 1 + 1 = n + 2 /\ 1 \in 1 .. n + 1
    BY <1>1
  <2> QED
    BY <1>1, <1>2, <1>3, <2>1 DEF x
<1>5. \A i \in 1 .. n : x[i + 1] = r[i]
  <2>1. \A i \in 1 .. n : i + 1 \in 1 .. n + 1
    BY <1>1
  <2> QED
    BY <1>1, <1>3, <2>1 DEF x
<1> QED
  BY <1>4, <1>5 DEF x, y, z, n

\* A word in quotes is read as it is.
LEMMA QuotedFits ==
  ASSUME NEW word \in Word, ~TwoSymbols(word, Blank, Dash),
         ~(Len(word) = 1 /\ word[1] \in Characters)
  PROVE  LET r == replaceAll(word, Quote, Escaped)
         IN  /\ <<Quote>> \o r \o <<Quote>> \in Seq(Symbols)
             /\ Fits(<<Quote>> \o r \o <<Quote>>, r)
<1> DEFINE r == replaceAll(word, Quote, Escaped)
<1> DEFINE x == <<Quote>> \o r \o <<Quote>>
<1> DEFINE n == Len(word)
<1>1. /\ r \in Seq(Symbols) /\ Len(r) = n /\ n \in Nat
      /\ \A i \in 1 .. n : r[i] = IF word[i] = Quote THEN Escaped ELSE word[i]
  <2>1. Len(word) \in Nat
    BY DEF Word
  <2> QED
    BY <2>1, EscapedIs
<1>2. Quote \in Symbols
  BY DEF Symbols
<1> HIDE DEF r, n
<1>3. /\ x \in Seq(Symbols) /\ Len(x) = Len(r) + 2 /\ x[1] = Quote /\ x[Len(x)] = Quote
      /\ \A i \in 1 .. Len(r) : x[i + 1] = r[i]
  BY <1>1, <1>2, InQuotesIs
<1> HIDE DEF x
<1>4. \A i \in 1 .. n : r[i] # Quote
  BY <1>1 DEF Quote, Escaped
<1>5. ~(Len(r) = 1 /\ r[1] \in Characters)
  <2> SUFFICES ASSUME n = 1, r[1] \in Characters PROVE FALSE
    BY <1>1
  <2>1. 1 \in 1 .. n
    OBVIOUS
  <2>2. Escaped \notin Characters
    <3>1. Escaped \notin ToSet(Digits)
      <4>1. /\ Digits[1] = "0" /\ Digits[2] = "1" /\ Digits[3] = "2" /\ Digits[4] = "3"
            /\ Digits[5] = "4" /\ Digits[6] = "5" /\ Digits[7] = "6" /\ Digits[8] = "7"
            /\ Digits[9] = "8" /\ Digits[10] = "9" /\ DOMAIN Digits = 1 .. 10
        BY DEF Digits
      <4>2. \A i \in 1 .. 10 : \/ i = 1 \/ i = 2 \/ i = 3 \/ i = 4 \/ i = 5 \/ i = 6
                                \/ i = 7 \/ i = 8 \/ i = 9 \/ i = 10
        OBVIOUS
      <4>3. \A i \in 1 .. 10 : Digits[i] # Escaped
        BY <4>1, <4>2 DEF Escaped
      <4> QED
        BY <4>1, <4>3 DEF ToSet
    <3> QED
      BY <3>1 DEF Characters, Escaped, Blank, Dash, Quote
  <2>3. r[1] = word[1]
    BY <1>1, <2>1, <2>2
  <2> QED
    BY <2>3 DEF n
<1>6. Quotes(x, r)
  BY <1>1, <1>3, <1>4, <1>5 DEF Quotes
<1>7. ~TwoSymbols(r, Blank, Dash)
  <2> SUFFICES ASSUME NEW i \in 1 .. n - 1, r[i] = Blank, r[i + 1] = Dash PROVE FALSE
    BY <1>1 DEF TwoSymbols
  <2>1. i \in 1 .. n /\ i + 1 \in 1 .. n
    BY <1>1
  <2>2. word[i] = Blank /\ word[i + 1] = Dash
    BY <1>1, <2>1 DEF Blank, Dash, Escaped
  <2> QED
    BY <2>2 DEF TwoSymbols, n
<1>8. x[1] # Dash
  BY <1>3 DEF Quote, Dash
<1> QED
  BY <1>3, <1>6, <1>7, <1>8 DEF Fits, Spells, x, r

\* So is a word that needs no quotes.
LEMMA BareFits ==
  ASSUME NEW word \in Word, word[1] # Dash, ToSet(word) \cap {Blank, Quote} = {}
  PROVE  /\ replaceAll(word, Quote, Escaped) = word
         /\ word \in Seq(Symbols) /\ Fits(word, word)
<1> DEFINE r == replaceAll(word, Quote, Escaped)
<1> DEFINE n == Len(word)
<1>1. word \in Seq(STRING) /\ word # <<>>
  BY DEF Word
<1>2. \A i \in DOMAIN word : word[i] # Blank /\ word[i] # Quote
  BY DEF ToSet
<1>3. n \in Nat /\ n > 0 /\ DOMAIN word = 1 .. n /\ word = [i \in 1 .. n |-> word[i]]
  BY <1>1
<1>4. r = [i \in 1 .. n |-> word[i]]
  <2>1. r = [i \in 1 .. n |-> IF word[i] = Quote THEN Escaped ELSE word[i]]
    BY <1>3 DEF replaceAll
  <2>2. \A i \in 1 .. n : (IF word[i] = Quote THEN Escaped ELSE word[i]) = word[i]
    BY <1>2, <1>3
  <2> QED
    BY <2>1, <2>2
<1>5. Bare(word)
  <2>1. 1 \in DOMAIN word
    BY <1>3
  <2> QED
    BY <1>1, <1>2, <1>3, <2>1 DEF Bare
<1>6. ~TwoSymbols(word, Blank, Dash)
  <2> SUFFICES ASSUME NEW i \in 1 .. n - 1, word[i] = Blank PROVE FALSE
    BY DEF TwoSymbols
  <2>1. i \in DOMAIN word
    BY <1>3
  <2> QED
    BY <1>2, <2>1
<1>7. word \in Seq(Symbols)
  BY EscapedIs
<1> QED
  BY <1>3, <1>4, <1>5, <1>6, <1>7 DEF Fits, Spells

\* A blank, a piece, and the others.
LEMMA BlankedMore ==
  ASSUME NEW U, Blank \in U, NEW x \in Seq(U), NEW q \in Seq(Seq(U))
  PROVE  /\ Blanked(<<x>> \o q) \in Seq(Seq(U)) /\ FlattenSeq(Blanked(q)) \in Seq(U)
         /\ FlattenSeq(Blanked(<<x>> \o q)) = <<Blank>> \o (x \o FlattenSeq(Blanked(q)))
<1> DEFINE W == Seq(U)
<1> DEFINE n == Len(q)
<1> DEFINE b == <<Blank>>
<1>0. b \in Seq(U) /\ n \in Nat /\ DOMAIN q = 1 .. n /\ \A i \in 1 .. n : q[i] \in Seq(U)
  OBVIOUS
<1>1. \A y \in Seq(U) : b \o y \in W
  BY <1>0
<1>2. Blanked(q) = [i \in 1 .. n |-> b \o q[i]]
  BY <1>0 DEF Blanked
<1>3. Blanked(q) \in Seq(W) /\ Len(Blanked(q)) = n
  <2> DEFINE u == Blanked(q)
  <2>1. u = [i \in 1 .. n |-> u[i]] /\ \A i \in 1 .. n : u[i] \in W
    BY <1>0, <1>1, <1>2
  <2> HIDE DEF u, W, n
  <2>2. u \in Seq(W) /\ Len(u) = n
    BY ONLY <1>0, <2>1, ListIs
  <2> QED
    BY <2>2 DEF u
<1> DEFINE h == <<b \o x>>
<1> DEFINE g == <<x>> \o q
<1>4. /\ Len(g) = n + 1 /\ DOMAIN g = 1 .. n + 1 /\ g[1] = x /\ \A i \in 1 .. n : g[i + 1] = q[i]
  <2>1. x \in W /\ q \in Seq(W)
    OBVIOUS
  <2> HIDE DEF W
  <2>2. g \in Seq(W) /\ Len(g) = Len(q) + 1 /\ g[1] = x /\ \A i \in 1 .. Len(q) : g[i + 1] = q[i]
    BY <2>1, OneMore
  <2> QED
    BY <2>2
<1>5. h \in Seq(W) /\ Len(h) = 1 /\ h[1] = b \o x
  BY <1>0, <1>1
<1>6. Blanked(g) = h \o Blanked(q)
  <2> DEFINE u == Blanked(g)
  <2> DEFINE v == Blanked(q)
  <2> DEFINE hv == <<b \o x>> \o v
  <2>1. u = [i \in 1 .. n + 1 |-> b \o g[i]] /\ \A i \in 1 .. n + 1 : u[i] = b \o g[i]
    BY <1>4 DEF Blanked
  <2>2. b \o x \in W /\ v \in Seq(W) /\ Len(v) = n /\ \A i \in 1 .. n : v[i] = b \o q[i]
    BY <1>0, <1>1, <1>2, <1>3
  <2>3. \A i \in 1 .. n + 1 : b \o g[i] \in W
    <3> SUFFICES ASSUME NEW i \in 1 .. n + 1 PROVE g[i] \in Seq(U)
      BY <1>1
    <3> DEFINE j == i - 1
    <3>1. i = 1 \/ (j \in 1 .. n /\ j + 1 = i)
      BY <1>0
    <3> HIDE DEF j, g
    <3> QED
      BY <1>0, <1>4, <3>1
  <2> HIDE DEF b, g, v, W, n
  <2>4. hv \in Seq(W) /\ Len(hv) = n + 1 /\ hv[1] = b \o x /\ \A i \in 1 .. n : hv[i + 1] = v[i]
    BY <2>2, OneMore
  <2>5. u \in Seq(W) /\ Len(u) = n + 1
    <3> DEFINE m == n + 1
    <3>1. m \in Nat /\ u = [i \in 1 .. m |-> u[i]] /\ \A i \in 1 .. m : u[i] \in W
      BY <1>0, <2>1, <2>3
    <3> HIDE DEF m, u
    <3>2. u \in Seq(W) /\ Len(u) = m
      BY ONLY <3>1, ListIs
    <3> QED
      BY <3>2 DEF m
  <2>6. \A i \in 1 .. n + 1 : u[i] = hv[i]
    <3> SUFFICES ASSUME NEW i \in 1 .. n + 1 PROVE u[i] = hv[i]
      OBVIOUS
    <3> DEFINE j == i - 1
    <3>1. i = 1 \/ (j \in 1 .. n /\ j + 1 = i)
      BY <1>0
    <3> HIDE DEF j, u, hv
    <3>2. CASE i = 1
      BY <1>4, <2>1, <2>4, <3>2
    <3>3. CASE j \in 1 .. n /\ j + 1 = i
      <4>1. u[i] = b \o g[i] /\ g[j + 1] = q[j] /\ hv[j + 1] = v[j] /\ v[j] = b \o q[j]
        BY <1>4, <2>1, <2>2, <2>4, <3>3
      <4> QED
        BY <3>3, <4>1
    <3> QED
      BY <3>1, <3>2, <3>3
  <2> HIDE DEF u, hv
  <2>7. u = hv
    <3>1. Len(u) = Len(hv) /\ \A i \in 1 .. Len(u) : u[i] = hv[i]
      BY <2>4, <2>5, <2>6
    <3> QED
      BY <2>4, <2>5, <3>1, SeqEqual
  <2> QED
    BY <2>7 DEF u, hv, v
<1>7. FlattenSeq(h \o Blanked(q)) = FlattenSeq(h) \o FlattenSeq(Blanked(q))
  <2>1. h \in Seq(Seq(U)) /\ Blanked(q) \in Seq(Seq(U))
    BY <1>3, <1>5
  <2> HIDE DEF h, W
  <2> QED
    BY <2>1, FlattenConcat
<1>8. FlattenSeq(h) = b \o x
  <2>1. b \o x \in Seq(U)
    BY <1>0
  <2> HIDE DEF b
  <2> QED
    BY <2>1, FlattenOne
<1>9. FlattenSeq(Blanked(q)) \in Seq(U)
  BY <1>3, FlattenType
<1>10. (b \o x) \o FlattenSeq(Blanked(q)) = b \o (x \o FlattenSeq(Blanked(q)))
  <2> HIDE DEF b
  <2> QED
    BY <1>0, <1>9, Associative
<1>11. h \o Blanked(q) \in Seq(W)
  <2> HIDE DEF h, W
  <2> QED
    BY <1>3, <1>5
<1> QED
  BY <1>6, <1>7, <1>8, <1>9, <1>10, <1>11

\* A line of a first word and more.
LEMMA LineOfPieces ==
  ASSUME NEW x \in Seq(Symbols), NEW word \in Seq(Symbols), Fits(x, word),
         NEW q \in Seq(Seq(Symbols)), NEW v \in Seq(Seq(Symbols)), Len(q) = Len(v),
         \A k \in 1 .. Len(q) : Fits(q[k], v[k])
  PROVE  /\ FlattenSeq(Blanked(q)) \in Seq(Symbols)
         /\ x \o FlattenSeq(Blanked(q)) \in Seq(Symbols) /\ <<word>> \o v \in Seq(Seq(Symbols))
         /\ LineSays(x \o FlattenSeq(Blanked(q)), <<word>> \o v)
<1> DEFINE U == Symbols
<1> DEFINE W == Seq(U)
<1> DEFINE p == <<x>> \o q
<1> DEFINE w == <<word>> \o v
<1> DEFINE n == Len(q)
<1>1. Blank \in U
  BY DEF Symbols
<1>2. /\ x \in W /\ q \in Seq(W) /\ word \in W /\ v \in Seq(W) /\ n \in Nat /\ Len(v) = n
  OBVIOUS
<1>3. \A k \in 1 .. n : Fits(q[k], v[k])
  OBVIOUS
<1>4. FlattenSeq(Blanked(q)) \in Seq(U)
      /\ FlattenSeq(Blanked(p)) = <<Blank>> \o (x \o FlattenSeq(Blanked(q)))
  <2>1. x \in Seq(U) /\ q \in Seq(Seq(U))
    OBVIOUS
  <2> HIDE DEF U
  <2> QED
    BY <1>1, <2>1, BlankedMore
<1>5. x \o FlattenSeq(Blanked(q)) \in Seq(U)
  BY <1>4
<1> HIDE DEF n
<1>6. /\ p \in Seq(W) /\ Len(p) = n + 1 /\ p[1] = x /\ \A i \in 1 .. n : p[i + 1] = q[i]
      /\ w \in Seq(W) /\ Len(w) = n + 1 /\ w[1] = word /\ \A i \in 1 .. n : w[i + 1] = v[i]
  <2> HIDE DEF W
  <2>1. /\ p \in Seq(W) /\ Len(p) = Len(q) + 1 /\ p[1] = x /\ \A i \in 1 .. Len(q) : p[i + 1] = q[i]
    BY ONLY <1>2, OneMore
  <2>2. /\ w \in Seq(W) /\ Len(w) = Len(v) + 1 /\ w[1] = word
             /\ \A i \in 1 .. Len(v) : w[i + 1] = v[i]
    BY ONLY <1>2, OneMore
  <2>3. Len(q) = n /\ Len(v) = n
    BY <1>2 DEF n
  <2> QED
    BY ONLY <2>1, <2>2, <2>3
<1> HIDE DEF p, w
<1>7. \A k \in 1 .. Len(p) : Fits(p[k], w[k])
  <2> SUFFICES ASSUME NEW k \in 1 .. n + 1 PROVE Fits(p[k], w[k])
    BY <1>6
  <2> DEFINE j == k - 1
  <2>1. k = 1 \/ (j \in 1 .. n /\ j + 1 = k)
    BY <1>2
  <2> HIDE DEF j
  <2>2. CASE k = 1
    BY <1>6, <2>2
  <2>3. CASE j \in 1 .. n /\ j + 1 = k
    <3>1. Fits(q[j], v[j]) /\ p[j + 1] = q[j] /\ w[j + 1] = v[j]
      BY <1>3, <1>6, <2>3
    <3> QED
      BY <2>3, <3>1
  <2> QED
    BY <2>1, <2>2, <2>3
<1>8. Len(p) = Len(w) /\ p # <<>>
  BY <1>2, <1>6
<1>9. LineSays(x \o FlattenSeq(Blanked(q)), w)
  BY <1>4, <1>6, <1>7, <1>8 DEF LineSays
<1> QED
  BY <1>4, <1>5, <1>6, <1>9 DEF w

\* The words of a command as they are written, and as they are read while their quotes are
\* out of the way.
SpelledOut(c, i) ==
    LET text == replaceAll((c.args \o c.to)[i], Quote, Escaped)
    IN  IF InQuotes(c, i) THEN <<Quote>> \o text \o <<Quote>> ELSE text

WrittenWords(c) == [i \in DOMAIN (c.args \o c.to) |-> SpelledOut(c, i)]

EscapedWords(c) ==
    [i \in DOMAIN (c.args \o c.to) |-> replaceAll((c.args \o c.to)[i], Quote, Escaped)]

LineOfCommand(c) == <<c.name>> \o FlattenSeq(Blanked(WrittenWords(c)))

WordsOfCommand(c) == <<<<c.name>>>> \o (c.args \o c.to)

\* The name of a command stands as it is.
LEMMA NameFits ==
  ASSUME NEW name \in DOMAIN Arity
  PROVE  /\ name \in Symbols /\ name # Escaped /\ Fits(<<name>>, <<name>>)
<1>1. name \notin {Blank, Dash, Quote, Escaped}
  BY DEF Arity, Blank, Dash, Quote, Escaped
<1>2. Bare(<<name>>) /\ ~TwoSymbols(<<name>>, Blank, Dash)
  BY <1>1 DEF Bare, TwoSymbols
<1> QED
  BY <1>1, <1>2 DEF Fits, Spells, Symbols

\* The words of a command of the user.
LEMMA WordsAre ==
  ASSUME NEW c \in Command
  PROVE  /\ c.args \o c.to \in Seq(Word) /\ c.name \in DOMAIN Arity
         /\ \A i \in DOMAIN (c.args \o c.to) : (c.args \o c.to)[i] \in Word
         /\ DOMAIN (c.args \o c.to) = 1 .. Len(c.args \o c.to) /\ Len(c.args \o c.to) \in Nat
         /\ c.args \in Seq(Word) /\ c.to \in Seq(Word)
<1>1. c.args \in Seq(Word) /\ c.to \in Seq(Word) /\ c.name \in DOMAIN Arity
  BY DEF Command
<1> DEFINE u == c.args \o c.to
<1>2. u \in Seq(Word)
  BY <1>1
<1> HIDE DEF u
<1>3. (\A i \in DOMAIN u : u[i] \in Word) /\ DOMAIN u = 1 .. Len(u) /\ Len(u) \in Nat
  BY <1>2
<1> QED
  BY <1>1, <1>2, <1>3 DEF u

\* The line of a command says its words.
LEMMA CommandIsSaid ==
  ASSUME NEW c \in Command, DaemonUnderstands(c)
  PROVE  /\ FlattenSeq(Blanked(WrittenWords(c))) \in Seq(Symbols)
         /\ LineOfCommand(c) \in Seq(Symbols) /\ IsLine(LineOfCommand(c))
         /\ WordsOf(LineOfCommand(c)) = WordsOfCommand(c)
<1> DEFINE u == c.args \o c.to
<1> DEFINE n == Len(u)
<1> DEFINE q == WrittenWords(c)
<1> DEFINE v == EscapedWords(c)
<1>1. /\ u \in Seq(Word) /\ DOMAIN u = 1 .. n /\ n \in Nat /\ c.name \in DOMAIN Arity
      /\ \A i \in 1 .. n : u[i] \in Word
  BY WordsAre
<1>2. \A i \in 1 .. n :
        /\ ~TwoSymbols(u[i], Blank, Dash)
        /\ ~(InQuotes(c, i) /\ Len(u[i]) = 1 /\ u[i][1] \in Characters)
  BY <1>1 DEF DaemonUnderstands
<1>3. \A i \in 1 .. n : ~InQuotes(c, i) => u[i][1] # Dash /\ ToSet(u[i]) \cap {Blank, Quote} = {}
  BY DEF InQuotes
<1>4. \A i \in 1 .. n : q[i] = IF InQuotes(c, i)
                              THEN <<Quote>> \o replaceAll(u[i], Quote, Escaped) \o <<Quote>>
                              ELSE replaceAll(u[i], Quote, Escaped)
  BY <1>1 DEF WrittenWords, SpelledOut
<1>5. \A i \in 1 .. n : v[i] = replaceAll(u[i], Quote, Escaped)
  BY <1>1 DEF EscapedWords
<1>6. q = [i \in 1 .. n |-> q[i]] /\ v = [i \in 1 .. n |-> v[i]]
  BY <1>1 DEF WrittenWords, EscapedWords
<1> HIDE DEF u, n, q, v
<1>7. \A i \in 1 .. n : q[i] \in Seq(Symbols) /\ v[i] \in Seq(Symbols) /\ Fits(q[i], v[i])
  <2> SUFFICES ASSUME NEW i \in 1 .. n
               PROVE  q[i] \in Seq(Symbols) /\ v[i] \in Seq(Symbols) /\ Fits(q[i], v[i])
    OBVIOUS
  <2> DEFINE word == u[i]
  <2> DEFINE r == replaceAll(word, Quote, Escaped)
  <2>1. word \in Word /\ v[i] = r
    BY <1>1, <1>5
  <2> HIDE DEF word
  <2>2. r \in Seq(Symbols)
    BY <2>1, EscapedIs
  <2>3. CASE InQuotes(c, i)
    <3>1. q[i] = <<Quote>> \o r \o <<Quote>>
      BY <1>4, <2>3 DEF word
    <3>2. ~TwoSymbols(word, Blank, Dash) /\ ~(Len(word) = 1 /\ word[1] \in Characters)
      BY <1>2, <2>3 DEF word
    <3>3. <<Quote>> \o r \o <<Quote>> \in Seq(Symbols) /\ Fits(<<Quote>> \o r \o <<Quote>>, r)
      BY <2>1, <3>2, QuotedFits
    <3> QED
      BY <2>1, <2>2, <3>1, <3>3
  <2>4. CASE ~InQuotes(c, i)
    <3>1. q[i] = r
      BY <1>4, <2>4 DEF word
    <3>2. word[1] # Dash /\ ToSet(word) \cap {Blank, Quote} = {}
      BY <1>3, <2>4 DEF word
    <3>3. r = word /\ Fits(word, word)
      BY <2>1, <3>2, BareFits
    <3> QED
      BY <2>1, <2>2, <3>1, <3>3
  <2> QED
    BY <2>3, <2>4
<1> DEFINE W == Seq(Symbols)
<1>8. q \in Seq(W) /\ Len(q) = n /\ v \in Seq(W) /\ Len(v) = n
  <2>1. \A i \in 1 .. n : q[i] \in W /\ v[i] \in W
    BY <1>7
  <2> HIDE DEF W
  <2>2. q \in Seq(W) /\ Len(q) = n
    BY ONLY <1>1, <1>6, <2>1, ListIs
  <2>3. v \in Seq(W) /\ Len(v) = n
    BY ONLY <1>1, <1>6, <2>1, ListIs
  <2> QED
    BY <2>2, <2>3
<1> DEFINE x == <<c.name>>
<1> DEFINE line == x \o FlattenSeq(Blanked(q))
<1> DEFINE w == <<x>> \o v
<1>9. x \in Seq(Symbols) /\ Fits(x, x) /\ c.name # Escaped
  <2>1. c.name \in Symbols
    BY <1>1, NameFits
  <2> QED
    BY <1>1, <2>1, NameFits
<1>10. /\ FlattenSeq(Blanked(q)) \in Seq(Symbols)
       /\ line \in Seq(Symbols) /\ w \in Seq(W) /\ LineSays(line, w)
  <2>1. \A k \in 1 .. Len(q) : Fits(q[k], v[k])
    BY <1>7, <1>8
  <2>2. Len(q) = Len(v)
    BY <1>8
  <2> HIDE DEF x
  <2> QED
    BY <1>8, <1>9, <2>1, <2>2, LineOfPieces
<1>11. LineOfCommand(c) = line
  BY DEF LineOfCommand, q
<1> HIDE DEF line
<1>12. stringsplit(line) = w /\ IsLine(line)
  <2> HIDE DEF w
  <2> QED
    BY <1>10, LineIsRead
<1>13. /\ Len(w) = n + 1 /\ DOMAIN w = 1 .. n + 1 /\ w[1] = x /\ \A i \in 1 .. n : w[i + 1] = v[i]
  <2>1. x \in W
    BY <1>9
  <2> HIDE DEF x, W
  <2>2. w \in Seq(W) /\ Len(w) = Len(v) + 1 /\ w[1] = x /\ \A i \in 1 .. Len(v) : w[i + 1] = v[i]
    BY ONLY <1>8, <2>1, OneMore
  <2>3. DOMAIN w = 1 .. Len(w)
    BY <2>2
  <2> QED
    BY <1>8, <2>2, <2>3
<1> DEFINE z == <<x>> \o u
<1>14. /\ Len(z) = n + 1 /\ z = [i \in 1 .. n + 1 |-> z[i]] /\ z[1] = x
            /\ \A i \in 1 .. n : z[i + 1] = u[i]
  <2> DEFINE V == Word \cup {x}
  <2>1. x \in V /\ u \in Seq(V)
    BY <1>1
  <2> HIDE DEF V, x
  <2>2. z \in Seq(V) /\ Len(z) = Len(u) + 1 /\ z[1] = x /\ \A i \in 1 .. Len(u) : z[i + 1] = u[i]
    BY ONLY <2>1, OneMore
  <2>3. z = [i \in 1 .. Len(z) |-> z[i]]
    BY <2>2
  <2> QED
    BY <2>2, <2>3 DEF n
<1>15. \A i \in 1 .. n + 1 : replaceAll(w[i], Escaped, Quote) = z[i]
  <2> SUFFICES ASSUME NEW i \in 1 .. n + 1 PROVE replaceAll(w[i], Escaped, Quote) = z[i]
    OBVIOUS
  <2> DEFINE j == i - 1
  <2>1. i = 1 \/ (j \in 1 .. n /\ j + 1 = i)
    BY <1>1
  <2> HIDE DEF j
  <2>2. CASE i = 1
    <3>1. replaceAll(x, Escaped, Quote) = x
      BY <1>9 DEF replaceAll
    <3> QED
      BY <1>13, <1>14, <2>2, <3>1
  <2>3. CASE j \in 1 .. n /\ j + 1 = i
    <3>1. w[i] = replaceAll(u[j], Quote, Escaped) /\ z[i] = u[j]
      BY <1>5, <1>13, <1>14, <2>3
    <3>2. u[j] \in Word
      BY <1>1, <2>3
    <3>3. replaceAll(replaceAll(u[j], Quote, Escaped), Escaped, Quote) = u[j]
      BY <3>2, EscapedIs
    <3> QED
      BY <3>1, <3>3
  <2> QED
    BY <2>1, <2>2, <2>3
<1> HIDE DEF w, z
<1>16. WordsOf(line) = z
  <2>1. WordsOf(line) = [i \in 1 .. n + 1 |-> replaceAll(w[i], Escaped, Quote)]
    BY <1>12, <1>13 DEF WordsOf
  <2>2. WordsOf(line) = [i \in 1 .. n + 1 |-> z[i]]
    BY <1>15, <2>1
  <2> QED
    BY <1>14, <2>2
<1>17. z = WordsOfCommand(c)
  BY DEF z, WordsOfCommand, u
<1> QED
  BY <1>10, <1>11, <1>12, <1>16, <1>17 DEF q

\* A blank between any two is a blank before each but the first.
LEMMA BlankBetween ==
  ASSUME NEW U, Blank \in U, NEW p \in Seq(Seq(U)), p # <<>>
  PROVE  LET e == [i \in 1 .. Len(p) |-> IF i = 1 THEN p[i] ELSE <<Blank>> \o p[i]]
         IN  /\ FlattenSeq(e) \in Seq(U)
             /\ <<Blank>> \o FlattenSeq(e) = FlattenSeq(Blanked(p))
<1> DEFINE W == Seq(U)
<1> DEFINE m == Len(p)
<1> DEFINE b == <<Blank>>
<1> DEFINE e == [i \in 1 .. m |-> IF i = 1 THEN p[i] ELSE b \o p[i]]
<1> DEFINE t == [i \in 1 .. m - 1 |-> b \o p[i + 1]]
<1>1. m \in Nat \ {0} /\ m - 1 \in Nat /\ b \in Seq(U) /\ DOMAIN p = 1 .. m
      /\ \A i \in 1 .. m : p[i] \in W
  <2>1. m \in Nat \ {0}
    OBVIOUS
  <2>2. m - 1 \in Nat
    BY <2>1
  <2> QED
    BY <2>1, <2>2
<1>2. \A y \in W : b \o y \in W
  BY <1>1
<1> HIDE DEF m, b, W
<1>3. e = [i \in 1 .. m |-> e[i]] /\ e[1] = p[1] /\ \A i \in 1 .. m : i # 1 => e[i] = b \o p[i]
  BY <1>1
<1>4. t = [i \in 1 .. m - 1 |-> t[i]] /\ \A i \in 1 .. m - 1 : t[i] = b \o p[i + 1]
  OBVIOUS
<1>5. Blanked(p) = [i \in 1 .. m |-> b \o p[i]]
  BY <1>1 DEF Blanked, b
<1> DEFINE u == Blanked(p)
<1>6. u = [i \in 1 .. m |-> u[i]] /\ \A i \in 1 .. m : u[i] = b \o p[i]
  BY <1>5
<1> HIDE DEF e, t, u
<1>7. 1 \in 1 .. m /\ \A i \in 1 .. m - 1 : i + 1 \in 1 .. m /\ i + 1 # 1
  BY <1>1
<1>8. t \in Seq(W) /\ Len(t) = m - 1
  <2> DEFINE k == m - 1
  <2>1. k \in Nat /\ t = [i \in 1 .. k |-> t[i]] /\ \A i \in 1 .. k : t[i] \in W
    <3>1. \A i \in 1 .. m - 1 : p[i + 1] \in W
      BY <1>1, <1>7
    <3> QED
      BY <1>1, <1>2, <1>4, <3>1
  <2> HIDE DEF k
  <2>2. t \in Seq(W) /\ Len(t) = k
    BY ONLY <2>1, ListIs
  <2> QED
    BY <2>2 DEF k
<1>9. e \in Seq(W) /\ Len(e) = m /\ u \in Seq(W) /\ Len(u) = m
  <2>1. \A i \in 1 .. m : e[i] \in W /\ u[i] \in W
    BY <1>1, <1>2, <1>3, <1>6
  <2>2. m \in Nat
    BY <1>1
  <2>3. e \in Seq(W) /\ Len(e) = m
    BY ONLY <1>3, <2>1, <2>2, ListIs
  <2>4. u \in Seq(W) /\ Len(u) = m
    BY ONLY <1>6, <2>1, <2>2, ListIs
  <2> QED
    BY <2>3, <2>4
<1>10. ASSUME NEW s \in Seq(W), Len(s) = m, \A i \in 1 .. m - 1 : s[i + 1] = t[i]
       PROVE  s = <<s[1]>> \o t
  <2> DEFINE z == <<s[1]>> \o t
  <2>1. s[1] \in W
    BY <1>7, <1>10
  <2>2. z \in Seq(W) /\ Len(z) = Len(t) + 1 /\ z[1] = s[1] /\ \A i \in 1 .. Len(t) : z[i + 1] = t[i]
    BY <1>8, <2>1, OneMore
  <2> HIDE DEF z
  <2>3. Len(z) = Len(s)
    BY <1>1, <1>8, <1>10, <2>2
  <2>4. \A i \in 1 .. Len(s) : s[i] = z[i]
    <3> SUFFICES ASSUME NEW i \in 1 .. m PROVE s[i] = z[i]
      BY <1>10
    <3> DEFINE j == i - 1
    <3>1. i = 1 \/ (j \in 1 .. m - 1 /\ j + 1 = i)
      BY <1>1
    <3> HIDE DEF j
    <3>2. CASE j \in 1 .. m - 1 /\ j + 1 = i
      BY <1>8, <1>10, <2>2, <3>2
    <3> QED
      BY <2>2, <3>1, <3>2
  <2>5. s = z
    BY <1>10, <2>2, <2>3, <2>4, SeqEqual
  <2> QED
    BY <2>5 DEF z
<1>11. e = <<p[1]>> \o t
  <2>1. \A i \in 1 .. m - 1 : e[i + 1] = t[i]
    BY <1>3, <1>4, <1>7
  <2> QED
    BY <1>3, <1>9, <1>10, <2>1
<1>12. u = <<b \o p[1]>> \o t
  <2>1. \A i \in 1 .. m - 1 : u[i + 1] = t[i]
    BY <1>4, <1>6, <1>7
  <2>2. u[1] = b \o p[1]
    BY <1>6, <1>7
  <2> QED
    BY <1>9, <1>10, <2>1, <2>2
<1>13. ASSUME NEW x \in W PROVE FlattenSeq(<<x>> \o t) = x \o FlattenSeq(t)
  <2>1. <<x>> \in Seq(Seq(U)) /\ t \in Seq(Seq(U)) /\ x \in Seq(U)
    BY <1>8, <1>13 DEF W
  <2>2. FlattenSeq(<<x>>) = x
    BY <2>1, FlattenOne
  <2>3. FlattenSeq(<<x>> \o t) = FlattenSeq(<<x>>) \o FlattenSeq(t)
    BY <2>1, FlattenConcat
  <2> QED
    BY <2>2, <2>3
<1>14. p[1] \in Seq(U) /\ FlattenSeq(t) \in Seq(U) /\ FlattenSeq(e) \in Seq(U) /\ b \in Seq(U)
  BY <1>1, <1>7, <1>8, <1>9, FlattenType DEF W
<1>15. FlattenSeq(e) = p[1] \o FlattenSeq(t)
  BY <1>11, <1>13, <1>14 DEF W
<1>16. FlattenSeq(u) = (b \o p[1]) \o FlattenSeq(t)
  <2>1. b \o p[1] \in W
    BY <1>1, <1>2, <1>7
  <2> QED
    BY <1>12, <1>13, <2>1
<1>17. b \o FlattenSeq(e) = FlattenSeq(u)
  <2>1. (b \o p[1]) \o FlattenSeq(t) = b \o (p[1] \o FlattenSeq(t))
    <3> DEFINE g == p[1]
    <3> DEFINE f == FlattenSeq(t)
    <3>1. b \in Seq(U) /\ g \in Seq(U) /\ f \in Seq(U)
      BY <1>14
    <3> HIDE DEF g, f
    <3>2. (b \o g) \o f = b \o (g \o f)
      BY ONLY <3>1, Associative
    <3> QED
      BY <3>2 DEF g, f
  <2> QED
    BY <1>15, <1>16, <2>1
<1> QED
  BY <1>14, <1>17 DEF e, u, b, m

\* What is written for a command: a hyphen and its line.
LEMMA MessageIs ==
  ASSUME NEW line \in Seq(Command), All(line, DaemonUnderstands)
  PROVE  Message(line)
           = FlattenSeq([i \in 1 .. Len(line) |-> IF i = 1 THEN <<Dash>> \o LineOfCommand(line[i])
                                      ELSE <<Blank>> \o (<<Dash>> \o LineOfCommand(line[i]))])
<1> DEFINE text(c) == <<Dash, c.name>> \o FlattenSeq(Blanked(WrittenWords(c)))
<1>1. Message(line) = FlattenSeq([i \in DOMAIN line |-> IF i = 1 THEN text(line[i])
                                                       ELSE <<Blank>> \o text(line[i])])
  <2> DEFINE word(c, i) == <<Blank>> \o (IF InQuotes(c, i)
                                         THEN <<Quote>>
                                                \o replaceAll((c.args \o c.to)[i], Quote, Escaped)
                                                \o <<Quote>>
                                         ELSE replaceAll((c.args \o c.to)[i], Quote, Escaped))
  <2> DEFINE spelled(c) ==
                 <<Dash, c.name>> \o FlattenSeq([i \in DOMAIN (c.args \o c.to) |-> word(c, i)])
  <2>1. Message(line) = FlattenSeq([i \in DOMAIN line |-> IF i = 1 THEN spelled(line[i])
                                                         ELSE <<Blank>> \o spelled(line[i])])
    BY DEF Message
  <2>2. ASSUME NEW c PROVE spelled(c) = text(c)
    <3>1. Blanked(WrittenWords(c)) = [i \in DOMAIN (c.args \o c.to) |->
                                         <<Blank>> \o SpelledOut(c, i)]
      BY DEF Blanked, WrittenWords
    <3>2. \A i \in DOMAIN (c.args \o c.to) : <<Blank>> \o SpelledOut(c, i) = word(c, i)
      BY DEF SpelledOut
    <3>3. Blanked(WrittenWords(c)) = [i \in DOMAIN (c.args \o c.to) |-> word(c, i)]
      BY <3>1, <3>2
    <3> QED
      BY <3>3
  <2> HIDE DEF spelled, text
  <2> QED
    BY <2>1, <2>2
<1>2. ASSUME NEW i \in DOMAIN line PROVE text(line[i]) = <<Dash>> \o LineOfCommand(line[i])
  <2> DEFINE c == line[i]
  <2>1. c \in Command /\ DaemonUnderstands(c)
    BY DEF All
  <2> DEFINE f == FlattenSeq(Blanked(WrittenWords(c)))
  <2> DEFINE name == c.name
  <2>2. f \in Seq(Symbols) /\ name \in Symbols
    BY <2>1, CommandIsSaid, WordsAre, NameFits
  <2> HIDE DEF f, name
  <2> DEFINE U == Symbols
  <2>6. Dash \in U
    BY DEF Symbols
  <2>3. <<Dash>> \in Seq(U) /\ <<name>> \in Seq(U) /\ f \in Seq(U)
    BY <2>2, <2>6
  <2>4. <<Dash, name>> = <<Dash>> \o <<name>>
    BY PairIs
  <2> HIDE DEF U
  <2>5. (<<Dash>> \o <<name>>) \o f = <<Dash>> \o (<<name>> \o f)
    BY <2>3, Associative
  <2> QED
    BY <2>4, <2>5 DEF f, name, LineOfCommand
<1>3. DOMAIN line = 1 .. Len(line)
  OBVIOUS
<1> HIDE DEF text
<1> QED
  BY <1>1, <1>2, <1>3

\* The lines of a message are those of its commands.
LEMMA MessageIsRead ==
  ASSUME NEW line \in Seq(Command), All(line, DaemonUnderstands)
  PROVE  CommandLines(Message(line)) = [i \in 1 .. Len(line) |-> LineOfCommand(line[i])]
<1> DEFINE m == Len(line)
<1> DEFINE ls == [i \in 1 .. m |-> LineOfCommand(line[i])]
<1>1. m \in Nat /\ \A i \in 1 .. m : LineOfCommand(line[i]) \in Seq(Symbols)
      /\ IsLine(LineOfCommand(line[i]))
  <2>1. \A i \in 1 .. m : line[i] \in Command /\ DaemonUnderstands(line[i])
    BY DEF All
  <2> QED
    BY <2>1, CommandIsSaid
<1> DEFINE p == [i \in 1 .. m |-> <<Dash>> \o ls[i]]
<1>2. Message(line) = FlattenSeq([i \in 1 .. m |-> IF i = 1 THEN p[i] ELSE <<Blank>> \o p[i]])
  BY MessageIs
<1> HIDE DEF m
<1> DEFINE U == Symbols
<1> DEFINE W == Seq(U)
<1>3. ls \in Seq(W) /\ Len(ls) = m /\ \A i \in 1 .. m : ls[i] \in W /\ IsLine(ls[i])
  <2>1. ls = [i \in 1 .. m |-> ls[i]] /\ \A i \in 1 .. m : ls[i] \in W /\ IsLine(ls[i])
    BY <1>1
  <2> HIDE DEF ls, W
  <2>2. ls \in Seq(W) /\ Len(ls) = m
    BY ONLY <1>1, <2>1, ListIs
  <2> QED
    BY <2>1, <2>2
<1> HIDE DEF ls
<1>4. p \in Seq(W) /\ Len(p) = m
  <2>1. p = [i \in 1 .. m |-> p[i]] /\ \A i \in 1 .. m : p[i] \in W
    <3>1. <<Dash>> \in Seq(U)
      BY DEF Symbols
    <3>2. \A y \in Seq(U) : <<Dash>> \o y \in Seq(U)
      BY <3>1
    <3> HIDE DEF U
    <3> QED
      BY <1>3, <3>2
  <2> HIDE DEF p, W
  <2>2. p \in Seq(W) /\ Len(p) = m
    BY ONLY <1>1, <2>1, ListIs
  <2> QED
    BY <2>2
<1>5. CASE m = 0
  <2>1. Message(line) = <<>>
    <3> DEFINE e == [i \in 1 .. m |-> IF i = 1 THEN p[i] ELSE <<Blank>> \o p[i]]
    <3>1. e = [i \in 1 .. 0 |-> <<>>]
      BY <1>5
    <3>2. e \in Seq({<<>>})
      BY <3>1, EmptyLists
    <3> HIDE DEF e
    <3>3. FlattenSeq(e) = <<>>
      BY <3>2, FlattenEmpty
    <3> QED
      BY <1>2, <3>3 DEF e
  <2>2. CommandLines(<<>>) = <<>>
    <3>1. From(<<>>, FirstOf(WhereNot(<<>>, {Blank}), 1, <<>>)) = <<>>
      BY DEF From, FirstOf, WhereNot, Where
    <3> QED
      BY <3>1 DEF CommandLines
  <2>3. ls = <<>>
    BY <1>3, <1>5
  <2> QED
    BY <2>1, <2>2, <2>3 DEF ls, m
<1>6. CASE m # 0
  <2>1. p # <<>> /\ ls # <<>> /\ p \in Seq(Seq(U)) /\ Blank \in U
    BY <1>3, <1>4, <1>6 DEF Symbols
  <2> DEFINE e == [i \in 1 .. Len(p) |-> IF i = 1 THEN p[i] ELSE <<Blank>> \o p[i]]
  <2>2. FlattenSeq(e) \in Seq(U) /\ <<Blank>> \o FlattenSeq(e) = FlattenSeq(Blanked(p))
    <3> HIDE DEF p, U
    <3> QED
      BY <2>1, BlankBetween
  <2>3. Message(line) = FlattenSeq(e)
    BY <1>2, <1>4
  <2> HIDE DEF e
  <2>4. <<Blank>> \o Message(line) = FlattenSeq(Blanked([i \in 1 .. Len(ls) |-> <<Dash>> \o ls[i]]))
    BY <1>3, <2>2, <2>3
  <2>5. Message(line) \in Seq(Symbols) /\ ls \in Seq(Seq(Symbols))
    BY <1>3, <2>2, <2>3
  <2>6. \A i \in 1 .. Len(ls) : IsLine(ls[i])
    BY <1>3
  <2>7. CommandLines(Message(line)) = ls
    BY ONLY <2>1, <2>4, <2>5, <2>6, MessageIsCut
  <2> QED
    BY <2>7 DEF ls, m
<1> QED
  BY <1>5, <1>6 DEF m, ls

-----------------------------------------------------------------------------
(* What the daemon does with a command: by its name, one operator makes     *)
(* events of it, and by an event each display that is called is asked once. *)

\* The names of the commands each operator of the daemon makes events of.
DaemonFamily == {"daemon"}

PowerFamily == {"poweron", "poweroff", "screenon", "screenoff", "autoenable", "autodisable",
                "streaming_connect", "streaming_disconnect"}

HdmiFamily == {"sethdmi"}

SoundFamily == {"volume", "mute", "unmute"}

PanelFamily == {"servicemenu_tpc_enable", "servicemenu_tpc_disable", "servicemenu_gsr_enable",
                "servicemenu_gsr_disable"}

ButtonFamily == {"button"}

SettingsFamily == {"settings_picture", "settings_other", "settings_options"}

RequestFamily == {"request", "request_with_param"}

AppFamily == {"start_app", "start_app_with_param", "close_app"}

CurveFamily == {"set_curve_preset", "adjust_curve_preset"}

InputTypeFamily == {"set_input_type"}

\* The names of the commands it writes anew.
MenuFamily == {"freesyncinfo", "servicemenu", "servicemenu_legacy_enable",
               "servicemenu_legacy_disable"}

CurvatureFamily == {"set_curvature"}

\* A command has one name, if its first word is one symbol.
LEMMA NameIs ==
  ASSUME NEW words, NEW name, words[1] = <<name>>
  PROVE  /\ \A names : Is(words, names) <=> name \in names
         /\ Len(words[1]) = 1 /\ words[1][1] = name /\ words[1] # <<>>
  BY DEF Is

\* An operator makes nothing of a command with a name that is not its own.
LEMMA OthersGiveNothing ==
  ASSUME NEW words, NEW name, words[1] = <<name>>
  PROVE  /\ name \notin DaemonFamily => DaemonCommand(words) = <<>>
         /\ name \notin PowerFamily => PowerCommand(words) = <<>>
         /\ name \notin HdmiFamily => HdmiCommand(words) = <<>>
         /\ name \notin SoundFamily => SoundCommand(words) = <<>>
         /\ name \notin PanelFamily => PanelCommand(words) = <<>>
         /\ name \notin ButtonFamily => ButtonCommand(words) = <<>>
         /\ name \notin SettingsFamily => SettingsCommand(words) = <<>>
         /\ name \notin RequestFamily => RequestCommand(words) = <<>>
         /\ name \notin AppFamily => AppCommand(words) = <<>>
         /\ name \notin CurveFamily => CurveCommand(words) = <<>>
         /\ name \notin InputTypeFamily => InputTypeCommand(words) = <<>>
         /\ name \notin ApiCommands => TableCommand(words) = <<>>
         /\ name \notin MenuFamily => MenuMessages(words) = <<>>
         /\ name \notin CurvatureFamily => CurvatureMessages(words) = <<>>
<1>1. \A names : Is(words, names) <=> name \in names
  BY NameIs
<1>2. words[1] # <<>> /\ words[1][1] = name
  BY NameIs
<1>3. \A event : EventsIf(FALSE, event) = <<>>
  BY DEF EventsIf
<1>4. <<>> \o <<>> = <<>> /\ (<<>> \o <<>>) \o <<>> = <<>>
  OBVIOUS
<1>5. ASSUME name \notin DaemonFamily PROVE DaemonCommand(words) = <<>>
  <2>1. ~Is(words, {"daemon"})
    BY <1>1, <1>5 DEF DaemonFamily
  <2> QED
    BY <2>1 DEF DaemonCommand
<1>6. ASSUME name \notin PowerFamily PROVE PowerCommand(words) = <<>>
  <2>1. /\ ~Is(words, {"poweron", "poweroff", "screenon", "screenoff", "autoenable",
                       "autodisable"})
        /\ ~Is(words, {"streaming_connect", "streaming_disconnect"})
    <3>1. /\ name \notin {"poweron", "poweroff", "screenon", "screenoff", "autoenable",
                           "autodisable"}
          /\ name \notin {"streaming_connect", "streaming_disconnect"}
      BY ONLY <1>6 DEF PowerFamily
    <3> QED
      BY ONLY <1>1, <3>1
  <2> QED
    BY <1>4, <2>1 DEF PowerCommand, EventsIf
<1>7. ASSUME name \notin HdmiFamily PROVE HdmiCommand(words) = <<>>
  <2>1. words[1][1] # "sethdmi"
    <3>1. name # "sethdmi"
      BY ONLY <1>7 DEF HdmiFamily
    <3> QED
      BY ONLY <1>2, <3>1
  <2> QED
    BY <1>2, <2>1 DEF HdmiCommand, EventsIf
<1>8. ASSUME name \notin SoundFamily PROVE SoundCommand(words) = <<>>
  <2>1. ~Is(words, {"volume"}) /\ ~Is(words, {"mute"}) /\ ~Is(words, {"unmute"})
    BY <1>1, <1>8 DEF SoundFamily
  <2> QED
    BY <1>4, <2>1 DEF SoundCommand, EventsIf
<1>9. ASSUME name \notin PanelFamily PROVE PanelCommand(words) = <<>>
  <2>1. /\ ~Is(words, {"servicemenu_tpc_enable", "servicemenu_tpc_disable"})
        /\ ~Is(words, {"servicemenu_gsr_enable", "servicemenu_gsr_disable"})
    BY <1>1, <1>9 DEF PanelFamily
  <2> QED
    BY <1>4, <2>1 DEF PanelCommand, EventsIf
<1>10. name \notin ButtonFamily => ButtonCommand(words) = <<>>
  BY <1>1, <1>3 DEF ButtonCommand, ButtonFamily
<1>11. name \notin SettingsFamily => SettingsCommand(words) = <<>>
  BY <1>1, <1>3 DEF SettingsCommand, SettingsFamily
<1>12. name \notin RequestFamily => RequestCommand(words) = <<>>
  BY <1>1, <1>3, <1>4 DEF RequestCommand, RequestFamily
<1>13. name \notin AppFamily => AppCommand(words) = <<>>
  BY <1>1, <1>3, <1>4 DEF AppCommand, AppFamily
<1>14. name \notin CurveFamily => CurveCommand(words) = <<>>
  BY <1>1, <1>3, <1>4 DEF CurveCommand, CurveFamily
<1>15. name \notin InputTypeFamily => InputTypeCommand(words) = <<>>
  BY <1>1, <1>3 DEF InputTypeCommand, InputTypeFamily
<1>16. ASSUME name \notin ApiCommands PROVE TableCommand(words) = <<>>
  <2>1. ~Is(words, ApiCommands)
    BY <1>1, <1>16
  <2> QED
    BY <2>1 DEF TableCommand, EventsIf
<1>17. ASSUME name \notin MenuFamily PROVE MenuMessages(words) = <<>>
  <2>1. ~Is(words, {"freesyncinfo", "servicemenu", "servicemenu_legacy_enable",
                    "servicemenu_legacy_disable"})
    BY <1>1, <1>17 DEF MenuFamily
  <2> QED
    BY <2>1 DEF MenuMessages
<1>18. name \notin CurvatureFamily => CurvatureMessages(words) = <<>>
  BY <1>1 DEF CurvatureMessages, CurvatureFamily
<1> QED
  BY <1>5, <1>6, <1>7, <1>8, <1>9, <1>10, <1>11, <1>12, <1>13, <1>14, <1>15, <1>16, <1>17, <1>18

\* What an operator makes of a command with one of its names is all that the daemon makes of it.
LEMMA FamilyGivesAll ==
  ASSUME NEW words, NEW name, words[1] = <<name>>, NEW U
  PROVE  /\ name \in PowerFamily /\ PowerCommand(words) \in Seq(U)
            => EventsOf(words) = PowerCommand(words)
         /\ name \in HdmiFamily /\ HdmiCommand(words) \in Seq(U)
            => EventsOf(words) = HdmiCommand(words)
         /\ name \in SoundFamily /\ SoundCommand(words) \in Seq(U)
            => EventsOf(words) = SoundCommand(words)
         /\ name \in PanelFamily /\ PanelCommand(words) \in Seq(U)
            => EventsOf(words) = PanelCommand(words)
         /\ name \in ButtonFamily /\ ButtonCommand(words) \in Seq(U)
            => EventsOf(words) = ButtonCommand(words)
         /\ name \in SettingsFamily /\ SettingsCommand(words) \in Seq(U)
            => EventsOf(words) = SettingsCommand(words)
         /\ name \in RequestFamily /\ RequestCommand(words) \in Seq(U)
            => EventsOf(words) = RequestCommand(words)
         /\ name \in AppFamily /\ AppCommand(words) \in Seq(U)
            => EventsOf(words) = AppCommand(words)
         /\ name \in CurveFamily /\ CurveCommand(words) \in Seq(U)
            => EventsOf(words) = CurveCommand(words)
         /\ name \in InputTypeFamily /\ InputTypeCommand(words) \in Seq(U)
            => EventsOf(words) = InputTypeCommand(words)
         /\ name \in ApiCommands /\ TableCommand(words) \in Seq(U)
            => EventsOf(words) = TableCommand(words)
         /\ name \in MenuFamily \cup CurvatureFamily \cup {"output"} => EventsOf(words) = <<>>
<1> DEFINE a1 == DaemonCommand(words)
<1> DEFINE a2 == PowerCommand(words)
<1> DEFINE a3 == HdmiCommand(words)
<1> DEFINE a4 == SoundCommand(words)
<1> DEFINE a5 == PanelCommand(words)
<1> DEFINE a6 == ButtonCommand(words)
<1> DEFINE a7 == SettingsCommand(words)
<1> DEFINE a8 == RequestCommand(words)
<1> DEFINE a9 == AppCommand(words)
<1> DEFINE a10 == CurveCommand(words)
<1> DEFINE a11 == InputTypeCommand(words)
<1> DEFINE a12 == TableCommand(words)
<1> DEFINE S == Seq(U)
<1>1. <<>> \in S /\ <<>> \o <<>> = <<>> /\ \A a \in S : <<>> \o a = a /\ a \o <<>> = a
  OBVIOUS
<1>2. EventsOf(words)
        = a1 \o a2 \o a3 \o a4 \o a5 \o a6 \o a7 \o a8 \o a9 \o a10 \o a11 \o a12
  BY DEF EventsOf
<1> HIDE DEF S, a1, a2, a3, a4, a5, a6, a7, a8, a9, a10, a11, a12
<1>3. /\ name \notin DaemonFamily => a1 = <<>>
      /\ name \notin PowerFamily => a2 = <<>>
      /\ name \notin HdmiFamily => a3 = <<>>
      /\ name \notin SoundFamily => a4 = <<>>
      /\ name \notin PanelFamily => a5 = <<>>
      /\ name \notin ButtonFamily => a6 = <<>>
      /\ name \notin SettingsFamily => a7 = <<>>
      /\ name \notin RequestFamily => a8 = <<>>
      /\ name \notin AppFamily => a9 = <<>>
      /\ name \notin CurveFamily => a10 = <<>>
      /\ name \notin InputTypeFamily => a11 = <<>>
      /\ name \notin ApiCommands => a12 = <<>>
  BY OthersGiveNothing DEF a1, a2, a3, a4, a5, a6, a7, a8, a9, a10, a11, a12
<1>4. ASSUME name \in PowerFamily, PowerCommand(words) \in Seq(U)
      PROVE EventsOf(words) = PowerCommand(words)
  <2>1. /\ name \notin DaemonFamily /\ name \notin HdmiFamily /\ name \notin SoundFamily
        /\ name \notin PanelFamily /\ name \notin ButtonFamily /\ name \notin SettingsFamily
        /\ name \notin RequestFamily /\ name \notin AppFamily /\ name \notin CurveFamily
        /\ name \notin InputTypeFamily /\ name \notin ApiCommands
    BY ONLY <1>4 DEF DaemonFamily, PowerFamily, HdmiFamily, SoundFamily, PanelFamily, ButtonFamily,
           SettingsFamily, RequestFamily, AppFamily, CurveFamily, InputTypeFamily, ApiCommands
  <2>2. /\ a1 = <<>> /\ a3 = <<>> /\ a4 = <<>> /\ a5 = <<>> /\ a6 = <<>> /\ a7 = <<>>
        /\ a8 = <<>> /\ a9 = <<>> /\ a10 = <<>> /\ a11 = <<>> /\ a12 = <<>>
        /\ a2 \in S
    BY <1>3, <1>4, <2>1 DEF S, a2
  <2>3. EventsOf(words) = a2
    BY ONLY <1>1, <1>2, <2>2
  <2> QED
    BY <2>3 DEF a2
<1>5. ASSUME name \in HdmiFamily, HdmiCommand(words) \in Seq(U)
      PROVE EventsOf(words) = HdmiCommand(words)
  <2>1. /\ name \notin DaemonFamily /\ name \notin PowerFamily /\ name \notin SoundFamily
        /\ name \notin PanelFamily /\ name \notin ButtonFamily /\ name \notin SettingsFamily
        /\ name \notin RequestFamily /\ name \notin AppFamily /\ name \notin CurveFamily
        /\ name \notin InputTypeFamily /\ name \notin ApiCommands
    BY ONLY <1>5 DEF DaemonFamily, PowerFamily, HdmiFamily, SoundFamily, PanelFamily, ButtonFamily,
           SettingsFamily, RequestFamily, AppFamily, CurveFamily, InputTypeFamily, ApiCommands
  <2>2. /\ a1 = <<>> /\ a2 = <<>> /\ a4 = <<>> /\ a5 = <<>> /\ a6 = <<>> /\ a7 = <<>>
        /\ a8 = <<>> /\ a9 = <<>> /\ a10 = <<>> /\ a11 = <<>> /\ a12 = <<>>
        /\ a3 \in S
    BY <1>3, <1>5, <2>1 DEF S, a3
  <2>3. EventsOf(words) = a3
    BY ONLY <1>1, <1>2, <2>2
  <2> QED
    BY <2>3 DEF a3
<1>6. ASSUME name \in SoundFamily, SoundCommand(words) \in Seq(U)
      PROVE EventsOf(words) = SoundCommand(words)
  <2>1. /\ name \notin DaemonFamily /\ name \notin PowerFamily /\ name \notin HdmiFamily
        /\ name \notin PanelFamily /\ name \notin ButtonFamily /\ name \notin SettingsFamily
        /\ name \notin RequestFamily /\ name \notin AppFamily /\ name \notin CurveFamily
        /\ name \notin InputTypeFamily /\ name \notin ApiCommands
    BY ONLY <1>6 DEF DaemonFamily, PowerFamily, HdmiFamily, SoundFamily, PanelFamily, ButtonFamily,
           SettingsFamily, RequestFamily, AppFamily, CurveFamily, InputTypeFamily, ApiCommands
  <2>2. /\ a1 = <<>> /\ a2 = <<>> /\ a3 = <<>> /\ a5 = <<>> /\ a6 = <<>> /\ a7 = <<>>
        /\ a8 = <<>> /\ a9 = <<>> /\ a10 = <<>> /\ a11 = <<>> /\ a12 = <<>>
        /\ a4 \in S
    BY <1>3, <1>6, <2>1 DEF S, a4
  <2>3. EventsOf(words) = a4
    BY ONLY <1>1, <1>2, <2>2
  <2> QED
    BY <2>3 DEF a4
<1>7. ASSUME name \in PanelFamily, PanelCommand(words) \in Seq(U)
      PROVE EventsOf(words) = PanelCommand(words)
  <2>1. /\ name \notin DaemonFamily /\ name \notin PowerFamily /\ name \notin HdmiFamily
        /\ name \notin SoundFamily /\ name \notin ButtonFamily /\ name \notin SettingsFamily
        /\ name \notin RequestFamily /\ name \notin AppFamily /\ name \notin CurveFamily
        /\ name \notin InputTypeFamily /\ name \notin ApiCommands
    BY ONLY <1>7 DEF DaemonFamily, PowerFamily, HdmiFamily, SoundFamily, PanelFamily, ButtonFamily,
           SettingsFamily, RequestFamily, AppFamily, CurveFamily, InputTypeFamily, ApiCommands
  <2>2. /\ a1 = <<>> /\ a2 = <<>> /\ a3 = <<>> /\ a4 = <<>> /\ a6 = <<>> /\ a7 = <<>>
        /\ a8 = <<>> /\ a9 = <<>> /\ a10 = <<>> /\ a11 = <<>> /\ a12 = <<>>
        /\ a5 \in S
    BY <1>3, <1>7, <2>1 DEF S, a5
  <2>3. EventsOf(words) = a5
    BY ONLY <1>1, <1>2, <2>2
  <2> QED
    BY <2>3 DEF a5
<1>8. ASSUME name \in ButtonFamily, ButtonCommand(words) \in Seq(U)
      PROVE EventsOf(words) = ButtonCommand(words)
  <2>1. /\ name \notin DaemonFamily /\ name \notin PowerFamily /\ name \notin HdmiFamily
        /\ name \notin SoundFamily /\ name \notin PanelFamily /\ name \notin SettingsFamily
        /\ name \notin RequestFamily /\ name \notin AppFamily /\ name \notin CurveFamily
        /\ name \notin InputTypeFamily /\ name \notin ApiCommands
    BY ONLY <1>8 DEF DaemonFamily, PowerFamily, HdmiFamily, SoundFamily, PanelFamily, ButtonFamily,
           SettingsFamily, RequestFamily, AppFamily, CurveFamily, InputTypeFamily, ApiCommands
  <2>2. /\ a1 = <<>> /\ a2 = <<>> /\ a3 = <<>> /\ a4 = <<>> /\ a5 = <<>> /\ a7 = <<>>
        /\ a8 = <<>> /\ a9 = <<>> /\ a10 = <<>> /\ a11 = <<>> /\ a12 = <<>>
        /\ a6 \in S
    BY <1>3, <1>8, <2>1 DEF S, a6
  <2>3. EventsOf(words) = a6
    BY ONLY <1>1, <1>2, <2>2
  <2> QED
    BY <2>3 DEF a6
<1>9. ASSUME name \in SettingsFamily, SettingsCommand(words) \in Seq(U)
      PROVE EventsOf(words) = SettingsCommand(words)
  <2>1. /\ name \notin DaemonFamily /\ name \notin PowerFamily /\ name \notin HdmiFamily
        /\ name \notin SoundFamily /\ name \notin PanelFamily /\ name \notin ButtonFamily
        /\ name \notin RequestFamily /\ name \notin AppFamily /\ name \notin CurveFamily
        /\ name \notin InputTypeFamily /\ name \notin ApiCommands
    BY ONLY <1>9 DEF DaemonFamily, PowerFamily, HdmiFamily, SoundFamily, PanelFamily, ButtonFamily,
           SettingsFamily, RequestFamily, AppFamily, CurveFamily, InputTypeFamily, ApiCommands
  <2>2. /\ a1 = <<>> /\ a2 = <<>> /\ a3 = <<>> /\ a4 = <<>> /\ a5 = <<>> /\ a6 = <<>>
        /\ a8 = <<>> /\ a9 = <<>> /\ a10 = <<>> /\ a11 = <<>> /\ a12 = <<>>
        /\ a7 \in S
    BY <1>3, <1>9, <2>1 DEF S, a7
  <2>3. EventsOf(words) = a7
    BY ONLY <1>1, <1>2, <2>2
  <2> QED
    BY <2>3 DEF a7
<1>10. ASSUME name \in RequestFamily, RequestCommand(words) \in Seq(U)
       PROVE EventsOf(words) = RequestCommand(words)
  <2>1. /\ name \notin DaemonFamily /\ name \notin PowerFamily /\ name \notin HdmiFamily
        /\ name \notin SoundFamily /\ name \notin PanelFamily /\ name \notin ButtonFamily
        /\ name \notin SettingsFamily /\ name \notin AppFamily /\ name \notin CurveFamily
        /\ name \notin InputTypeFamily /\ name \notin ApiCommands
    BY ONLY <1>10 DEF DaemonFamily, PowerFamily, HdmiFamily, SoundFamily, PanelFamily, ButtonFamily,
           SettingsFamily, RequestFamily, AppFamily, CurveFamily, InputTypeFamily, ApiCommands
  <2>2. /\ a1 = <<>> /\ a2 = <<>> /\ a3 = <<>> /\ a4 = <<>> /\ a5 = <<>> /\ a6 = <<>>
        /\ a7 = <<>> /\ a9 = <<>> /\ a10 = <<>> /\ a11 = <<>> /\ a12 = <<>>
        /\ a8 \in S
    BY <1>3, <1>10, <2>1 DEF S, a8
  <2>3. EventsOf(words) = a8
    BY ONLY <1>1, <1>2, <2>2
  <2> QED
    BY <2>3 DEF a8
<1>11. ASSUME name \in AppFamily, AppCommand(words) \in Seq(U)
       PROVE EventsOf(words) = AppCommand(words)
  <2>1. /\ name \notin DaemonFamily /\ name \notin PowerFamily /\ name \notin HdmiFamily
        /\ name \notin SoundFamily /\ name \notin PanelFamily /\ name \notin ButtonFamily
        /\ name \notin SettingsFamily /\ name \notin RequestFamily /\ name \notin CurveFamily
        /\ name \notin InputTypeFamily /\ name \notin ApiCommands
    BY ONLY <1>11 DEF DaemonFamily, PowerFamily, HdmiFamily, SoundFamily, PanelFamily, ButtonFamily,
           SettingsFamily, RequestFamily, AppFamily, CurveFamily, InputTypeFamily, ApiCommands
  <2>2. /\ a1 = <<>> /\ a2 = <<>> /\ a3 = <<>> /\ a4 = <<>> /\ a5 = <<>> /\ a6 = <<>>
        /\ a7 = <<>> /\ a8 = <<>> /\ a10 = <<>> /\ a11 = <<>> /\ a12 = <<>>
        /\ a9 \in S
    BY <1>3, <1>11, <2>1 DEF S, a9
  <2>3. EventsOf(words) = a9
    BY ONLY <1>1, <1>2, <2>2
  <2> QED
    BY <2>3 DEF a9
<1>12. ASSUME name \in CurveFamily, CurveCommand(words) \in Seq(U)
       PROVE EventsOf(words) = CurveCommand(words)
  <2>1. /\ name \notin DaemonFamily /\ name \notin PowerFamily /\ name \notin HdmiFamily
        /\ name \notin SoundFamily /\ name \notin PanelFamily /\ name \notin ButtonFamily
        /\ name \notin SettingsFamily /\ name \notin RequestFamily /\ name \notin AppFamily
        /\ name \notin InputTypeFamily /\ name \notin ApiCommands
    BY ONLY <1>12 DEF DaemonFamily, PowerFamily, HdmiFamily, SoundFamily, PanelFamily, ButtonFamily,
           SettingsFamily, RequestFamily, AppFamily, CurveFamily, InputTypeFamily, ApiCommands
  <2>2. /\ a1 = <<>> /\ a2 = <<>> /\ a3 = <<>> /\ a4 = <<>> /\ a5 = <<>> /\ a6 = <<>>
        /\ a7 = <<>> /\ a8 = <<>> /\ a9 = <<>> /\ a11 = <<>> /\ a12 = <<>>
        /\ a10 \in S
    BY <1>3, <1>12, <2>1 DEF S, a10
  <2>3. EventsOf(words) = a10
    BY ONLY <1>1, <1>2, <2>2
  <2> QED
    BY <2>3 DEF a10
<1>13. ASSUME name \in InputTypeFamily, InputTypeCommand(words) \in Seq(U)
       PROVE EventsOf(words) = InputTypeCommand(words)
  <2>1. /\ name \notin DaemonFamily /\ name \notin PowerFamily /\ name \notin HdmiFamily
        /\ name \notin SoundFamily /\ name \notin PanelFamily /\ name \notin ButtonFamily
        /\ name \notin SettingsFamily /\ name \notin RequestFamily /\ name \notin AppFamily
        /\ name \notin CurveFamily /\ name \notin ApiCommands
    BY ONLY <1>13 DEF DaemonFamily, PowerFamily, HdmiFamily, SoundFamily, PanelFamily, ButtonFamily,
           SettingsFamily, RequestFamily, AppFamily, CurveFamily, InputTypeFamily, ApiCommands
  <2>2. /\ a1 = <<>> /\ a2 = <<>> /\ a3 = <<>> /\ a4 = <<>> /\ a5 = <<>> /\ a6 = <<>>
        /\ a7 = <<>> /\ a8 = <<>> /\ a9 = <<>> /\ a10 = <<>> /\ a12 = <<>>
        /\ a11 \in S
    BY <1>3, <1>13, <2>1 DEF S, a11
  <2>3. EventsOf(words) = a11
    BY ONLY <1>1, <1>2, <2>2
  <2> QED
    BY <2>3 DEF a11
<1>14. ASSUME name \in ApiCommands, TableCommand(words) \in Seq(U)
       PROVE EventsOf(words) = TableCommand(words)
  <2>1. /\ name \notin DaemonFamily /\ name \notin PowerFamily /\ name \notin HdmiFamily
        /\ name \notin SoundFamily /\ name \notin PanelFamily /\ name \notin ButtonFamily
        /\ name \notin SettingsFamily /\ name \notin RequestFamily /\ name \notin AppFamily
        /\ name \notin CurveFamily /\ name \notin InputTypeFamily
    BY ONLY <1>14 DEF DaemonFamily, PowerFamily, HdmiFamily, SoundFamily, PanelFamily, ButtonFamily,
           SettingsFamily, RequestFamily, AppFamily, CurveFamily, InputTypeFamily, ApiCommands
  <2>2. /\ a1 = <<>> /\ a2 = <<>> /\ a3 = <<>> /\ a4 = <<>> /\ a5 = <<>> /\ a6 = <<>>
        /\ a7 = <<>> /\ a8 = <<>> /\ a9 = <<>> /\ a10 = <<>> /\ a11 = <<>>
        /\ a12 \in S
    BY <1>3, <1>14, <2>1 DEF S, a12
  <2>3. EventsOf(words) = a12
    BY ONLY <1>1, <1>2, <2>2
  <2> QED
    BY <2>3 DEF a12
<1>15. ASSUME name \in MenuFamily \cup CurvatureFamily \cup {"output"} PROVE EventsOf(words) = <<>>
  <2>1. /\ name \notin DaemonFamily /\ name \notin PowerFamily /\ name \notin HdmiFamily
        /\ name \notin SoundFamily /\ name \notin PanelFamily /\ name \notin ButtonFamily
        /\ name \notin SettingsFamily /\ name \notin RequestFamily /\ name \notin AppFamily
        /\ name \notin CurveFamily /\ name \notin InputTypeFamily /\ name \notin ApiCommands
    BY ONLY <1>15 DEF DaemonFamily, PowerFamily, HdmiFamily, SoundFamily, PanelFamily, ButtonFamily,
           SettingsFamily, RequestFamily, AppFamily, CurveFamily, InputTypeFamily, ApiCommands,
           MenuFamily, CurvatureFamily
  <2>2. /\ a1 = <<>> /\ a2 = <<>> /\ a3 = <<>> /\ a4 = <<>> /\ a5 = <<>> /\ a6 = <<>>
        /\ a7 = <<>> /\ a8 = <<>> /\ a9 = <<>> /\ a10 = <<>> /\ a11 = <<>> /\ a12 = <<>>
    BY <1>3, <2>1
  <2> QED
    BY ONLY <1>1, <1>2, <2>2
<1> QED
  BY <1>4, <1>5, <1>6, <1>7, <1>8, <1>9, <1>10, <1>11, <1>12, <1>13, <1>14, <1>15

\* Lists of which one is not empty.
LEMMA FlattenSpot ==
  ASSUME NEW U, NEW e \in Seq(Seq(U)), NEW k \in 1 .. Len(e),
         \A i \in 1 .. Len(e) : i # k => e[i] = <<>>
  PROVE  FlattenSeq(e) = e[k]
<1> DEFINE n == Len(e)
<1> DEFINE W == Seq(U)
<1> DEFINE y == e[k]
<1> DEFINE front == Prefix(e, k - 1)
<1> DEFINE to == Prefix(e, k)
<1> DEFINE b == n - k
<1> DEFINE back == [i \in 1 .. b |-> <<>>]
<1>1. n \in Nat /\ k \in 1 .. n /\ b \in Nat /\ k - 1 \in Nat /\ k \in Nat /\ k + b = n
  BY DEF n
<1>2. /\ e \in [1 .. n -> W] /\ y \in W /\ <<>> \in W
      /\ \A i \in 1 .. n : e[i] \in W /\ (i # k => e[i] = <<>>)
  OBVIOUS
<1>3. FlattenSeq(to) = FlattenSeq(front) \o y
  BY FlattenParts
<1>4. /\ front = [i \in 1 .. k - 1 |-> front[i]] /\ \A i \in 1 .. k - 1 : front[i] = e[i]
      /\ to = [i \in 1 .. k |-> to[i]] /\ \A i \in 1 .. k : to[i] = e[i]
  BY DEF Prefix
<1>5. back \in Seq({<<>>}) /\ Len(back) = b /\ \A i \in 1 .. b : back[i] = <<>>
  BY <1>1, EmptyLists
<1> HIDE DEF n, W, y, front, to, b, back
<1>6. front \in Seq({<<>>})
  <2>1. \A i \in 1 .. k - 1 : front[i] \in {<<>>}
    BY ONLY <1>1, <1>2, <1>4
  <2> QED
    BY ONLY <1>1, <1>4, <2>1, ListIs
<1>7. to \in Seq(W) /\ Len(to) = k
  <2>1. \A i \in 1 .. k : to[i] \in W
    BY ONLY <1>1, <1>2, <1>4
  <2> QED
    BY ONLY <1>1, <1>4, <2>1, ListIs
<1>8. back \in Seq(W)
  <2>1. {<<>>} \subseteq W
    BY <1>2
  <2> QED
    BY <1>5, <2>1, SeqMonotonic
<1>9. e = to \o back
  <2>1. \A i \in 1 .. k + b : e[i] = IF i <= k THEN to[i] ELSE back[i - k]
    BY ONLY <1>1, <1>2, <1>4, <1>5
  <2>2. e \in [1 .. k + b -> W]
    BY <1>1, <1>2
  <2>3. Len(back) = b
    BY <1>5
  <2>4. k \in Nat /\ b \in Nat
    BY <1>1
  <2> QED
    BY ONLY <1>7, <1>8, <2>1, <2>2, <2>3, <2>4, ConcatIs, ZenonT(60)
<1>10. FlattenSeq(front) = <<>> /\ FlattenSeq(back) = <<>>
  BY <1>5, <1>6, FlattenEmpty
<1>11. FlattenSeq(to) = y
  BY <1>2, <1>3, <1>10 DEF W
<1>12. FlattenSeq(to \o back) = FlattenSeq(to) \o FlattenSeq(back)
  BY <1>7, <1>8, FlattenConcat DEF W
<1> QED
  BY <1>2, <1>9, <1>10, <1>11, <1>12 DEF y, W

\* No two of these words are names of one display.
CalledOnce(to) ==
    \A d \in Displays, i, j \in DOMAIN to : Called(d, to[i]) /\ Called(d, to[j]) => i = j

\* Then a display that is called gets one request.
LEMMA ForIs ==
  ASSUME NEW T, NEW to \in Seq(T), CalledOnce(to), NEW ask
  PROVE  For(Event(ask, to)) = AsksOf(ask, Bidden(to))
<1> DEFINE m == Len(to)
<1> DEFINE request(d) == [ask |-> ask, display |-> d]
<1> DEFINE spots(d) == [i \in 1 .. m |-> IF Called(d, to[i]) THEN <<request(d)>> ELSE <<>>]
<1> DEFINE given(d) == IF to = <<>> THEN <<request(d)>> ELSE FlattenSeq(spots(d))
<1>1. m \in Nat /\ DOMAIN to = 1 .. m
  OBVIOUS
<1>2. For(Event(ask, to)) = FlattenSeq([d \in Displays |-> given(d)])
  BY <1>1 DEF For, Event
<1>3. ASSUME NEW d \in Displays
      PROVE  given(d) = IF d \in Bidden(to) THEN <<request(d)>> ELSE <<>>
  <2> DEFINE x == request(d)
  <2> DEFINE e == spots(d)
  <2> DEFINE U == {x}
  <2>1. e = [i \in 1 .. m |-> e[i]]
        /\ \A i \in 1 .. m : e[i] = IF Called(d, to[i]) THEN <<x>> ELSE <<>>
    OBVIOUS
  <2>2. <<x>> \in Seq(U) /\ <<>> \in Seq(U)
    OBVIOUS
  <2>3. d \in Bidden(to) <=> to = <<>> \/ \E i \in 1 .. m : Called(d, to[i])
    BY <1>1 DEF Bidden
  <2>4. \A i, j \in 1 .. m : Called(d, to[i]) /\ Called(d, to[j]) => i = j
    BY <1>1 DEF CalledOnce
  <2>5. given(d) = IF to = <<>> THEN <<x>> ELSE FlattenSeq(e)
    OBVIOUS
  <2>6. request(d) = x
    OBVIOUS
  <2> HIDE DEF x, e, U, given, request, m
  <2>7. \A i \in 1 .. m : e[i] \in Seq(U)
    BY <2>1, <2>2
  <2>8. e \in Seq(Seq(U)) /\ Len(e) = m
    BY ONLY <1>1, <2>1, <2>7, ListIs
  <2>9. ASSUME NEW i \in 1 .. m, Called(d, to[i]) PROVE FlattenSeq(e) = <<x>>
    <3>1. \A j \in 1 .. m : j # i => e[j] = <<>>
      BY <2>1, <2>4, <2>9
    <3>2. e[i] = <<x>>
      BY <2>1, <2>9
    <3>3. FlattenSeq(e) = e[i]
      BY <2>8, <3>1, FlattenSpot
    <3> QED
      BY <3>2, <3>3
  <2>10. ASSUME \A i \in 1 .. m : ~Called(d, to[i]) PROVE FlattenSeq(e) = <<>>
    <3>1. \A i \in 1 .. m : e[i] \in {<<>>}
      BY <2>1, <2>10
    <3>2. e \in Seq({<<>>})
      BY ONLY <1>1, <2>1, <3>1, ListIs
    <3> QED
      BY <3>2, FlattenEmpty
  <2> QED
    BY <2>3, <2>5, <2>6, <2>9, <2>10
<1> HIDE DEF given
<1>4. [d \in Displays |-> given(d)]
        = [d \in Displays |-> IF d \in Bidden(to) THEN <<request(d)>> ELSE <<>>]
  BY <1>3
<1> QED
  BY <1>2, <1>4 DEF AsksOf, request

\* What the sessions are given for one event, and for none.
LEMMA DispatchedIs ==
  /\ Dispatched(<<>>) = <<>>
  /\ \A ask, to : (\E T : to \in Seq(T)) /\ CalledOnce(to)
       => Dispatched(<<Event(ask, to)>>) = AsksOf(ask, Bidden(to))
<1>1. Dispatched(<<>>) = <<>>
  BY FlattenNone DEF Dispatched
<1>2. ASSUME NEW ask, NEW to, NEW T, to \in Seq(T), CalledOnce(to)
      PROVE  Dispatched(<<Event(ask, to)>>) = AsksOf(ask, Bidden(to))
  <2> DEFINE e == Event(ask, to)
  <2> DEFINE asks == AsksOf(ask, Bidden(to))
  <2>1. For(e) = asks
    BY <1>2, ForIs
  <2>2. PICK U : asks \in Seq(U)
    BY AsksAreList
  <2> HIDE DEF e, asks
  <2>3. Dispatched(<<e>>) = FlattenSeq(<<For(e)>>)
    BY DEF Dispatched
  <2>4. FlattenSeq(<<asks>>) = asks
    BY <2>2, FlattenOne
  <2> QED
    BY <2>1, <2>3, <2>4 DEF e, asks
<1> QED
  BY <1>1, <1>2

\* What the displays are asked for commands.
Answerable == {[ask |-> Means(c)[i], display |-> d] : c \in Command, i \in Nat, d \in Displays}

\* What the sessions are given for a line, and the lines it is written anew as.
AtOnce(line) == Dispatched(EventsOf(WordsOf(line)))

Becomes(line) ==
    LET words == WordsOf(line)
        messages == MenuMessages(words) \o CurvatureMessages(words)
    IN  FlattenSeq([i \in DOMAIN messages |-> CommandLines(messages[i])])

\* The displays are asked for this, and nothing is written anew.
Leads(line, asks) ==
    /\ asks \in Seq(Answerable) /\ WordsOf(line) # <<>>
    /\ Becomes(line) = <<>> /\ AtOnce(line) = asks

\* The displays are asked for this, at once or when the line was written anew.
Gives(line, asks) ==
    \/ Leads(line, asks)
    \/ /\ WordsOf(line) # <<>> /\ AtOnce(line) = <<>> /\ Becomes(line) \in Seq(Seq(Symbols))
       /\ \E parts \in Seq(Seq(Answerable)) :
            /\ Len(parts) = Len(Becomes(line)) /\ asks = FlattenSeq(parts)
            /\ \A i \in 1 .. Len(parts) : Leads(Becomes(line)[i], parts[i])

\* A command that the daemon can read.
Told(c) == c \in Command /\ Len(c.args) = Arity[c.name] /\ DaemonUnderstands(c)

\* It is done as it is meant.
Obeyed(c) == Asked(c) \in Seq(Answerable) /\ Gives(LineOfCommand(c), Asked(c))

\* A list of nothing is nothing.
LEMMA NothingBecomes ==
  ASSUME NEW line, MenuMessages(WordsOf(line)) = <<>>, CurvatureMessages(WordsOf(line)) = <<>>
  PROVE  Becomes(line) = <<>>
<1>1. <<>> \o <<>> = <<>> /\ DOMAIN <<>> = {}
  OBVIOUS
<1>2. Becomes(line) = FlattenSeq([i \in DOMAIN <<>> |-> CommandLines(<<>>[i])])
  BY <1>1 DEF Becomes
<1>3. [i \in DOMAIN <<>> |-> CommandLines(<<>>[i])] = <<>>
  OBVIOUS
<1> QED
  BY <1>2, <1>3, FlattenNone

\* What is asked for a command, of whomever, can be asked.
LEMMA AsksAreAnswerable ==
  ASSUME NEW c \in Command, NEW i \in Nat, NEW displays
  PROVE  AsksOf(Means(c)[i], displays) \in Seq(Answerable)
<1> DEFINE ask == Means(c)[i]
<1> DEFINE U == {[ask |-> ask, display |-> d] : d \in Displays}
<1>1. U \subseteq Answerable
  BY DEF Answerable
<1>2. AsksOf(ask, displays) \in Seq(U)
  BY AsksAreList
<1> HIDE DEF U, ask
<1>3. AsksOf(ask, displays) \in Seq(Answerable)
  BY <1>1, <1>2, SeqMonotonic
<1> QED
  BY <1>3 DEF ask

\* What is asked for a command that means one thing.
LEMMA AskedOfOne ==
  ASSUME NEW c \in Command, NEW ask, Means(c) = <<ask>>
  PROVE  Asked(c) = AsksOf(ask, Bidden(c.to)) /\ AsksOf(ask, Bidden(c.to)) \in Seq(Answerable)
<1> DEFINE asks == AsksOf(ask, Meant(c))
<1>1. asks \in Seq(Answerable)
  <2>1. <<ask>>[1] = ask /\ 1 \in Nat
    OBVIOUS
  <2> QED
    BY <2>1, AsksAreAnswerable
<1>2. [i \in DOMAIN Means(c) |-> AsksOf(Means(c)[i], Meant(c))] = <<asks>>
  <2>1. DOMAIN <<ask>> = 1 .. 1 /\ <<ask>>[1] = ask
    OBVIOUS
  <2> QED
    BY <2>1
<1> HIDE DEF asks
<1>3. FlattenSeq(<<asks>>) = asks
  BY <1>1, FlattenOne
<1>4. Asked(c) = asks
  BY <1>2, <1>3 DEF Asked
<1>5. asks = AsksOf(ask, Bidden(c.to))
  BY MeantIsBidden DEF asks
<1> QED
  BY <1>1, <1>4, <1>5

\* A command for which the daemon makes an event of what it means.
LEMMA ObeyedIfAsked ==
  ASSUME NEW c, Told(c), NEW ask, Means(c) = <<ask>>,
         c.name \notin MenuFamily, c.name \notin CurvatureFamily,
         EventsOf(WordsOfCommand(c)) = <<Event(ask, c.to)>>
  PROVE  Obeyed(c)
<1> DEFINE line == LineOfCommand(c)
<1> DEFINE words == WordsOfCommand(c)
<1>1. c \in Command /\ DaemonUnderstands(c)
  BY DEF Told
<1>2. WordsOf(line) = words
  BY <1>1, CommandIsSaid
<1>3. c.to \in Seq(Word) /\ c.args \o c.to \in Seq(Word)
  BY <1>1, WordsAre
<1>4. words # <<>> /\ words[1] = <<c.name>>
  BY <1>3 DEF WordsOfCommand
<1>5. CalledOnce(c.to)
  BY <1>1 DEF DaemonUnderstands, CalledOnce
<1> DEFINE asks == AsksOf(ask, Bidden(c.to))
<1>6. Dispatched(<<Event(ask, c.to)>>) = asks
  BY <1>3, <1>5, DispatchedIs
<1>7. Asked(c) = asks /\ asks \in Seq(Answerable)
  BY <1>1, AskedOfOne
<1>8. MenuMessages(words) = <<>> /\ CurvatureMessages(words) = <<>>
  BY <1>4, OthersGiveNothing
<1>9. EventsOf(words) = <<Event(ask, c.to)>>
  OBVIOUS
<1> HIDE DEF line, words, asks
<1>10. Becomes(line) = <<>>
  BY <1>2, <1>8, NothingBecomes
<1>11. AtOnce(line) = asks
  BY <1>2, <1>6, <1>9 DEF AtOnce
<1>12. Leads(line, asks)
  BY <1>2, <1>4, <1>7, <1>10, <1>11 DEF Leads
<1> QED
  BY <1>7, <1>12 DEF Obeyed, Gives, line

\* A command that means nothing, and for which the daemon makes no event.
LEMMA ObeyedIfNotAsked ==
  ASSUME NEW c, Told(c), Means(c) = <<>>,
         c.name \notin MenuFamily, c.name \notin CurvatureFamily,
         EventsOf(WordsOfCommand(c)) = <<>>
  PROVE  Obeyed(c)
<1> DEFINE line == LineOfCommand(c)
<1> DEFINE words == WordsOfCommand(c)
<1>1. c \in Command /\ DaemonUnderstands(c)
  BY DEF Told
<1>2. WordsOf(line) = words
  BY <1>1, CommandIsSaid
<1>3. c.args \o c.to \in Seq(Word)
  BY <1>1, WordsAre
<1>4. words # <<>> /\ words[1] = <<c.name>>
  BY <1>3 DEF WordsOfCommand
<1>5. Dispatched(<<>>) = <<>>
  BY DispatchedIs
<1>6. [i \in DOMAIN Means(c) |-> AsksOf(Means(c)[i], Meant(c))] = <<>>
  OBVIOUS
<1>7. Asked(c) = <<>>
  BY <1>6, FlattenNone DEF Asked
<1>8. MenuMessages(words) = <<>> /\ CurvatureMessages(words) = <<>>
  BY <1>4, OthersGiveNothing
<1>9. EventsOf(words) = <<>>
  OBVIOUS
<1> HIDE DEF line, words
<1>10. Becomes(line) = <<>>
  BY <1>2, <1>8, NothingBecomes
<1>11. AtOnce(line) = <<>>
  BY <1>2, <1>5, <1>9 DEF AtOnce
<1>12. <<>> \in Seq(Answerable)
  OBVIOUS
<1>13. Leads(line, <<>>)
  BY <1>2, <1>4, <1>10, <1>11, <1>12 DEF Leads
<1> QED
  BY <1>7, <1>12, <1>13 DEF Obeyed, Gives, line

\* The words of a command that the daemon can read.
LEMMA ToldWords ==
  ASSUME NEW c, Told(c)
  PROVE  LET words == WordsOfCommand(c)
         IN  /\ words[1] = <<c.name>> /\ Len(words) = 1 + Len(c.args) + Len(c.to)
             /\ Len(c.to) \in Nat /\ Len(c.args) = Arity[c.name]
             /\ \A i \in 1 .. Len(c.args) : words[i + 1] = c.args[i] /\ c.args[i] \in Word
             /\ Devices(words, 1 + Len(c.args)) = c.to
<1> DEFINE h == <<c.name>>
<1> DEFINE V == Word \cup {h}
<1> DEFINE words == WordsOfCommand(c)
<1>1. c.args \in Seq(Word) /\ c.to \in Seq(Word)
  BY WordsAre DEF Told
<1>2. <<h>> \in Seq(V) /\ Word \subseteq V
  OBVIOUS
<1>3. words = <<h>> \o (c.args \o c.to)
  BY DEF WordsOfCommand
<1>4. /\ DOMAIN c.args = 1 .. Len(c.args) /\ Len(c.to) \in Nat
      /\ \A i \in 1 .. Len(c.args) : c.args[i] \in Word
  BY <1>1
<1> HIDE DEF h, V, words
<1>5. c.args \in Seq(V) /\ c.to \in Seq(V)
  BY <1>1, <1>2, SeqMonotonic
<1>6. (<<h>> \o c.args) \o c.to = <<h>> \o (c.args \o c.to)
  <2> DEFINE a == <<h>>
  <2> DEFINE b == c.args
  <2> DEFINE e == c.to
  <2>1. a \in Seq(V) /\ b \in Seq(V) /\ e \in Seq(V)
    BY <1>2, <1>5
  <2> HIDE DEF a, b, e
  <2>2. (a \o b) \o e = a \o (b \o e)
    BY ONLY <2>1, Associative
  <2> QED
    BY <2>2 DEF a, b, e
<1>7. words = Written(h, c.args, c.to)
  BY <1>3, <1>6 DEF Written
<1>8. Consists(words, h, c.args, c.to)
  BY <1>5, <1>7, WrittenIs
<1> QED
  BY <1>4, <1>8 DEF Consists, h, words, Told

\* By the number of its arguments.
LEMMA ToldWithout ==
  ASSUME NEW c, Told(c), Arity[c.name] = 0
  PROVE  WordsOfCommand(c)[1] = <<c.name>> /\ Devices(WordsOfCommand(c), 1) = c.to
<1>1. Len(c.args) = 0 /\ 1 + 0 = 1
  BY DEF Told
<1> QED
  BY <1>1, ToldWords

\* With one.
LEMMA ToldWithOne ==
  ASSUME NEW c, Told(c), Arity[c.name] = 1
  PROVE  LET words == WordsOfCommand(c)
         IN  /\ words[1] = <<c.name>> /\ Devices(words, 2) = c.to
             /\ Len(words) > 1 /\ words[2] = c.args[1] /\ c.args[1] \in Word
<1> DEFINE words == WordsOfCommand(c)
<1>1. /\ words[1] = <<c.name>> /\ Len(words) = 1 + Len(c.args) + Len(c.to)
      /\ Len(c.to) \in Nat /\ Len(c.args) = Arity[c.name]
      /\ \A i \in 1 .. Len(c.args) : words[i + 1] = c.args[i] /\ c.args[i] \in Word
      /\ Devices(words, 1 + Len(c.args)) = c.to
  BY ToldWords
<1> HIDE DEF words
<1>2. Len(c.args) = 1 /\ 1 + 1 = 2 /\ 1 \in 1 .. 1
  BY <1>1
<1>3. words[1 + 1] = c.args[1] /\ c.args[1] \in Word
  BY <1>1, <1>2
<1>4. Len(words) > 1
  BY <1>1, <1>2
<1> QED
  BY <1>1, <1>2, <1>3, <1>4 DEF words

\* With three.
LEMMA ToldWithThree ==
  ASSUME NEW c, Told(c), Arity[c.name] = 3
  PROVE  LET words == WordsOfCommand(c)
         IN  /\ words[1] = <<c.name>> /\ Devices(words, 4) = c.to /\ Len(words) > 3
             /\ words[2] = c.args[1] /\ words[3] = c.args[2] /\ words[4] = c.args[3]
<1> DEFINE words == WordsOfCommand(c)
<1>1. /\ words[1] = <<c.name>> /\ Len(words) = 1 + Len(c.args) + Len(c.to)
      /\ Len(c.to) \in Nat /\ Len(c.args) = Arity[c.name]
      /\ \A i \in 1 .. Len(c.args) : words[i + 1] = c.args[i] /\ c.args[i] \in Word
      /\ Devices(words, 1 + Len(c.args)) = c.to
  BY ToldWords
<1> HIDE DEF words
<1>2. /\ Len(c.args) = 3 /\ 1 + 3 = 4 /\ 1 \in 1 .. 3 /\ 2 \in 1 .. 3 /\ 3 \in 1 .. 3
      /\ 1 + 1 = 2 /\ 2 + 1 = 3 /\ 3 + 1 = 4
  BY <1>1
<1>3. words[1 + 1] = c.args[1] /\ words[2 + 1] = c.args[2] /\ words[3 + 1] = c.args[3]
  BY <1>1, <1>2
<1>4. Len(words) > 3
  BY <1>1, <1>2
<1> QED
  BY <1>1, <1>2, <1>3, <1>4 DEF words

-----------------------------------------------------------------------------
(* Each command that makes an event is done as it is meant.                 *)

\* An event that one operator makes of a command, or none.
LEMMA FamilyGives ==
  ASSUME NEW words, NEW name, words[1] = <<name>>, NEW e
  PROVE  /\ name \in PowerFamily /\ PowerCommand(words) \in {<<>>, <<e>>}
              => EventsOf(words) = PowerCommand(words)
         /\ name \in HdmiFamily /\ HdmiCommand(words) \in {<<>>, <<e>>}
              => EventsOf(words) = HdmiCommand(words)
         /\ name \in SoundFamily /\ SoundCommand(words) \in {<<>>, <<e>>}
              => EventsOf(words) = SoundCommand(words)
         /\ name \in PanelFamily /\ PanelCommand(words) \in {<<>>, <<e>>}
              => EventsOf(words) = PanelCommand(words)
         /\ name \in ButtonFamily /\ ButtonCommand(words) \in {<<>>, <<e>>}
              => EventsOf(words) = ButtonCommand(words)
         /\ name \in SettingsFamily /\ SettingsCommand(words) \in {<<>>, <<e>>}
              => EventsOf(words) = SettingsCommand(words)
         /\ name \in RequestFamily /\ RequestCommand(words) \in {<<>>, <<e>>}
              => EventsOf(words) = RequestCommand(words)
         /\ name \in AppFamily /\ AppCommand(words) \in {<<>>, <<e>>}
              => EventsOf(words) = AppCommand(words)
         /\ name \in CurveFamily /\ CurveCommand(words) \in {<<>>, <<e>>}
              => EventsOf(words) = CurveCommand(words)
         /\ name \in InputTypeFamily /\ InputTypeCommand(words) \in {<<>>, <<e>>}
              => EventsOf(words) = InputTypeCommand(words)
         /\ name \in ApiCommands /\ TableCommand(words) \in {<<>>, <<e>>}
              => EventsOf(words) = TableCommand(words)
         /\ name \in MenuFamily \cup CurvatureFamily \cup {"output"} => EventsOf(words) = <<>>
<1>1. <<>> \in Seq({e}) /\ <<e>> \in Seq({e})
  OBVIOUS
<1> QED
  BY <1>1, FamilyGivesAll

\* Nothing is joined to it.
LEMMA WithNothing ==
  ASSUME NEW x
  PROVE  <<x>> \o <<>> = <<x>> /\ <<>> \o <<x>> = <<x>> /\ <<>> \o <<>> = <<>>
  OBVIOUS

-----------------------------------------------------------------------------
\* Power.
LEMMA PowerIsObeyed ==
  ASSUME NEW c, Told(c), c.name \in {"poweron", "screenon", "poweroff", "autodisable"}
  PROVE  Obeyed(c)
<1> DEFINE words == WordsOfCommand(c)
<1> DEFINE ask == Simple(Forced(c.name))
<1>1. Arity[c.name] = 0
  BY DEF Arity
<1>2. words[1] = <<c.name>> /\ Devices(words, 1) = c.to
  BY <1>1, ToldWithout
<1>3. Means(c) = <<ask>>
  <2>1. c.name \in {"poweron", "screenon"} => Forced(c.name) = "poweron"
    BY DEF Forced
  <2>2. c.name \in {"poweroff", "autodisable"} => Forced(c.name) = c.name
    BY DEF Forced
  <2>3. c.name \in {"poweron", "screenon"} => Means(c) = <<Ask("poweron", <<>>)>>
    BY DEF Means
  <2>4. c.name \in {"poweroff", "autodisable"} => Means(c) = <<Ask(c.name, <<>>)>>
    BY DEF Means
  <2> QED
    BY <2>1, <2>2, <2>3, <2>4 DEF Simple
<1> HIDE DEF words
<1>4. (\A names : Is(words, names) <=> c.name \in names) /\ words[1][1] = c.name
  BY <1>2, NameIs
<1>5. /\ c.name \notin MenuFamily /\ c.name \notin CurvatureFamily /\ c.name \in PowerFamily
  BY DEF MenuFamily, CurvatureFamily, PowerFamily
<1>6. PowerCommand(words) = <<Event(ask, c.to)>>
  <2>1. /\ Is(words, {"poweron", "poweroff", "screenon", "screenoff", "autoenable",
                      "autodisable"})
        /\ ~Is(words, {"streaming_connect", "streaming_disconnect"})
    BY <1>4
  <2> QED
    BY <1>2, <1>4, <2>1, WithNothing DEF PowerCommand, EventsIf
<1> HIDE DEF ask
<1>7. EventsOf(words) = <<Event(ask, c.to)>>
  BY <1>2, <1>5, <1>6, FamilyGives
<1> QED
  BY <1>3, <1>5, <1>7, ObeyedIfAsked DEF words

\* The sound.
LEMMA UnmuteIsObeyed ==
  ASSUME NEW c, Told(c), c.name = "unmute"
  PROVE  Obeyed(c)
<1> DEFINE words == WordsOfCommand(c)
<1> DEFINE ask == Simple("setMute")
<1>1. Arity[c.name] = 0
  BY DEF Arity
<1>2. words[1] = <<c.name>> /\ Devices(words, 1) = c.to
  BY <1>1, ToldWithout
<1>3. Means(c) = <<ask>>
  BY DEF Means, Simple
<1> HIDE DEF words
<1>4. (\A names : Is(words, names) <=> c.name \in names) /\ words[1][1] = c.name
  BY <1>2, NameIs
<1>5. /\ c.name \notin MenuFamily /\ c.name \notin CurvatureFamily /\ c.name \in SoundFamily
  BY DEF MenuFamily, CurvatureFamily, SoundFamily
<1>6. SoundCommand(words) = <<Event(ask, c.to)>>
  <2>1. /\ ~Is(words, {"volume"})
        /\ ~Is(words, {"mute"})
        /\ Is(words, {"unmute"})
    BY <1>4
  <2> QED
    BY <1>2, <1>4, <2>1, WithNothing DEF SoundCommand, EventsIf, Simple
<1> HIDE DEF ask
<1>7. EventsOf(words) = <<Event(ask, c.to)>>
  BY <1>2, <1>5, <1>6, FamilyGives
<1> QED
  BY <1>3, <1>5, <1>7, ObeyedIfAsked DEF words

\* The panel.
LEMMA PanelIsObeyed ==
  ASSUME NEW c, Told(c), c.name = "servicemenu_tpc_enable"
  PROVE  Obeyed(c)
<1> DEFINE words == WordsOfCommand(c)
<1> DEFINE ask == Ask("setTemporalPeakControl", <<<<"true">>>>)
<1>1. Arity[c.name] = 0
  BY DEF Arity
<1>2. words[1] = <<c.name>> /\ Devices(words, 1) = c.to
  BY <1>1, ToldWithout
<1>3. Means(c) = <<ask>>
  BY DEF Means, Simple
<1> HIDE DEF words
<1>4. (\A names : Is(words, names) <=> c.name \in names) /\ words[1][1] = c.name
  BY <1>2, NameIs
<1>5. /\ c.name \notin MenuFamily /\ c.name \notin CurvatureFamily /\ c.name \in PanelFamily
  BY DEF MenuFamily, CurvatureFamily, PanelFamily
<1>6. PanelCommand(words) = <<Event(ask, c.to)>>
  <2>1. /\ Is(words, {"servicemenu_tpc_enable", "servicemenu_tpc_disable"})
        /\ ~Is(words, {"servicemenu_gsr_enable", "servicemenu_gsr_disable"})
    BY <1>4
  <2> QED
    BY <1>2, <1>4, <2>1, WithNothing DEF PanelCommand, EventsIf, Enabled
<1> HIDE DEF ask
<1>7. EventsOf(words) = <<Event(ask, c.to)>>
  BY <1>2, <1>5, <1>6, FamilyGives
<1> QED
  BY <1>3, <1>5, <1>7, ObeyedIfAsked DEF words

\* The form of the output is of no interest to the daemon.
LEMMA OutputIsObeyed ==
  ASSUME NEW c, Told(c), c.name = "output"
  PROVE  Obeyed(c)
<1> DEFINE words == WordsOfCommand(c)
<1>1. Arity[c.name] = 1
  BY DEF Arity
<1>2. words[1] = <<c.name>>
  BY <1>1, ToldWithOne
<1>3. Means(c) = <<>>
  BY DEF Means
<1>4. c.name \notin MenuFamily /\ c.name \notin CurvatureFamily
  BY DEF MenuFamily, CurvatureFamily
<1>5. EventsOf(words) = <<>>
  BY <1>2, FamilyGives
<1> QED
  BY <1>3, <1>4, <1>5, ObeyedIfNotAsked

\* The volume is brought into its range.
LEMMA VolumeIsObeyed ==
  ASSUME NEW c, Told(c), c.name = "volume"
  PROVE  Obeyed(c)
<1> DEFINE words == WordsOfCommand(c)
<1> DEFINE first == c.args[1]
<1> DEFINE ask == Ask("setVolume", <<to_string(Within(atoi(first), 0, 100))>>)
<1>1. Arity[c.name] = 1
  BY DEF Arity
<1>2. /\ words[1] = <<c.name>> /\ Devices(words, 2) = c.to
      /\ Len(words) > 1 /\ words[2] = first /\ first \in Word
  BY <1>1, ToldWithOne
<1> HIDE DEF words
<1>4. (\A names : Is(words, names) <=> c.name \in names) /\ words[1][1] = c.name
  BY <1>2, NameIs
<1>5. /\ c.name \notin MenuFamily /\ c.name \notin CurvatureFamily /\ c.name \in SoundFamily
  BY DEF MenuFamily, CurvatureFamily, SoundFamily
<1>3. Means(c) = <<ask>>
  BY DEF Means
<1>6. SoundCommand(words) = <<Event(ask, c.to)>>
  <2>1. /\ Is(words, {"volume"})
        /\ ~Is(words, {"mute"})
        /\ ~Is(words, {"unmute"})
    BY <1>4
  <2> QED
    BY <1>2, <1>4, <2>1, WithNothing DEF SoundCommand, EventsIf, Level
<1> HIDE DEF ask
<1>7. EventsOf(words) = <<Event(ask, c.to)>>
  BY <1>2, <1>5, <1>6, FamilyGives
<1> QED
  BY <1>3, <1>5, <1>7, ObeyedIfAsked DEF words

\* A request is sent as it is.
LEMMA RequestIsObeyed ==
  ASSUME NEW c, Told(c), c.name = "request"
  PROVE  Obeyed(c)
<1> DEFINE words == WordsOfCommand(c)
<1> DEFINE first == c.args[1]
<1> DEFINE ask == Ask("ssap", <<first>>)
<1>1. Arity[c.name] = 1
  BY DEF Arity
<1>2. /\ words[1] = <<c.name>> /\ Devices(words, 2) = c.to
      /\ Len(words) > 1 /\ words[2] = first /\ first \in Word
  BY <1>1, ToldWithOne
<1> HIDE DEF words
<1>4. (\A names : Is(words, names) <=> c.name \in names) /\ words[1][1] = c.name
  BY <1>2, NameIs
<1>5. /\ c.name \notin MenuFamily /\ c.name \notin CurvatureFamily /\ c.name \in RequestFamily
  BY DEF MenuFamily, CurvatureFamily, RequestFamily
<1>3. Means(c) = <<ask>>
  BY DEF Means
<1>6. RequestCommand(words) = <<Event(ask, c.to)>>
  <2>1. /\ Is(words, {"request"})
        /\ ~Is(words, {"request_with_param"})
    BY <1>4
  <2> QED
    BY <1>2, <1>4, <2>1, WithNothing DEF RequestCommand, EventsIf
<1> HIDE DEF ask
<1>7. EventsOf(words) = <<Event(ask, c.to)>>
  BY <1>2, <1>5, <1>6, FamilyGives
<1> QED
  BY <1>3, <1>5, <1>7, ObeyedIfAsked DEF words

\* An application is started.
LEMMA StartAppIsObeyed ==
  ASSUME NEW c, Told(c), c.name = "start_app"
  PROVE  Obeyed(c)
<1> DEFINE words == WordsOfCommand(c)
<1> DEFINE first == c.args[1]
<1> DEFINE ask == Launch(first)
<1>1. Arity[c.name] = 1
  BY DEF Arity
<1>2. /\ words[1] = <<c.name>> /\ Devices(words, 2) = c.to
      /\ Len(words) > 1 /\ words[2] = first /\ first \in Word
  BY <1>1, ToldWithOne
<1> HIDE DEF words
<1>4. (\A names : Is(words, names) <=> c.name \in names) /\ words[1][1] = c.name
  BY <1>2, NameIs
<1>5. /\ c.name \notin MenuFamily /\ c.name \notin CurvatureFamily /\ c.name \in AppFamily
  BY DEF MenuFamily, CurvatureFamily, AppFamily
<1>3. Means(c) = <<ask>>
  BY DEF Means
<1>6. AppCommand(words) = <<Event(ask, c.to)>>
  <2>1. /\ Is(words, {"start_app"})
        /\ ~Is(words, {"start_app_with_param"})
        /\ ~Is(words, {"close_app"})
    BY <1>4
  <2> QED
    BY <1>2, <1>4, <2>1, WithNothing DEF AppCommand, EventsIf
<1> HIDE DEF ask
<1>7. EventsOf(words) = <<Event(ask, c.to)>>
  BY <1>2, <1>5, <1>6, FamilyGives
<1> QED
  BY <1>3, <1>5, <1>7, ObeyedIfAsked DEF words

\* Settings that are given as JSON.
LEMMA PictureIsObeyed ==
  ASSUME NEW c, Told(c), c.name = "settings_picture"
  PROVE  Obeyed(c)
<1> DEFINE words == WordsOfCommand(c)
<1> DEFINE first == c.args[1]
<1> DEFINE ask == SetSettings(<<"picture">>, Dumped(first))
<1>1. Arity[c.name] = 1
  BY DEF Arity
<1>2. /\ words[1] = <<c.name>> /\ Devices(words, 2) = c.to
      /\ Len(words) > 1 /\ words[2] = first /\ first \in Word
  BY <1>1, ToldWithOne
<1> HIDE DEF words
<1>4. (\A names : Is(words, names) <=> c.name \in names) /\ words[1][1] = c.name
  BY <1>2, NameIs
<1>5. /\ c.name \notin MenuFamily /\ c.name \notin CurvatureFamily /\ c.name \in SettingsFamily
  BY DEF MenuFamily, CurvatureFamily, SettingsFamily
<1>8. IsJson(first)
  BY DEF Told, DaemonUnderstands
<1>3. Means(c) = <<ask>>
  BY <1>8 DEF Means
<1>6. SettingsCommand(words) = <<Event(ask, c.to)>>
  BY <1>2, <1>4, <1>8 DEF SettingsCommand, EventsIf, SettingsCategory
<1> HIDE DEF ask
<1>7. EventsOf(words) = <<Event(ask, c.to)>>
  BY <1>2, <1>5, <1>6, FamilyGives
<1> QED
  BY <1>3, <1>5, <1>7, ObeyedIfAsked DEF words

\* A button of the remote control.
LEMMA ButtonIsObeyed ==
  ASSUME NEW c, Told(c), c.name = "button"
  PROVE  Obeyed(c)
<1> DEFINE words == WordsOfCommand(c)
<1> DEFINE first == c.args[1]
<1> DEFINE ask == Ask("button", <<first>>)
<1>1. Arity[c.name] = 1
  BY DEF Arity
<1>2. /\ words[1] = <<c.name>> /\ Devices(words, 2) = c.to
      /\ Len(words) > 1 /\ words[2] = first /\ first \in Word
  BY <1>1, ToldWithOne
<1> HIDE DEF words
<1>4. (\A names : Is(words, names) <=> c.name \in names) /\ words[1][1] = c.name
  BY <1>2, NameIs
<1>5. /\ c.name \notin MenuFamily /\ c.name \notin CurvatureFamily /\ c.name \in ButtonFamily
  BY DEF MenuFamily, CurvatureFamily, ButtonFamily
<1>8. first # <<>>
  BY <1>2 DEF Word
<1>3. Means(c) = IF first \in Buttons THEN <<ask>> ELSE <<>>
  BY DEF Means
<1>6. ButtonCommand(words) = IF first \in Buttons THEN <<Event(ask, c.to)>> ELSE <<>>
  BY <1>2, <1>4, <1>8 DEF ButtonCommand, EventsIf, validateArgument
<1> HIDE DEF ask
<1>7. EventsOf(words) = IF first \in Buttons THEN <<Event(ask, c.to)>> ELSE <<>>
  BY <1>2, <1>5, <1>6, FamilyGives
<1> QED
  BY <1>3, <1>5, <1>7, ObeyedIfAsked, ObeyedIfNotAsked DEF words

\* A setting with a list of values.
LEMMA GameModeIsObeyed ==
  ASSUME NEW c, Told(c), c.name = "gamemode_hdmi1"
  PROVE  Obeyed(c)
<1> DEFINE words == WordsOfCommand(c)
<1> DEFINE first == c.args[1]
<1> DEFINE ask == SetSettings(<<"other">>, <<"gameMode", "hdmi1">> \o first)
<1>1. Arity[c.name] = 1
  BY DEF Arity
<1>2. /\ words[1] = <<c.name>> /\ Devices(words, 2) = c.to
      /\ Len(words) > 1 /\ words[2] = first /\ first \in Word
  BY <1>1, ToldWithOne
<1> HIDE DEF words
<1>4. (\A names : Is(words, names) <=> c.name \in names) /\ words[1][1] = c.name
  BY <1>2, NameIs
<1>5. /\ c.name \notin MenuFamily /\ c.name \notin CurvatureFamily /\ c.name \in ApiCommands
  BY DEF MenuFamily, CurvatureFamily, ApiCommands
<1>8. /\ Len(Setting(c.name)) = 2 /\ Setting(c.name) = <<"gameMode", "hdmi1">> /\ first # <<>>
      /\ c.name \in ApiCommands
  BY <1>2 DEF Setting, Word, ApiCommands
<1>3. Means(c) = IF first \in Argument(c.name) THEN <<ask>> ELSE <<>>
  BY DEF Means
<1>6. TableCommand(words) = IF first \in Argument(c.name) THEN <<Event(ask, c.to)>> ELSE <<>>
  <2>1. ~HasRange(c.name) /\ Category(c.name) = <<"other">>
    BY DEF HasRange, Category
  <2> DEFINE argument == validateArgument(first, Argument(c.name))
  <2> DEFINE condition == Is(words, ApiCommands) /\ Len(words) > 1 /\ argument # <<>>
  <2>2. TableCommand(words)
          = EventsIf(condition, Event(SetSettings(<<"other">>, <<"gameMode", "hdmi1">> \o argument),
                                      c.to))
    BY <1>2, <1>4, <1>8, <2>1 DEF TableCommand, EventsIf
  <2>3. condition <=> first \in Argument(c.name)
    BY <1>2, <1>4, <1>8 DEF validateArgument
  <2>4. first \in Argument(c.name) => argument = first
    BY DEF validateArgument
  <2> HIDE DEF condition, argument
  <2>5. CASE first \in Argument(c.name)
    BY <2>2, <2>3, <2>4, <2>5 DEF EventsIf
  <2>6. CASE first \notin Argument(c.name)
    BY <2>2, <2>3, <2>6 DEF EventsIf
  <2> QED
    BY <2>5, <2>6
<1> HIDE DEF ask
<1>7. EventsOf(words) = IF first \in Argument(c.name) THEN <<Event(ask, c.to)>> ELSE <<>>
  BY <1>2, <1>5, <1>6, FamilyGives
<1> QED
  BY <1>3, <1>5, <1>7, ObeyedIfAsked, ObeyedIfNotAsked DEF words

\* The first character of an input is the input.
LEMMA HdmiIsObeyed ==
  ASSUME NEW c, Told(c), c.name = "sethdmi"
  PROVE  Obeyed(c)
<1> DEFINE words == WordsOfCommand(c)
<1> DEFINE first == c.args[1]
<1> DEFINE ask == HdmiApp(first)
<1>1. Arity[c.name] = 1
  BY DEF Arity
<1>2. /\ words[1] = <<c.name>> /\ Devices(words, 2) = c.to
      /\ Len(words) > 1 /\ words[2] = first /\ first \in Word
  BY <1>1, ToldWithOne
<1> HIDE DEF words
<1>4. (\A names : Is(words, names) <=> c.name \in names) /\ words[1][1] = c.name
  BY <1>2, NameIs
<1>5. /\ c.name \notin MenuFamily /\ c.name \notin CurvatureFamily /\ c.name \in HdmiFamily
  BY DEF MenuFamily, CurvatureFamily, HdmiFamily
<1> DEFINE input == SubSeq(first, 1, 1)
<1>8. first \in Inputs => input = first
  BY DEF Inputs
<1>9. input \in Inputs => first \in Inputs
  <2>1. InputIsRead(c)
    BY DEF Told, DaemonUnderstands
  <2> QED
    BY <2>1 DEF InputIsRead
<1>10. validateArgument(input, {<<"1">>, <<"2">>, <<"3">>, <<"4">>}) # <<>> <=> first \in Inputs
  <2>2. \A w \in Inputs : w # <<>>
    BY DEF Inputs
  <2>1. validateArgument(input, Inputs) # <<>> <=> input \in Inputs
    BY <2>2 DEF validateArgument
  <2> QED
    BY <1>8, <1>9, <2>1 DEF Inputs
<1>11. ~(Len(words[1]) > 1) /\ words[1] # <<>>
  BY <1>2
<1>3. Means(c) = IF first \in Inputs THEN <<ask>> ELSE <<>>
  BY DEF Means
<1>6. HdmiCommand(words) = IF first \in Inputs THEN <<Event(ask, c.to)>> ELSE <<>>
  <2> DEFINE condition == validateArgument(input, {<<"1">>, <<"2">>, <<"3">>, <<"4">>}) # <<>>
  <2>1. HdmiCommand(words) = EventsIf(condition, Event(HdmiApp(input), c.to))
    <3>1. words[1][1] = "sethdmi" /\ SubSeq(words[2], 1, 1) = input
      BY <1>2, <1>4
    <3> HIDE DEF input
    <3> QED
      BY <1>2, <1>11, <3>1 DEF HdmiCommand, EventsIf
  <2>2. condition <=> first \in Inputs
    BY <1>10
  <2> HIDE DEF condition, input
  <2>3. CASE first \in Inputs
    BY <1>8, <2>1, <2>2, <2>3 DEF EventsIf
  <2>4. CASE first \notin Inputs
    BY <2>1, <2>2, <2>4 DEF EventsIf
  <2> QED
    BY <2>3, <2>4
<1> HIDE DEF ask
<1>7. EventsOf(words) = IF first \in Inputs THEN <<Event(ask, c.to)>> ELSE <<>>
  BY <1>2, <1>5, <1>6, FamilyGives
<1> QED
  BY <1>3, <1>5, <1>7, ObeyedIfAsked, ObeyedIfNotAsked DEF words

\* A setting with a range: a number is never empty, so it is never refused.
LEMMA ColorTemperatureIsObeyed ==
  ASSUME NEW c, Told(c), c.name = "colortemperature"
  PROVE  Obeyed(c)
<1> DEFINE words == WordsOfCommand(c)
<1> DEFINE first == c.args[1]
<1> DEFINE ask == SetSetting(<<"picture">>, <<"colortemperature">>,
                         to_string(Within(atoi(first), -50, 50)))
<1>1. Arity[c.name] = 1
  BY DEF Arity
<1>2. /\ words[1] = <<c.name>> /\ Devices(words, 2) = c.to
      /\ Len(words) > 1 /\ words[2] = first /\ first \in Word
  BY <1>1, ToldWithOne
<1> HIDE DEF words
<1>4. (\A names : Is(words, names) <=> c.name \in names) /\ words[1][1] = c.name
  BY <1>2, NameIs
<1>5. /\ c.name \notin MenuFamily /\ c.name \notin CurvatureFamily /\ c.name \in ApiCommands
  BY DEF MenuFamily, CurvatureFamily, ApiCommands
<1>8. Level(first, -50, 50) # <<>>
  <2>1. first \in Seq(STRING)
    BY <1>2 DEF Word
  <2>2. atoi(first) \in Int
    BY <2>1, AtoiIsNumber
  <2> DEFINE level == Within(atoi(first), -50, 50)
  <2>3. level \in -50 .. 50
    BY <2>2 DEF Within
  <2> HIDE DEF level
  <2>4. level \in -999 .. 999
    BY <2>3
  <2>5. to_string(level) # <<>>
    BY <2>4, ToStringIsText
  <2> QED
    BY <2>5 DEF Level, level
<1>3. Means(c) = <<ask>>
  BY DEF Means
<1>6. TableCommand(words) = <<Event(ask, c.to)>>
  <2>1. Len(Setting(c.name)) = 1 /\ Setting(c.name) = <<"colortemperature">>
    BY DEF Setting
  <2>2. Level(first, -50, 50) = to_string(Within(atoi(first), -50, 50))
    BY DEF Level
  <2>3. /\ HasRange(c.name) /\ Min_(c.name) = -50 /\ Max_(c.name) = 50
        /\ c.name \in ApiCommands /\ Category(c.name) = <<"picture">>
    BY DEF HasRange, Min_, Max_, ApiCommands, Category
  <2> DEFINE argument == IF HasRange(c.name) THEN Level(first, Min_(c.name), Max_(c.name))
                                             ELSE validateArgument(first, Argument(c.name))
  <2>4. argument = Level(first, -50, 50)
    BY <2>3
  <2>5. TableCommand(words)
          = EventsIf(Is(words, ApiCommands) /\ Len(words) > 1 /\ argument # <<>>,
                     Event(IF Len(Setting(c.name)) > 1
                           THEN SetSettings(Category(c.name), Setting(c.name) \o argument)
                           ELSE SetSetting(Category(c.name), Setting(c.name), argument),
                           c.to))
    BY <1>2, <1>4 DEF TableCommand
  <2> HIDE DEF argument
  <2> QED
    BY <1>2, <1>4, <1>8, <2>1, <2>2, <2>3, <2>4, <2>5 DEF EventsIf
<1> HIDE DEF ask
<1>7. EventsOf(words) = <<Event(ask, c.to)>>
  BY <1>2, <1>5, <1>6, FamilyGives
<1> QED
  BY <1>3, <1>5, <1>7, ObeyedIfAsked DEF words

\* The icon and the label of an input.
LEMMA InputTypeIsObeyed ==
  ASSUME NEW c, Told(c), c.name = "set_input_type"
  PROVE  Obeyed(c)
<1> DEFINE words == WordsOfCommand(c)
<1> DEFINE first == c.args[1]
<1> DEFINE ask == SetDeviceInfo(first, c.args[2], c.args[3])
<1>1. Arity[c.name] = 3
  BY DEF Arity
<1>2. /\ words[1] = <<c.name>> /\ Devices(words, 4) = c.to /\ Len(words) > 3
      /\ words[2] = first /\ words[3] = c.args[2] /\ words[4] = c.args[3]
  BY <1>1, ToldWithThree
<1> HIDE DEF words
<1>4. (\A names : Is(words, names) <=> c.name \in names) /\ words[1][1] = c.name
  BY <1>2, NameIs
<1>5. /\ c.name \notin MenuFamily /\ c.name \notin CurvatureFamily /\ c.name \in InputTypeFamily
  BY DEF MenuFamily, CurvatureFamily, InputTypeFamily
<1>3. Means(c) = <<ask>>
  BY DEF Means
<1>6. InputTypeCommand(words) = <<Event(ask, c.to)>>
  BY <1>2, <1>4 DEF InputTypeCommand, EventsIf
<1> HIDE DEF ask
<1>7. EventsOf(words) = <<Event(ask, c.to)>>
  BY <1>2, <1>5, <1>6, FamilyGives
<1> QED
  BY <1>3, <1>5, <1>7, ObeyedIfAsked DEF words

-----------------------------------------------------------------------------
(* Commands that the daemon writes anew as messages, and reads again.       *)

\* What holds of the pairs of two lists, and of those of two others, holds when they are joined.
LEMMA BothConcat ==
  ASSUME NEW R, NEW A, NEW a \in Seq(A), NEW c \in Seq(A), NEW b \in Seq(A), NEW d \in Seq(A),
         Len(a) = Len(c), Len(b) = Len(d),
         \A i \in 1 .. Len(a) : <<a[i], c[i]>> \in R, \A i \in 1 .. Len(b) : <<b[i], d[i]>> \in R
  PROVE  /\ a \o b \in Seq(A) /\ c \o d \in Seq(A) /\ Len(a \o b) = Len(c \o d)
         /\ \A i \in 1 .. Len(a \o b) : <<(a \o b)[i], (c \o d)[i]>> \in R
<1> DEFINE n == Len(a)
<1> DEFINE m == Len(b)
<1> DEFINE u == a \o b
<1> DEFINE w == c \o d
<1>1. n \in Nat /\ m \in Nat
  OBVIOUS
<1>2. u \in Seq(A) /\ Len(u) = n + m
      /\ \A i \in 1 .. n + m : u[i] = IF i <= n THEN a[i] ELSE b[i - n]
  BY ConcatProperties
<1>3. w \in Seq(A) /\ Len(w) = n + m
      /\ \A i \in 1 .. n + m : w[i] = IF i <= n THEN c[i] ELSE d[i - n]
  <2>1. /\ w \in Seq(A) /\ Len(w) = Len(c) + Len(d)
        /\ \A i \in 1 .. Len(c) + Len(d) : w[i] = IF i <= Len(c) THEN c[i] ELSE d[i - Len(c)]
    BY ConcatProperties
  <2>2. Len(c) = n /\ Len(d) = m
    OBVIOUS
  <2> QED
    BY ONLY <2>1, <2>2
<1>4. (\A i \in 1 .. n : <<a[i], c[i]>> \in R) /\ \A i \in 1 .. m : <<b[i], d[i]>> \in R
  OBVIOUS
<1> HIDE DEF n, m, u, w
<1>5. ASSUME NEW i \in 1 .. n + m PROVE <<u[i], w[i]>> \in R
  <2>1. CASE i <= n
    <3>1. i \in 1 .. n
      BY <1>1, <2>1
    <3>2. u[i] = a[i] /\ w[i] = c[i]
      BY <1>2, <1>3, <2>1
    <3> QED
      BY <1>4, <3>1, <3>2
  <2>2. CASE ~(i <= n)
    <3> DEFINE j == i - n
    <3>1. j \in 1 .. m
      BY <1>1, <2>2
    <3>2. u[i] = b[j] /\ w[i] = d[j]
      BY <1>2, <1>3, <2>2
    <3> HIDE DEF j
    <3> QED
      BY <1>4, <3>1, <3>2
  <2> QED
    BY <2>1, <2>2
<1> QED
  BY <1>2, <1>3, <1>5 DEF u, w

\* Texts one before the other.
InRow(x, y, z, t) == x \o (y \o (z \o t))

InTurn(x, y, z, t) == ((x \o y) \o z) \o t

\* Joined from the right, or from the left.
LEMMA FourInRow ==
  ASSUME NEW U, NEW x \in Seq(U), NEW y \in Seq(U), NEW z \in Seq(U), NEW t \in Seq(U)
  PROVE  InRow(x, y, z, t) = InTurn(x, y, z, t)
<1>1. z \o t \in Seq(U) /\ x \o y \in Seq(U)
  OBVIOUS
<1> DEFINE u == z \o t
<1> DEFINE v == x \o y
<1>2. u \in Seq(U) /\ v \in Seq(U) /\ x \in Seq(U) /\ y \in Seq(U) /\ z \in Seq(U) /\ t \in Seq(U)
  BY <1>1
<1>3. u = z \o t /\ v = x \o y
  OBVIOUS
<1> HIDE DEF u, v
<1>4. (x \o y) \o u = x \o (y \o u)
  BY ONLY <1>2, Associative
<1>5. (v \o z) \o t = v \o (z \o t)
  BY ONLY <1>2, Associative
<1> QED
  BY ONLY <1>3, <1>4, <1>5 DEF InRow, InTurn

\* One piece with a blank before it, and two.
LEMMA BlankedOne ==
  ASSUME NEW U, Blank \in U, NEW x \in Seq(U)
  PROVE  FlattenSeq(Blanked(<<x>>)) = <<Blank>> \o x
<1> DEFINE q == <<>>
<1>1. q \in Seq(Seq(U)) /\ Blanked(q) = <<>> /\ <<x>> \o q = <<x>> /\ x \o <<>> = x
  BY DEF Blanked
<1> HIDE DEF q
<1>2. FlattenSeq(Blanked(<<x>> \o q)) = <<Blank>> \o (x \o FlattenSeq(Blanked(q)))
  BY <1>1, BlankedMore
<1> QED
  BY <1>1, <1>2, FlattenNone

\* Two pieces with their blanks.
LEMMA BlankedTwo ==
  ASSUME NEW U, Blank \in U, NEW x \in Seq(U), NEW y \in Seq(U)
  PROVE  FlattenSeq(Blanked(<<x, y>>)) = <<Blank>> \o (x \o (<<Blank>> \o y))
<1>1. <<y>> \in Seq(Seq(U)) /\ <<x>> \o <<y>> = <<x, y>>
  BY PairIs
<1>2. FlattenSeq(Blanked(<<x>> \o <<y>>)) = <<Blank>> \o (x \o FlattenSeq(Blanked(<<y>>)))
  BY <1>1, BlankedMore
<1> QED
  BY <1>1, <1>2, BlankedOne

\* A line with a hyphen: its name, and the pieces behind it.
LineText(name, q) == <<Dash>> \o (<<name>> \o FlattenSeq(Blanked(q)))

\* The same, as the daemon writes it.
TextWithOne(name, x) == <<Dash, name, Blank>> \o x

TextWithTwo(name, y, x) == <<Dash, name, Blank, y, Blank>> \o x

\* A text of a name and a word.
LEMMA TextWithOneIs ==
  ASSUME NEW name \in Symbols, NEW x \in Seq(Symbols)
  PROVE  TextWithOne(name, x) = LineText(name, <<x>>)
<1> DEFINE U == Symbols
<1> DEFINE a == <<Dash>>
<1> DEFINE b == <<name>>
<1> DEFINE c == <<Blank>>
<1> DEFINE bc == <<name, Blank>>
<1>1. Dash \in U /\ Blank \in U /\ name \in U
  BY DEF Symbols
<1>2. a \in Seq(U) /\ b \in Seq(U) /\ c \in Seq(U) /\ bc \in Seq(U)
  <2> HIDE DEF U
  <2> QED
    BY <1>1
<1>9. x \in Seq(U)
  OBVIOUS
<1>3. b \o c = bc /\ a \o bc = <<Dash, name, Blank>>
  BY PairIs, TripleIs
<1>4. FlattenSeq(Blanked(<<x>>)) = c \o x
  <2> HIDE DEF U
  <2> QED
    BY <1>1, <1>9, BlankedOne
<1> HIDE DEF U, a, b, c, bc
<1>10. a \in Seq(U) /\ b \in Seq(U) /\ c \in Seq(U)
  BY <1>2
<1>11. InRow(a, b, c, x) = InTurn(a, b, c, x)
  BY ONLY <1>9, <1>10, FourInRow
<1>5. a \o (b \o (c \o x)) = ((a \o b) \o c) \o x
  BY ONLY <1>11 DEF InRow, InTurn
<1>6. (a \o b) \o c = a \o (b \o c)
  BY ONLY <1>10, Associative
<1>7. TextWithOne(name, x) = (a \o bc) \o x
  BY <1>3 DEF TextWithOne
<1>8. LineText(name, <<x>>) = a \o (b \o (c \o x))
  BY <1>4 DEF LineText, a, b
<1> QED
  BY <1>3, <1>5, <1>6, <1>7, <1>8

\* A text of a name and two words.
LEMMA TextWithTwoIs ==
  ASSUME NEW name \in Symbols, NEW y \in Symbols, NEW x \in Seq(Symbols)
  PROVE  TextWithTwo(name, y, x) = LineText(name, <<<<y>>, x>>)
<1> DEFINE U == Symbols
<1> DEFINE a == <<Dash>>
<1> DEFINE b == <<name>>
<1> DEFINE c == <<Blank>>
<1> DEFINE h == <<Dash, name, Blank>>
<1> DEFINE e == <<y>>
<1> DEFINE k == <<y, Blank>>
<1>1. Dash \in U /\ Blank \in U /\ name \in U /\ y \in U
  BY DEF Symbols
<1>2. /\ a \in Seq(U) /\ b \in Seq(U) /\ c \in Seq(U) /\ h \in Seq(U) /\ e \in Seq(U)
      /\ k \in Seq(U)
  <2> HIDE DEF U
  <2> QED
    BY <1>1
<1>18. x \in Seq(U)
  OBVIOUS
<1>3. /\ b \o c = <<name, Blank>> /\ a \o <<name, Blank>> = h /\ e \o c = k
  BY PairIs, TripleIs
<1>4. h \o k = <<Dash, name, Blank, y, Blank>>
  <2> DEFINE u == h \o k
  <2> DEFINE l == <<Dash, name, Blank, y, Blank>>
  <2>1. Len(h) = 3 /\ Len(k) = 2 /\ Len(l) = 5
    OBVIOUS
  <2>9. l \in Seq(U)
    <3> HIDE DEF U
    <3> QED
      BY <1>1
  <2>2. u \in Seq(U) /\ Len(u) = 5
    BY <1>2, <2>1, ConcatProperties
  <2>3. \A i \in 1 .. 3 + 2 : u[i] = IF i <= 3 THEN h[i] ELSE k[i - 3]
    BY <1>2, <2>1, ConcatProperties
  <2>4. u[1] = h[1] /\ u[2] = h[2] /\ u[3] = h[3] /\ u[4] = k[1] /\ u[5] = k[2]
    <3> HIDE DEF u, h, k
    <3>1. 4 - 3 = 1 /\ 5 - 3 = 2
      OBVIOUS
    <3> QED
      BY <2>3, <3>1
  <2>5. /\ h[1] = l[1] /\ h[2] = l[2] /\ h[3] = l[3] /\ k[1] = l[4] /\ k[2] = l[5]
    OBVIOUS
  <2> HIDE DEF u, h, k, l
  <2>6. \A i \in 1 .. 5 : i = 1 \/ i = 2 \/ i = 3 \/ i = 4 \/ i = 5
    OBVIOUS
  <2>7. \A i \in 1 .. 5 : u[i] = l[i]
    BY <2>4, <2>5, <2>6
  <2>8. u = l
    BY <2>1, <2>2, <2>7, <2>9, SeqEqual
  <2> QED
    BY <2>8 DEF u, l
<1>5. FlattenSeq(Blanked(<<e, x>>)) = c \o (e \o (c \o x))
  <2>1. e \in Seq(U)
    BY <1>2
  <2> HIDE DEF U, e
  <2> QED
    BY <1>1, <1>18, <2>1, BlankedTwo
<1>6. TextWithTwo(name, y, x) = (h \o k) \o x
  BY <1>4 DEF TextWithTwo
<1>7. LineText(name, <<e, x>>) = a \o (b \o (c \o (e \o (c \o x))))
  BY <1>5 DEF LineText
<1> DEFINE t == e \o (c \o x)
<1>8. t = e \o (c \o x)
  OBVIOUS
<1> HIDE DEF U, a, b, c, h, k, e
<1>19. c \in Seq(U) /\ e \in Seq(U) /\ x \in Seq(U)
  BY <1>2, <1>18
<1>9. t \in Seq(U)
  BY <1>19
<1> HIDE DEF t
<1>20. a \in Seq(U) /\ b \in Seq(U) /\ c \in Seq(U)
  BY <1>2
<1>22. InRow(a, b, c, t) = InTurn(a, b, c, t)
  BY ONLY <1>9, <1>20, FourInRow
<1>10. a \o (b \o (c \o t)) = ((a \o b) \o c) \o t
  BY ONLY <1>22 DEF InRow, InTurn
<1>11. (a \o b) \o c = a \o (b \o c)
  BY ONLY <1>20, Associative
<1>12. (e \o c) \o x = e \o (c \o x)
  BY ONLY <1>19, Associative
<1>21. h \in Seq(U) /\ k \in Seq(U) /\ x \in Seq(U)
  BY <1>2, <1>18
<1>13. (h \o k) \o x = h \o (k \o x)
  BY ONLY <1>21, Associative
<1>14. (a \o b) \o c = h
  BY <1>3, <1>11
<1>15. k \o x = t
  BY <1>3, <1>8, <1>12
<1>16. LineText(name, <<e, x>>) = h \o t
  BY <1>7, <1>8, <1>10, <1>14
<1>17. TextWithTwo(name, y, x) = LineText(name, <<e, x>>)
  BY <1>6, <1>13, <1>15, <1>16
<1> QED
  BY <1>17 DEF e

\* A piece of one symbol.
LEMMA OneSymbolFits ==
  ASSUME NEW x, x \notin {Blank, Dash, Quote}
  PROVE  Fits(<<x>>, <<x>>)
<1>1. Len(<<x>>) = 1 /\ <<x>>[1] = x /\ <<x>> # <<>>
  OBVIOUS
<1>2. Bare(<<x>>) /\ ~TwoSymbols(<<x>>, Blank, Dash)
  BY <1>1 DEF Bare, TwoSymbols
<1> QED
  BY <1>1, <1>2 DEF Fits, Spells

\* A name of a display that needs no quotes.
NeedsNoQuotes(word) == Blank \notin ToSet(word) /\ word[1] \notin {Dash, Quote}

\* Such a name is read as it stands.
LEMMA NameIsBare ==
  ASSUME NEW word \in Word, NeedsNoQuotes(word)
  PROVE  word \in Seq(Symbols) /\ Fits(word, word) /\ replaceAll(word, Escaped, Quote) = word
<1>1. word \in Seq(Symbols) /\ word \in Seq(STRING) /\ word # <<>> /\ Escaped \notin ToSet(word)
  BY EscapedIs DEF Word
<1>2. \A i \in 1 .. Len(word) : word[i] # Blank /\ word[i] # Escaped
  BY <1>1 DEF NeedsNoQuotes, ToSet
<1>3. Bare(word) /\ word[1] # Dash
  BY <1>1, <1>2 DEF Bare, NeedsNoQuotes
<1>4. ~TwoSymbols(word, Blank, Dash)
  <2>1. Len(word) \in Nat
    BY <1>1
  <2>2. \A i \in 1 .. Len(word) - 1 : i \in 1 .. Len(word)
    BY <2>1
  <2> QED
    BY <1>2, <2>2 DEF TwoSymbols
<1>5. replaceAll(word, Escaped, Quote) = word
  <2>1. word = [i \in 1 .. Len(word) |-> word[i]] /\ DOMAIN word = 1 .. Len(word)
    BY <1>1
  <2>2. replaceAll(word, Escaped, Quote) = [i \in 1 .. Len(word) |-> word[i]]
    BY <1>2, <2>1 DEF replaceAll
  <2> QED
    BY <2>1, <2>2
<1> QED
  BY <1>1, <1>3, <1>4, <1>5 DEF Fits, Spells

\* The words of a line, when the quotes in them are back.
LEMMA LineReadIs ==
  ASSUME NEW name \in Symbols, name # Escaped, NEW line \in Seq(Symbols),
         NEW v \in Seq(Seq(Symbols)), LineSays(line, <<<<name>>>> \o v),
         NEW g \in Seq(Seq(Symbols)), Len(g) = Len(v),
         \A k \in 1 .. Len(v) : replaceAll(v[k], Escaped, Quote) = g[k]
  PROVE  IsLine(line) /\ WordsOf(line) = <<<<name>>>> \o g
<1> DEFINE W == Seq(Symbols)
<1> DEFINE x == <<name>>
<1> DEFINE w == <<x>> \o v
<1> DEFINE z == <<x>> \o g
<1> DEFINE n == Len(v)
<1>1. x \in W /\ n \in Nat /\ v \in Seq(W) /\ g \in Seq(W)
  OBVIOUS
<1>2. replaceAll(x, Escaped, Quote) = x
  BY DEF replaceAll
<1>3. /\ w \in Seq(W) /\ Len(w) = n + 1 /\ w[1] = x /\ \A i \in 1 .. n : w[i + 1] = v[i]
  <2> HIDE DEF x, W
  <2> QED
    BY ONLY <1>1, OneMore
<1>4. /\ z \in Seq(W) /\ Len(z) = n + 1 /\ z[1] = x /\ \A i \in 1 .. n : z[i + 1] = g[i]
  <2>1. Len(g) = n
    OBVIOUS
  <2> HIDE DEF x, W
  <2>2. /\ z \in Seq(W) /\ Len(z) = Len(g) + 1 /\ z[1] = x
        /\ \A i \in 1 .. Len(g) : z[i + 1] = g[i]
    BY ONLY <1>1, OneMore
  <2> QED
    BY <2>1, <2>2
<1>5. stringsplit(line) = w /\ IsLine(line)
  <2>1. w \in Seq(Seq(Symbols)) /\ LineSays(line, w)
    BY <1>3
  <2> HIDE DEF w
  <2> QED
    BY <2>1, LineIsRead
<1>6. \A k \in 1 .. n : replaceAll(v[k], Escaped, Quote) = g[k]
  OBVIOUS
<1> HIDE DEF x, w, z, n
<1>7. \A i \in 1 .. n + 1 : replaceAll(w[i], Escaped, Quote) = z[i]
  <2> SUFFICES ASSUME NEW i \in 1 .. n + 1 PROVE replaceAll(w[i], Escaped, Quote) = z[i]
    OBVIOUS
  <2> DEFINE j == i - 1
  <2>1. i = 1 \/ (j \in 1 .. n /\ j + 1 = i)
    BY <1>1
  <2> HIDE DEF j
  <2>2. CASE i = 1
    BY <1>2, <1>3, <1>4, <2>2
  <2>3. CASE j \in 1 .. n /\ j + 1 = i
    BY <1>3, <1>4, <1>6, <2>3
  <2> QED
    BY <2>1, <2>2, <2>3
<1>8. WordsOf(line) = z
  <2>1. DOMAIN w = 1 .. n + 1
    BY <1>3
  <2>2. WordsOf(line) = [i \in 1 .. n + 1 |-> replaceAll(w[i], Escaped, Quote)]
    BY <1>5, <2>1 DEF WordsOf
  <2>3. WordsOf(line) = [i \in 1 .. n + 1 |-> z[i]]
    BY <1>7, <2>2
  <2>4. z = [i \in 1 .. n + 1 |-> z[i]]
    BY <1>4
  <2> QED
    BY <2>3, <2>4
<1> QED
  BY <1>5, <1>8 DEF z, x

\* The text holds one command line, with these words.
Anewly(text, name, args, to) ==
    \E line \in Seq(Symbols) : /\ CommandLines(text) = <<line>> /\ WordsOf(line) # <<>>
                               /\ Consists(WordsOf(line), <<name>>, args, to)

\* A text that is one line.
LEMMA OneLineIsCut ==
  ASSUME NEW line \in Seq(Symbols), IsLine(line)
  PROVE  CommandLines(<<Dash>> \o line) = <<line>>
<1> DEFINE U == Symbols
<1> DEFINE d == <<Dash>>
<1> DEFINE t == d \o line
<1> DEFINE lines == <<line>>
<1>1. Dash \in U /\ Blank \in U /\ line \in Seq(U)
  BY DEF Symbols
<1>2. d \in Seq(U) /\ t \in Seq(U) /\ lines \in Seq(Seq(U)) /\ lines # <<>>
  <2> HIDE DEF U
  <2> QED
    BY <1>1
<1>3. \A i \in 1 .. Len(lines) : IsLine(lines[i])
  OBVIOUS
<1>4. [i \in 1 .. Len(lines) |-> <<Dash>> \o lines[i]] = <<t>>
  <2>1. Len(lines) = 1 /\ lines[1] = line
    OBVIOUS
  <2> HIDE DEF lines
  <2>2. [i \in 1 .. Len(lines) |-> <<Dash>> \o lines[i]] = [i \in 1 .. 1 |-> t]
    BY <2>1
  <2> HIDE DEF t
  <2>3. <<t>> = [i \in 1 .. 1 |-> t]
    OBVIOUS
  <2> QED
    BY <2>2, <2>3
<1>5. <<Blank>> \o t = FlattenSeq(Blanked(<<t>>))
  <2>1. t \in Seq(U)
    BY <1>2
  <2> HIDE DEF t, U
  <2> QED
    BY <1>1, <2>1, BlankedOne
<1>6. t \in Seq(Symbols) /\ lines \in Seq(Seq(Symbols)) /\ lines # <<>>
  BY <1>2
<1> HIDE DEF lines, t, U
<1>7. <<Blank>> \o t = FlattenSeq(Blanked([i \in 1 .. Len(lines) |-> <<Dash>> \o lines[i]]))
  BY <1>4, <1>5
<1>8. CommandLines(t) = lines
  BY ONLY <1>3, <1>6, <1>7, MessageIsCut
<1> QED
  BY <1>8 DEF t, lines

\* A blank before each of two lists.
LEMMA BlankedConcat ==
  ASSUME NEW U, Blank \in U, NEW s \in Seq(Seq(U)), NEW t \in Seq(Seq(U))
  PROVE  /\ Blanked(s) \in Seq(Seq(U)) /\ Blanked(t) \in Seq(Seq(U))
         /\ Blanked(s \o t) = Blanked(s) \o Blanked(t)
<1> DEFINE W == Seq(U)
<1> DEFINE b == <<Blank>>
<1>1. \A y \in W : b \o y \in W
  OBVIOUS
<1>2. ASSUME NEW r \in Seq(W)
      PROVE  /\ Blanked(r) \in Seq(W) /\ Len(Blanked(r)) = Len(r)
             /\ \A i \in 1 .. Len(r) : Blanked(r)[i] = b \o r[i]
  <2> DEFINE n == Len(r)
  <2> DEFINE u == Blanked(r)
  <2>1. n \in Nat /\ DOMAIN r = 1 .. n /\ \A i \in 1 .. n : r[i] \in W
    BY <1>2
  <2>2. u = [i \in 1 .. n |-> u[i]] /\ \A i \in 1 .. n : u[i] = b \o r[i]
    BY <2>1 DEF Blanked
  <2> HIDE DEF u, n, b, W
  <2>3. \A i \in 1 .. n : u[i] \in W
    BY <1>1, <2>1, <2>2
  <2>4. u \in Seq(W) /\ Len(u) = n
    BY ONLY <2>1, <2>2, <2>3, ListIs
  <2> QED
    BY <2>2, <2>4 DEF u, n
<1> DEFINE st == s \o t
<1>3. /\ st \in Seq(W) /\ Len(st) = Len(s) + Len(t)
      /\ \A i \in 1 .. Len(s) + Len(t) : st[i] = IF i <= Len(s) THEN s[i] ELSE t[i - Len(s)]
  BY ConcatProperties
<1> DEFINE n == Len(s)
<1> DEFINE m == Len(t)
<1> DEFINE x == Blanked(s)
<1> DEFINE y == Blanked(t)
<1> DEFINE u == Blanked(st)
<1>4. n \in Nat /\ m \in Nat /\ s \in Seq(W) /\ t \in Seq(W)
  OBVIOUS
<1> HIDE DEF W, b
<1>5. /\ x \in Seq(W) /\ Len(x) = n /\ \A i \in 1 .. n : x[i] = b \o s[i]
      /\ y \in Seq(W) /\ Len(y) = m /\ \A i \in 1 .. m : y[i] = b \o t[i]
  BY <1>2, <1>4
<1>6. u \in Seq(W) /\ Len(u) = n + m /\ \A i \in 1 .. n + m : u[i] = b \o st[i]
  <2> HIDE DEF st
  <2> QED
    BY <1>2, <1>3
<1>7. \A i \in 1 .. n + m : st[i] = IF i <= n THEN s[i] ELSE t[i - n]
  BY <1>3
<1> HIDE DEF st, n, m, x, y, u
<1>8. \A i \in 1 .. n + m : u[i] = IF i <= n THEN x[i] ELSE y[i - n]
  <2> SUFFICES ASSUME NEW i \in 1 .. n + m PROVE u[i] = IF i <= n THEN x[i] ELSE y[i - n]
    OBVIOUS
  <2>1. CASE i <= n
    <3>1. i \in 1 .. n
      BY <1>4, <2>1
    <3> QED
      BY <1>5, <1>6, <1>7, <2>1, <3>1
  <2>2. CASE ~(i <= n)
    <3> DEFINE j == i - n
    <3>1. j \in 1 .. m
      BY <1>4, <2>2
    <3>2. st[i] = t[j]
      BY <1>7, <2>2
    <3> HIDE DEF j
    <3>3. u[i] = y[j]
      BY <1>5, <1>6, <3>1, <3>2
    <3> QED
      BY <2>2, <3>3 DEF j
  <2> QED
    BY <2>1, <2>2
<1>9. u \in [1 .. n + m -> W]
  BY <1>6
<1>10. u = x \o y
  <2>1. x \in Seq(W) /\ y \in Seq(W) /\ n \in Nat /\ m \in Nat /\ Len(x) = n /\ Len(y) = m
    BY <1>4, <1>5
  <2> QED
    BY ONLY <1>8, <1>9, <2>1, ConcatIs, ZenonT(60)
<1> QED
  BY <1>5, <1>10 DEF x, y, u, st, W

\* A command that is written anew is one line, and its words are what was written.
LEMMA AnewIs ==
  ASSUME NEW name \in Symbols, name \notin {Blank, Dash, Quote, Escaped},
         NEW q \in Seq(Seq(Symbols)), NEW v \in Seq(Seq(Symbols)), NEW args \in Seq(Seq(Symbols)),
         Len(q) = Len(v), Len(v) = Len(args),
         \A k \in 1 .. Len(q) : Fits(q[k], v[k]),
         \A k \in 1 .. Len(v) : replaceAll(v[k], Escaped, Quote) = args[k],
         NEW to \in Seq(Word), \A i \in DOMAIN to : NeedsNoQuotes(to[i])
  PROVE  Anewly(WithDevices(LineText(name, q), to), name, args, to)
<1> DEFINE A == Seq(Symbols)
<1> DEFINE p == q \o to
<1> DEFINE w == v \o to
<1> DEFINE g == args \o to
<1>1. \A i \in 1 .. Len(to) : to[i] \in A /\ Fits(to[i], to[i])
      /\ replaceAll(to[i], Escaped, Quote) = to[i]
  <2> SUFFICES ASSUME NEW i \in 1 .. Len(to)
               PROVE  to[i] \in A /\ Fits(to[i], to[i]) /\ replaceAll(to[i], Escaped, Quote) = to[i]
    OBVIOUS
  <2>1. to[i] \in Word /\ NeedsNoQuotes(to[i])
    OBVIOUS
  <2> QED
    BY <2>1, NameIsBare
<1>2. to \in Seq(A) /\ q \in Seq(A) /\ v \in Seq(A) /\ args \in Seq(A)
  <2>1. to = [i \in 1 .. Len(to) |-> to[i]] /\ Len(to) \in Nat
    OBVIOUS
  <2> DEFINE m == Len(to)
  <2>2. to = [i \in 1 .. m |-> to[i]] /\ m \in Nat /\ \A i \in 1 .. m : to[i] \in A
    BY <1>1, <2>1
  <2> HIDE DEF A, m
  <2>3. to \in Seq(A)
    BY ONLY <2>2, ListIs
  <2> QED
    BY <2>3 DEF A
<1> DEFINE R == {r \in A \X A : Fits(r[1], r[2])}
<1>3. /\ p \in Seq(A) /\ w \in Seq(A) /\ Len(p) = Len(w)
      /\ \A i \in 1 .. Len(p) : Fits(p[i], w[i])
  <2>1. \A i \in 1 .. Len(q) : <<q[i], v[i]>> \in R
    <3>1. \A i \in 1 .. Len(q) : q[i] \in A /\ v[i] \in A
      BY <1>2
    <3> HIDE DEF A
    <3> QED
      BY <3>1
  <2>2. \A i \in 1 .. Len(to) : <<to[i], to[i]>> \in R
    <3> HIDE DEF A
    <3> QED
      BY <1>1
  <2>3. Len(q) = Len(v) /\ Len(to) = Len(to)
    OBVIOUS
  <2> HIDE DEF A, R
  <2>4. /\ p \in Seq(A) /\ w \in Seq(A) /\ Len(p) = Len(w)
        /\ \A i \in 1 .. Len(p) : <<p[i], w[i]>> \in R
    BY ONLY <1>2, <2>1, <2>2, <2>3, BothConcat
  <2>5. \A i \in 1 .. Len(p) : Fits(p[i], w[i])
    <3> HIDE DEF p, w
    <3> QED
      BY <2>4 DEF R
  <2> QED
    BY <2>4, <2>5
<1> DEFINE R2 == {r \in A \X A : replaceAll(r[1], Escaped, Quote) = r[2]}
<1>4. /\ g \in Seq(A) /\ Len(g) = Len(w)
      /\ \A i \in 1 .. Len(w) : replaceAll(w[i], Escaped, Quote) = g[i]
  <2>1. \A i \in 1 .. Len(v) : <<v[i], args[i]>> \in R2
    <3>1. \A i \in 1 .. Len(v) : v[i] \in A /\ args[i] \in A
      BY <1>2
    <3> HIDE DEF A
    <3> QED
      BY <3>1
  <2>2. \A i \in 1 .. Len(to) : <<to[i], to[i]>> \in R2
    <3> HIDE DEF A
    <3> QED
      BY <1>1
  <2>3. Len(v) = Len(args) /\ Len(to) = Len(to)
    OBVIOUS
  <2> HIDE DEF A, R2
  <2>4. /\ w \in Seq(A) /\ g \in Seq(A) /\ Len(w) = Len(g)
        /\ \A i \in 1 .. Len(w) : <<w[i], g[i]>> \in R2
    BY ONLY <1>2, <2>1, <2>2, <2>3, BothConcat
  <2>5. \A i \in 1 .. Len(w) : replaceAll(w[i], Escaped, Quote) = g[i]
    <3> HIDE DEF w, g
    <3> QED
      BY <2>4 DEF R2
  <2> QED
    BY <2>4, <2>5
<1> DEFINE x == <<name>>
<1> DEFINE line == x \o FlattenSeq(Blanked(p))
<1>5. x \in A /\ Fits(x, x)
  BY OneSymbolFits
<1>6. line \in A /\ LineSays(line, <<x>> \o w)
  <2> HIDE DEF p, w, x
  <2> QED
    BY <1>3, <1>5, LineOfPieces
<1>7. IsLine(line) /\ WordsOf(line) = <<x>> \o g
  <2>1. name \in Symbols /\ name # Escaped
    OBVIOUS
  <2> HIDE DEF line, p, w, g
  <2> QED
    BY <1>3, <1>4, <1>6, <2>1, LineReadIs
<1>8. <<x>> \o g = Written(x, args, to)
  <2>1. <<x>> \in Seq(A)
    BY <1>5
  <2> HIDE DEF x, A
  <2>2. (<<x>> \o args) \o to = <<x>> \o (args \o to)
    BY <1>2, <2>1, Associative
  <2> QED
    BY <2>2 DEF Written
<1>9. Consists(WordsOf(line), x, args, to)
  <2> HIDE DEF x, line, g, A
  <2> QED
    BY <1>2, <1>7, <1>8, WrittenIs
<1>10. WordsOf(line) # <<>>
  <2>1. Len(<<x>> \o g) = Len(g) + 1
    <3>1. g \in Seq(A) /\ x \in A
      BY <1>4, <1>5
    <3> HIDE DEF g, x, A
    <3> QED
      BY <3>1, OneMore
  <2>2. Len(g) \in Nat
    BY <1>4
  <2> HIDE DEF line, g, x
  <2>3. Len(WordsOf(line)) # 0
    BY <1>7, <2>1, <2>2
  <2> QED
    BY <2>3
<1>11. WithDevices(LineText(name, q), to) = <<Dash>> \o line
  <2> DEFINE b == FlattenSeq(Blanked(q))
  <2> DEFINE e == FlattenSeq(Blanked(to))
  <2> DEFINE d == <<Dash>>
  <2>1. d \in A
    <3>1. Dash \in Symbols
      BY DEF Symbols
    <3> QED
      BY <3>1
  <2>2. WithDevices(LineText(name, q), to) = (d \o (x \o b)) \o e
    BY DEF WithDevices, LineText, Blanked
  <2>3. /\ Blanked(q) \in Seq(A) /\ Blanked(to) \in Seq(A)
        /\ Blanked(q \o to) = Blanked(q) \o Blanked(to)
    BY <1>2, BlankedConcat DEF Symbols
  <2>4. FlattenSeq(Blanked(p)) = b \o e /\ b \in A /\ e \in A
    <3> DEFINE s == Blanked(q)
    <3> DEFINE t == Blanked(to)
    <3>1. s \in Seq(Seq(Symbols)) /\ t \in Seq(Seq(Symbols)) /\ Blanked(p) = s \o t
      BY <2>3
    <3> HIDE DEF s, t, p
    <3>2. FlattenSeq(s \o t) = FlattenSeq(s) \o FlattenSeq(t)
      BY ONLY <3>1, FlattenConcat
    <3>3. FlattenSeq(s) \in A /\ FlattenSeq(t) \in A
      BY <3>1, FlattenType
    <3> QED
      BY <3>1, <3>2, <3>3 DEF s, t
  <2> HIDE DEF b, e, d
  <2>5. line = x \o (b \o e)
    BY <2>4
  <2> HIDE DEF x, line
  <2>6. d \in A /\ x \in A /\ b \in A /\ e \in A
    BY <1>5, <2>1, <2>4
  <2>7. (x \o b) \o e = x \o (b \o e)
    BY ONLY <2>6, Associative
  <2> DEFINE xb == x \o b
  <2>8. xb \in A
    BY <2>6
  <2>9. xb = x \o b
    OBVIOUS
  <2> HIDE DEF xb
  <2>10. (d \o xb) \o e = d \o (xb \o e)
    <3>1. d \in A /\ xb \in A /\ e \in A
      BY <2>6, <2>8
    <3> QED
      BY ONLY <3>1, Associative
  <2> QED
    BY <2>2, <2>5, <2>7, <2>9, <2>10 DEF d
<1>12. CommandLines(<<Dash>> \o line) = <<line>>
  <2> HIDE DEF line
  <2> QED
    BY <1>6, <1>7, OneLineIsCut
<1> HIDE DEF line
<1> QED
  BY <1>6, <1>9, <1>10, <1>11, <1>12 DEF Anewly, x

\* A list of lists of one is a list.
LEMMA FlattenSingletons ==
  ASSUME NEW U, NEW s \in Seq(U)
  PROVE  FlattenSeq([i \in 1 .. Len(s) |-> <<s[i]>>]) = s
<1> DEFINE n == Len(s)
<1> DEFINE e == [i \in 1 .. n |-> <<s[i]>>]
<1> DEFINE W == Seq(U)
<1>1. n \in Nat /\ s = [i \in 1 .. n |-> s[i]] /\ \A i \in 1 .. n : s[i] \in U
  OBVIOUS
<1>2. e = [i \in 1 .. n |-> e[i]] /\ \A i \in 1 .. n : e[i] = <<s[i]>> /\ e[i] \in W
  BY <1>1
<1> HIDE DEF e, n, W
<1>3. e \in Seq(W) /\ Len(e) = n
  BY ONLY <1>1, <1>2, ListIs
<1> DEFINE S == {k \in 0 .. n : FlattenSeq(Prefix(e, k)) = Prefix(s, k)}
<1>4. 0 \in S
  <2>1. Prefix(e, 0) = <<>> /\ Prefix(s, 0) = <<>>
    BY DEF Prefix
  <2> QED
    BY <1>1, <2>1, FlattenNone
<1>5. \A k \in 0 .. n : k < n /\ k \in S => k + 1 \in S
  <2> SUFFICES ASSUME NEW k \in 0 .. n, k < n, k \in S PROVE k + 1 \in S
    OBVIOUS
  <2> DEFINE h == k + 1
  <2>1. h \in 1 .. n /\ h - 1 = k /\ k \in Nat /\ h \in 0 .. n
    BY <1>1
  <2>2. Prefix(s, h) = Prefix(s, k) \o <<s[h]>>
    <3>1. s \in [1 .. n -> U]
      BY <1>1
    <3>2. Prefix(s, k + 1) = Prefix(s, k) \o <<s[k + 1]>>
      BY <1>1, <2>1, <3>1, PrefixGrows
    <3> QED
      BY <3>2
  <2> HIDE DEF h
  <2>3. FlattenSeq(Prefix(e, h)) = FlattenSeq(Prefix(e, h - 1)) \o e[h]
    <3>1. e \in Seq(Seq(U)) /\ h \in 1 .. Len(e)
      BY <1>3, <2>1 DEF W
    <3> QED
      BY <3>1, FlattenParts
  <2>4. FlattenSeq(Prefix(e, h)) = Prefix(s, h)
    BY <1>2, <2>1, <2>2, <2>3
  <2>5. h \in S
    BY <2>1, <2>4
  <2> QED
    BY <2>5 DEF h
<1> HIDE DEF S
<1>6. n \in S
  <2>1. 0 .. n \subseteq S
    BY <1>1, <1>4, <1>5, UpTo
  <2> QED
    BY <1>1, <2>1
<1>7. Prefix(e, n) = e /\ Prefix(s, n) = s
  BY <1>1, <1>2 DEF Prefix
<1>8. FlattenSeq(e) = s
  BY <1>6, <1>7 DEF S
<1> QED
  BY <1>8 DEF e, n

\* What a line is written anew as, when each message holds one line.
LEMMA BecomesLines ==
  ASSUME NEW line, NEW U, NEW lines \in Seq(U), NEW n \in Nat, Len(lines) = n, NEW messages,
         messages = MenuMessages(WordsOf(line)) \o CurvatureMessages(WordsOf(line)),
         DOMAIN messages = 1 .. n,
         \A i \in 1 .. n : CommandLines(messages[i]) = <<lines[i]>>
  PROVE  Becomes(line) = lines
<1>1. Becomes(line) = FlattenSeq([i \in DOMAIN messages |-> CommandLines(messages[i])])
  BY DEF Becomes
<1>2. [i \in DOMAIN messages |-> CommandLines(messages[i])] = [i \in 1 .. n |-> <<lines[i]>>]
  OBVIOUS
<1>3. FlattenSeq([i \in 1 .. n |-> <<lines[i]>>]) = lines
  BY FlattenSingletons
<1> QED
  BY <1>1, <1>2, <1>3

\* A line that was written anew, and that the daemon makes an event of.
LEMMA LeadsIfAsked ==
  ASSUME NEW c \in Command, NEW i \in Nat, CalledOnce(c.to), NEW line, NEW name,
         WordsOf(line) # <<>>, WordsOf(line)[1] = <<name>>,
         name \notin MenuFamily, name \notin CurvatureFamily,
         EventsOf(WordsOf(line)) = <<Event(Means(c)[i], c.to)>>
  PROVE  Leads(line, AsksOf(Means(c)[i], Bidden(c.to)))
<1> DEFINE ask == Means(c)[i]
<1> DEFINE asks == AsksOf(ask, Bidden(c.to))
<1>1. asks \in Seq(Answerable)
  BY AsksAreAnswerable
<1>2. Dispatched(<<Event(ask, c.to)>>) = asks
  <2>1. c.to \in Seq(Word)
    BY WordsAre
  <2> HIDE DEF ask
  <2> QED
    BY <2>1, DispatchedIs
<1>3. AtOnce(line) = asks
  <2>1. EventsOf(WordsOf(line)) = <<Event(ask, c.to)>>
    OBVIOUS
  <2> HIDE DEF ask, asks
  <2> QED
    BY <1>2, <2>1 DEF AtOnce
<1>4. Becomes(line) = <<>>
  <2>1. MenuMessages(WordsOf(line)) = <<>> /\ CurvatureMessages(WordsOf(line)) = <<>>
    BY OthersGiveNothing
  <2> QED
    BY <2>1, NothingBecomes
<1> HIDE DEF asks
<1>5. Leads(line, asks)
  BY <1>1, <1>3, <1>4 DEF Leads
<1> QED
  BY <1>5 DEF asks

\* A command that is written anew, as one line for each thing that it means.
LEMMA ObeyedIfAnew ==
  ASSUME NEW c, Told(c), c.name \in MenuFamily \cup CurvatureFamily,
         NEW n \in Nat, NEW M, Means(c) \in Seq(M), Len(Means(c)) = n,
         NEW lines \in Seq(Seq(Symbols)), Len(lines) = n, Becomes(LineOfCommand(c)) = lines,
         \A i \in 1 .. n : Leads(lines[i], AsksOf(Means(c)[i], Bidden(c.to)))
  PROVE  Obeyed(c)
<1> DEFINE line == LineOfCommand(c)
<1> DEFINE A == Seq(Answerable)
<1> DEFINE parts == [i \in 1 .. n |-> AsksOf(Means(c)[i], Bidden(c.to))]
<1>1. c \in Command /\ DaemonUnderstands(c)
  BY DEF Told
<1>2. WordsOf(line) = WordsOfCommand(c)
  BY <1>1, CommandIsSaid
<1>3. WordsOf(line) # <<>> /\ WordsOf(line)[1] = <<c.name>>
  <2>1. c.args \o c.to \in Seq(Word)
    BY <1>1, WordsAre
  <2>2. WordsOfCommand(c) # <<>> /\ WordsOfCommand(c)[1] = <<c.name>>
    BY <2>1 DEF WordsOfCommand
  <2> QED
    BY <1>2, <2>2
<1>4. AtOnce(line) = <<>>
  <2>1. EventsOf(WordsOf(line)) = <<>>
    BY <1>3, FamilyGives
  <2> QED
    BY <2>1, DispatchedIs DEF AtOnce
<1>5. parts \in Seq(A) /\ Len(parts) = n
  <2>1. parts = [i \in 1 .. n |-> parts[i]] /\ \A i \in 1 .. n : parts[i] \in A
    <3>1. \A i \in 1 .. n : AsksOf(Means(c)[i], Bidden(c.to)) \in A
      <4> SUFFICES ASSUME NEW i \in 1 .. n PROVE AsksOf(Means(c)[i], Bidden(c.to)) \in A
        OBVIOUS
      <4>1. i \in Nat
        OBVIOUS
      <4> QED
        BY <1>1, <4>1, AsksAreAnswerable
    <3> HIDE DEF A
    <3> QED
      BY <3>1
  <2> HIDE DEF A, parts
  <2>2. n \in Nat
    OBVIOUS
  <2> QED
    BY ONLY <2>1, <2>2, ListIs
<1>6. Asked(c) = FlattenSeq(parts)
  <2>1. DOMAIN Means(c) = 1 .. n
    OBVIOUS
  <2>2. Meant(c) = Bidden(c.to)
    BY MeantIsBidden
  <2> QED
    BY <2>1, <2>2 DEF Asked
<1>7. \A i \in 1 .. n : Leads(lines[i], parts[i])
  OBVIOUS
<1> HIDE DEF parts
<1>8. Asked(c) \in Seq(Answerable)
  BY <1>5, <1>6, FlattenType
<1>9. Gives(line, Asked(c))
  <2>1. parts \in Seq(Seq(Answerable)) /\ Len(parts) = Len(Becomes(line))
    BY <1>5
  <2>2. \A i \in 1 .. Len(parts) : Leads(Becomes(line)[i], parts[i])
    BY <1>5, <1>7
  <2>3. Becomes(line) \in Seq(Seq(Symbols))
    OBVIOUS
  <2> HIDE DEF line
  <2> QED
    BY <1>3, <1>4, <1>6, <2>1, <2>2, <2>3 DEF Gives
<1> QED
  BY <1>8, <1>9 DEF Obeyed

\* A text in quotes.
LEMMA QuotedTextFits ==
  ASSUME NEW U, NEW n \in Nat, n > 1, NEW r \in Seq(U), Len(r) = n,
         NEW x \in Seq(U), Len(x) = n + 2,
         x[1] = Quote, x[n + 2] = Quote, \A i \in 1 .. n : x[i + 1] = r[i],
         \A i \in 1 .. n : r[i] # Quote /\ r[i] # Dash
  PROVE  Fits(x, r)
<1>1. Quotes(x, r)
  BY DEF Quotes
<1>2. x[1] # Dash
  BY DEF Quote, Dash
<1>3. ~TwoSymbols(r, Blank, Dash)
  <2>1. \A i \in 1 .. n - 1 : i + 1 \in 1 .. n
    OBVIOUS
  <2> QED
    BY <2>1 DEF TwoSymbols
<1> QED
  BY <1>1, <1>2, <1>3 DEF Fits, Spells

\* A payload without its blanks is one part of it and then another.
LEMMA DumpedConcat ==
  ASSUME NEW U, NEW a \in Seq(U), NEW b \in Seq(U)
  PROVE  /\ Dumped(a) \in Seq(U) /\ Dumped(b) \in Seq(U)
         /\ Dumped(a \o b) = Dumped(a) \o Dumped(b)
<1> DEFINE W == Seq(U)
<1> DEFINE kept(y) == IF y = Blank THEN <<>> ELSE <<y>>
<1> DEFINE texts(s) == [i \in DOMAIN s |-> kept(s[i])]
<1>1. \A y \in U : kept(y) \in W
  OBVIOUS
<1>2. \A s : Dumped(s) = FlattenSeq(texts(s))
  BY DEF Dumped
<1> HIDE DEF W, kept
<1>3. ASSUME NEW s \in Seq(U)
      PROVE  /\ texts(s) \in Seq(W) /\ Len(texts(s)) = Len(s)
             /\ \A i \in 1 .. Len(s) : texts(s)[i] = kept(s[i])
  <2> DEFINE n == Len(s)
  <2> DEFINE u == texts(s)
  <2>1. n \in Nat /\ DOMAIN s = 1 .. n /\ \A i \in 1 .. n : s[i] \in U
    BY <1>3
  <2>2. u = [i \in 1 .. n |-> u[i]] /\ \A i \in 1 .. n : u[i] = kept(s[i])
    BY <2>1
  <2> HIDE DEF u, n
  <2>3. \A i \in 1 .. n : u[i] \in W
    BY <1>1, <2>1, <2>2
  <2>4. u \in Seq(W) /\ Len(u) = n
    BY ONLY <2>1, <2>2, <2>3, ListIs
  <2> QED
    BY <2>2, <2>4 DEF u, n
<1> DEFINE ab == a \o b
<1>4. /\ ab \in Seq(U) /\ Len(ab) = Len(a) + Len(b)
      /\ \A i \in 1 .. Len(a) + Len(b) : ab[i] = IF i <= Len(a) THEN a[i] ELSE b[i - Len(a)]
  BY ConcatProperties
<1> DEFINE n == Len(a)
<1> DEFINE m == Len(b)
<1> DEFINE x == texts(a)
<1> DEFINE y == texts(b)
<1> DEFINE u == texts(ab)
<1>5. n \in Nat /\ m \in Nat
  OBVIOUS
<1>6. /\ x \in Seq(W) /\ Len(x) = n /\ \A i \in 1 .. n : x[i] = kept(a[i])
      /\ y \in Seq(W) /\ Len(y) = m /\ \A i \in 1 .. m : y[i] = kept(b[i])
  BY <1>3
<1>7. u \in Seq(W) /\ Len(u) = n + m /\ \A i \in 1 .. n + m : u[i] = kept(ab[i])
  <2> HIDE DEF ab
  <2> QED
    BY <1>3, <1>4
<1>8. \A i \in 1 .. n + m : ab[i] = IF i <= n THEN a[i] ELSE b[i - n]
  BY <1>4
<1>9. Dumped(a) = FlattenSeq(x) /\ Dumped(b) = FlattenSeq(y) /\ Dumped(a \o b) = FlattenSeq(u)
  BY <1>2
<1> HIDE DEF ab, n, m, x, y, u
<1>10. \A i \in 1 .. n + m : u[i] = IF i <= n THEN x[i] ELSE y[i - n]
  <2> SUFFICES ASSUME NEW i \in 1 .. n + m PROVE u[i] = IF i <= n THEN x[i] ELSE y[i - n]
    OBVIOUS
  <2>1. CASE i <= n
    <3>1. i \in 1 .. n
      BY <1>5, <2>1
    <3> QED
      BY <1>6, <1>7, <1>8, <2>1, <3>1
  <2>2. CASE ~(i <= n)
    <3> DEFINE j == i - n
    <3>1. j \in 1 .. m
      BY <1>5, <2>2
    <3>2. ab[i] = b[j]
      BY <1>8, <2>2
    <3> HIDE DEF j
    <3>3. u[i] = y[j]
      BY <1>6, <1>7, <3>1, <3>2
    <3> QED
      BY <2>2, <3>3 DEF j
  <2> QED
    BY <2>1, <2>2
<1>11. u \in [1 .. n + m -> W]
  BY <1>7
<1>12. u = x \o y
  <2>1. x \in Seq(W) /\ y \in Seq(W) /\ n \in Nat /\ m \in Nat /\ Len(x) = n /\ Len(y) = m
    BY <1>5, <1>6
  <2> QED
    BY ONLY <1>10, <1>11, <2>1, ConcatIs, ZenonT(60)
<1>13. x \in Seq(Seq(U)) /\ y \in Seq(Seq(U))
  BY <1>6 DEF W
<1>14. FlattenSeq(x \o y) = FlattenSeq(x) \o FlattenSeq(y)
  BY <1>13, FlattenConcat
<1>15. FlattenSeq(x) \in Seq(U) /\ FlattenSeq(y) \in Seq(U)
  BY <1>13, FlattenType
<1> QED
  BY <1>9, <1>12, <1>14, <1>15

\* A blank is left out.
BlankAmid(a, b) == a \o (<<Blank>> \o b)

\* A blank in a payload is not a part of it.
LEMMA DumpedWithBlank ==
  ASSUME NEW U, Blank \in U, NEW a \in Seq(U), NEW b \in Seq(U)
  PROVE  Dumped(BlankAmid(a, b)) = Dumped(a \o b)
<1> DEFINE k == <<Blank>>
<1>1. k \in Seq(U) /\ k \o b \in Seq(U)
  OBVIOUS
<1>2. Dumped(k) = <<>>
  <2>1. DOMAIN k = 1 .. 1 /\ k[1] = Blank
    OBVIOUS
  <2> DEFINE u == [i \in DOMAIN k |-> IF k[i] = Blank THEN <<>> ELSE <<k[i]>>]
  <2>2. u = [i \in 1 .. 1 |-> <<>>]
    BY <2>1
  <2>3. u \in Seq({<<>>})
    BY <2>2, EmptyLists
  <2> HIDE DEF u, k
  <2>4. FlattenSeq(u) = <<>>
    BY <2>3, FlattenEmpty
  <2> QED
    BY <2>4 DEF Dumped, u
<1> HIDE DEF k
<1> DEFINE kb == k \o b
<1>3. kb \in Seq(U)
  BY <1>1
<1>4. Dumped(kb) = Dumped(k) \o Dumped(b) /\ Dumped(b) \in Seq(U)
  BY <1>1, DumpedConcat
<1> HIDE DEF kb
<1>5. Dumped(a \o kb) = Dumped(a) \o Dumped(kb)
  BY <1>3, DumpedConcat
<1>6. Dumped(a \o b) = Dumped(a) \o Dumped(b)
  BY DumpedConcat
<1>7. <<>> \o Dumped(b) = Dumped(b)
  BY <1>4
<1> QED
  BY <1>2, <1>4, <1>5, <1>6, <1>7 DEF BlankAmid, k, kb

-----------------------------------------------------------------------------
\* The payload of an application: in a line, as it is read, and with its quotes.
AppText(key, value) ==
    <<Quote, "{", Escaped, key, Escaped, ":", Blank, Escaped, value, Escaped, "}", Quote>>

AppWord(key, value) ==
    <<"{", Escaped, key, Escaped, ":", Blank, Escaped, value, Escaped, "}">>

AppJson(key, value) == <<"{", Quote, key, Quote, ":", Blank, Quote, value, Quote, "}">>

\* The message is one of a name and two words.
LEMMA AppMessageIs ==
  ASSUME NEW app \in Symbols, NEW key \in Symbols, NEW value \in Symbols
  PROVE  AppMessage(app, key, value) = TextWithTwo("start_app_with_param", app, AppText(key, value))
<1> DEFINE U == Symbols
<1> DEFINE name == "start_app_with_param"
<1> DEFINE h == <<Dash, name, Blank, app, Blank>>
<1> DEFINE k == AppText(key, value)
<1> DEFINE u == h \o k
<1> DEFINE l == AppMessage(app, key, value)
<1> DEFINE opens == "{"
<1> DEFINE shuts == "}"
<1> DEFINE colon == ":"
<1>1. /\ Dash \in U /\ Blank \in U /\ Quote \in U /\ Escaped \in U /\ name \in U /\ app \in U
      /\ key \in U /\ value \in U /\ opens \in U /\ shuts \in U /\ colon \in U
  BY DEF Symbols
<1>2. h \in Seq(U) /\ k \in Seq(U) /\ l \in Seq(U)
  <2> DEFINE k2 == <<Quote, opens, Escaped, key, Escaped, colon, Blank, Escaped, value, Escaped,
                     shuts, Quote>>
  <2> DEFINE l2 == <<Dash, name, Blank, app, Blank, Quote, opens, Escaped, key, Escaped, colon,
                     Blank, Escaped, value, Escaped, shuts, Quote>>
  <2>1. k = k2
    BY DEF AppText
  <2>2. l = l2
    BY DEF AppMessage
  <2> HIDE DEF U, name, opens, shuts, colon
  <2>3. h \in Seq(U)
    BY ONLY <1>1
  <2>4. k2 \in Seq(U)
    BY ONLY <1>1
  <2>5. l2 \in Seq(U)
    BY ONLY <1>1
  <2> QED
    BY <2>1, <2>2, <2>3, <2>4, <2>5
<1>3. Len(h) = 5 /\ Len(k) = 12 /\ Len(l) = 17
  BY DEF AppText, AppMessage
<1>4. /\ l[1] = h[1] /\ l[2] = h[2] /\ l[3] = h[3] /\ l[4] = h[4] /\ l[5] = h[5]
      /\ l[6] = k[1] /\ l[7] = k[2] /\ l[8] = k[3] /\ l[9] = k[4] /\ l[10] = k[5]
      /\ l[11] = k[6] /\ l[12] = k[7] /\ l[13] = k[8] /\ l[14] = k[9] /\ l[15] = k[10]
      /\ l[16] = k[11] /\ l[17] = k[12]
  BY DEF AppText, AppMessage
<1> HIDE DEF h, k, l
<1> HIDE DEF U
<1>11. h \in Seq(U) /\ k \in Seq(U)
  BY <1>2
<1>12. /\ u \in Seq(U) /\ Len(u) = Len(h) + Len(k)
       /\ \A i \in 1 .. Len(h) + Len(k) : u[i] = IF i <= Len(h) THEN h[i] ELSE k[i - Len(h)]
  BY ONLY <1>11, ConcatProperties
<1>5. u \in Seq(U) /\ Len(u) = 17
  BY <1>3, <1>12
<1>6. \A i \in 1 .. 5 + 12 : u[i] = IF i <= 5 THEN h[i] ELSE k[i - 5]
  BY <1>3, <1>12
<1> HIDE DEF u
<1>7. /\ u[1] = h[1] /\ u[2] = h[2] /\ u[3] = h[3] /\ u[4] = h[4] /\ u[5] = h[5]
      /\ u[6] = k[1] /\ u[7] = k[2] /\ u[8] = k[3] /\ u[9] = k[4] /\ u[10] = k[5]
      /\ u[11] = k[6] /\ u[12] = k[7] /\ u[13] = k[8] /\ u[14] = k[9] /\ u[15] = k[10]
      /\ u[16] = k[11] /\ u[17] = k[12]
  <2>1. /\ 6 - 5 = 1 /\ 7 - 5 = 2 /\ 8 - 5 = 3 /\ 9 - 5 = 4 /\ 10 - 5 = 5 /\ 11 - 5 = 6
        /\ 12 - 5 = 7 /\ 13 - 5 = 8 /\ 14 - 5 = 9 /\ 15 - 5 = 10 /\ 16 - 5 = 11 /\ 17 - 5 = 12
    OBVIOUS
  <2> QED
    BY <1>6, <2>1
<1>8. \A i \in 1 .. 17 : \/ i = 1 \/ i = 2 \/ i = 3 \/ i = 4 \/ i = 5 \/ i = 6 \/ i = 7
                         \/ i = 8 \/ i = 9 \/ i = 10 \/ i = 11 \/ i = 12 \/ i = 13
                         \/ i = 14 \/ i = 15 \/ i = 16 \/ i = 17
  OBVIOUS
<1>9. \A i \in 1 .. 17 : u[i] = l[i]
  BY <1>4, <1>7, <1>8
<1>10. u = l
  BY <1>2, <1>3, <1>5, <1>9, SeqEqual
<1> QED
  BY <1>10 DEF u, h, k, l, TextWithTwo

\* What the payload is read as.
LEMMA AppTextIs ==
  ASSUME NEW key \in Symbols, NEW value \in Symbols,
         key \notin {Blank, Dash, Quote, Escaped}, value \notin {Blank, Dash, Quote, Escaped}
  PROVE  /\ AppText(key, value) \in Seq(Symbols) /\ AppWord(key, value) \in Seq(Symbols)
         /\ AppJson(key, value) \in Seq(Symbols)
         /\ Fits(AppText(key, value), AppWord(key, value))
         /\ replaceAll(AppWord(key, value), Escaped, Quote) = AppJson(key, value)
         /\ IsJson(AppJson(key, value))
<1> DEFINE U == Symbols
<1> DEFINE x == AppText(key, value)
<1> DEFINE r == AppWord(key, value)
<1> DEFINE j == AppJson(key, value)
<1> DEFINE opens == "{"
<1> DEFINE shuts == "}"
<1> DEFINE colon == ":"
<1>1. /\ Blank \in U /\ Quote \in U /\ Escaped \in U /\ key \in U /\ value \in U
      /\ opens \in U /\ shuts \in U /\ colon \in U
  BY DEF Symbols
<1>2. x \in Seq(U) /\ r \in Seq(U) /\ j \in Seq(U)
  <2> DEFINE x2 == <<Quote, opens, Escaped, key, Escaped, colon, Blank, Escaped, value, Escaped,
                     shuts, Quote>>
  <2> DEFINE r2 == <<opens, Escaped, key, Escaped, colon, Blank, Escaped, value, Escaped, shuts>>
  <2> DEFINE j2 == <<opens, Quote, key, Quote, colon, Blank, Quote, value, Quote, shuts>>
  <2>1. x = x2 /\ r = r2 /\ j = j2
    BY DEF AppText, AppWord, AppJson
  <2> HIDE DEF U, opens, shuts, colon
  <2>2. x2 \in Seq(U)
    BY ONLY <1>1
  <2>3. r2 \in Seq(U)
    BY ONLY <1>1
  <2>4. j2 \in Seq(U)
    BY ONLY <1>1
  <2> QED
    BY <2>1, <2>2, <2>3, <2>4
<1>3. Len(x) = 12 /\ Len(r) = 10 /\ Len(j) = 10 /\ x[1] = Quote /\ x[12] = Quote
  BY DEF AppText, AppWord, AppJson
<1>4. /\ x[2] = r[1] /\ x[3] = r[2] /\ x[4] = r[3] /\ x[5] = r[4] /\ x[6] = r[5]
      /\ x[7] = r[6] /\ x[8] = r[7] /\ x[9] = r[8] /\ x[10] = r[9] /\ x[11] = r[10]
  BY DEF AppText, AppWord
<1>5. /\ r[1] = "{" /\ r[2] = Escaped /\ r[3] = key /\ r[4] = Escaped /\ r[5] = ":"
      /\ r[6] = Blank /\ r[7] = Escaped /\ r[8] = value /\ r[9] = Escaped /\ r[10] = "}"
  BY DEF AppWord
<1>6. /\ j[1] = "{" /\ j[2] = Quote /\ j[3] = key /\ j[4] = Quote /\ j[5] = ":"
      /\ j[6] = Blank /\ j[7] = Quote /\ j[8] = value /\ j[9] = Quote /\ j[10] = "}"
  BY DEF AppJson
<1> HIDE DEF x, r, j
<1>7. \A i \in 1 .. 10 : \/ i = 1 \/ i = 2 \/ i = 3 \/ i = 4 \/ i = 5 \/ i = 6 \/ i = 7
                         \/ i = 8 \/ i = 9 \/ i = 10
  OBVIOUS
<1>8. \A i \in 1 .. 10 : x[i + 1] = r[i]
  <2>1. /\ 1 + 1 = 2 /\ 2 + 1 = 3 /\ 3 + 1 = 4 /\ 4 + 1 = 5 /\ 5 + 1 = 6 /\ 6 + 1 = 7
        /\ 7 + 1 = 8 /\ 8 + 1 = 9 /\ 9 + 1 = 10 /\ 10 + 1 = 11
    OBVIOUS
  <2> QED
    BY <1>4, <1>7, <2>1
<1>9. /\ "{" \notin {Blank, Dash, Quote, Escaped} /\ "}" \notin {Blank, Dash, Quote, Escaped}
      /\ ":" \notin {Blank, Dash, Quote, Escaped}
      /\ Escaped \notin {Quote, Dash, Blank} /\ Blank \notin {Quote, Dash}
  BY DEF Blank, Dash, Quote, Escaped
<1>10. \A i \in 1 .. 10 : r[i] # Quote /\ r[i] # Dash
  BY <1>5, <1>7, <1>9
<1>11. Fits(x, r)
  <2>1. 10 \in Nat /\ 10 > 1 /\ Len(r) = 10 /\ Len(x) = 10 + 2 /\ x[1] = Quote /\ x[10 + 2] = Quote
    BY <1>3
  <2> QED
    BY ONLY <1>2, <1>8, <1>10, <2>1, QuotedTextFits
<1>12. replaceAll(r, Escaped, Quote) = j
  <2>1. \A i \in 1 .. 10 : (IF r[i] = Escaped THEN Quote ELSE r[i]) = j[i]
    BY <1>5, <1>6, <1>7, <1>9
  <2>2. DOMAIN r = 1 .. 10
    BY <1>2, <1>3
  <2>3. replaceAll(r, Escaped, Quote) = [i \in 1 .. 10 |-> j[i]]
    BY <2>1, <2>2 DEF replaceAll
  <2>4. j = [i \in 1 .. 10 |-> j[i]]
    BY <1>2, <1>3
  <2> QED
    BY <2>3, <2>4
<1>13. IsJson(j)
  <2>1. j # <<>>
    BY <1>3
  <2> QED
    BY <1>3, <1>6, <2>1 DEF IsJson, Last
<1> QED
  BY <1>2, <1>11, <1>12, <1>13 DEF x, r, j

\* A message of one line, of which the daemon makes one event.
OneLineFor(text, line, name, ask, to) ==
    /\ CommandLines(text) = <<line>> /\ WordsOf(line) # <<>> /\ WordsOf(line)[1] = <<name>>
    /\ name \notin MenuFamily /\ name \notin CurvatureFamily
    /\ EventsOf(WordsOf(line)) = <<Event(ask, to)>>

Foretells(text, ask, to) ==
    \E line \in Seq(Symbols) : \E name : OneLineFor(text, line, name, ask, to)

\* A command that is written anew, as one message for each thing that it means.
LEMMA ObeyedIfSaid ==
  ASSUME NEW c, Told(c), c.name \in MenuFamily \cup CurvatureFamily,
         NEW n \in Nat, NEW M, Means(c) \in Seq(M), Len(Means(c)) = n, NEW messages,
         messages = MenuMessages(WordsOfCommand(c)) \o CurvatureMessages(WordsOfCommand(c)),
         DOMAIN messages = 1 .. n, \A i \in 1 .. n : Foretells(messages[i], Means(c)[i], c.to)
  PROVE  Obeyed(c)
<1> DEFINE T == Seq(Symbols)
<1> DEFINE right(i, line) == \E name : OneLineFor(messages[i], line, name, Means(c)[i], c.to)
<1> DEFINE lines == [i \in 1 .. n |-> CHOOSE line \in T : right(i, line)]
<1>1. c \in Command /\ DaemonUnderstands(c) /\ CalledOnce(c.to)
  BY DEF Told, DaemonUnderstands, CalledOnce
<1>2. \A i \in 1 .. n : \E line \in T : right(i, line)
  BY DEF Foretells
<1> HIDE DEF T, right
<1>3. \A i \in 1 .. n : lines[i] \in T /\ right(i, lines[i])
  BY <1>2
<1>4. lines = [i \in 1 .. n |-> lines[i]]
  OBVIOUS
<1> HIDE DEF lines
<1>5. lines \in Seq(T) /\ Len(lines) = n
  <2>1. n \in Nat /\ \A i \in 1 .. n : lines[i] \in T
    BY <1>3
  <2> QED
    BY ONLY <1>4, <2>1, ListIs
<1>6. WordsOf(LineOfCommand(c)) = WordsOfCommand(c)
  BY <1>1, CommandIsSaid
<1>7. \A i \in 1 .. n : CommandLines(messages[i]) = <<lines[i]>>
  BY <1>3 DEF right, OneLineFor
<1>8. Becomes(LineOfCommand(c)) = lines
  <2>1. lines \in Seq(T) /\ Len(lines) = n /\ n \in Nat
    BY <1>5
  <2>2. messages = MenuMessages(WordsOf(LineOfCommand(c)))
                     \o CurvatureMessages(WordsOf(LineOfCommand(c)))
    BY <1>6
  <2>3. DOMAIN messages = 1 .. n
    OBVIOUS
  <2> QED
    BY ONLY <1>7, <2>1, <2>2, <2>3, BecomesLines
<1>9. \A i \in 1 .. n : Leads(lines[i], AsksOf(Means(c)[i], Bidden(c.to)))
  <2> SUFFICES ASSUME NEW i \in 1 .. n
               PROVE  Leads(lines[i], AsksOf(Means(c)[i], Bidden(c.to)))
    OBVIOUS
  <2> DEFINE line == lines[i]
  <2>1. PICK name : OneLineFor(messages[i], line, name, Means(c)[i], c.to)
    BY <1>3 DEF right
  <2>2. /\ WordsOf(line) # <<>> /\ WordsOf(line)[1] = <<name>>
        /\ name \notin MenuFamily /\ name \notin CurvatureFamily
        /\ EventsOf(WordsOf(line)) = <<Event(Means(c)[i], c.to)>>
    BY <2>1 DEF OneLineFor
  <2> HIDE DEF line
  <2>3. i \in Nat
    OBVIOUS
  <2>4. Leads(line, AsksOf(Means(c)[i], Bidden(c.to)))
    BY ONLY <1>1, <2>2, <2>3, LeadsIfAsked
  <2> QED
    BY <2>4 DEF line
<1>10. lines \in Seq(Seq(Symbols)) /\ Len(lines) = n
  BY <1>5 DEF T
<1> QED
  BY <1>8, <1>9, <1>10, ObeyedIfAnew

\* A command that is written anew as one message.
LEMMA ObeyedIfSaidOnce ==
  ASSUME NEW c, Told(c), c.name \in MenuFamily \cup CurvatureFamily,
         NEW ask, Means(c) = <<ask>>, NEW text,
         MenuMessages(WordsOfCommand(c)) \o CurvatureMessages(WordsOfCommand(c)) = <<text>>,
         Foretells(text, ask, c.to)
  PROVE  Obeyed(c)
<1> DEFINE messages == MenuMessages(WordsOfCommand(c)) \o CurvatureMessages(WordsOfCommand(c))
<1>1. messages = <<text>> /\ DOMAIN <<text>> = 1 .. 1 /\ <<text>>[1] = text
  OBVIOUS
<1>2. Means(c) \in Seq({ask}) /\ Len(Means(c)) = 1 /\ Means(c)[1] = ask
  OBVIOUS
<1>3. messages = MenuMessages(WordsOfCommand(c)) \o CurvatureMessages(WordsOfCommand(c))
  OBVIOUS
<1> HIDE DEF messages
<1>4. DOMAIN messages = 1 .. 1 /\ messages[1] = text
  BY <1>1
<1>5. \A i \in 1 .. 1 : Foretells(messages[i], Means(c)[i], c.to)
  BY <1>2, <1>4
<1>6. 1 \in Nat
  OBVIOUS
<1> QED
  BY <1>2, <1>3, <1>4, <1>5, <1>6, ObeyedIfSaid

\* A piece of a line that says a word, when the quotes in the word are back.
SaysWord(x, r, z) == Fits(x, r) /\ replaceAll(r, Escaped, Quote) = z

\* A name, and displays, that can stand in a line that the daemon writes.
CanStand(name) == name \in Symbols /\ name \notin {Blank, Dash, Quote, Escaped}

NameOfEvents(name) == CanStand(name) /\ name \notin MenuFamily /\ name \notin CurvatureFamily

CanBeNamed(to) == to \in Seq(Word) /\ \A i \in DOMAIN to : NeedsNoQuotes(to[i])

\* The daemon makes one event of a command with two words, and with one.
OfTwo(name, y, z, ask, to) ==
    \A w : w[1] = <<name>> /\ Devices(w, 3) = to /\ Len(w) > 2 /\ w[2] = <<y>> /\ w[3] = z
             => EventsOf(w) = <<Event(ask, to)>>

OfOne(name, z, ask, to) ==
    \A w : w[1] = <<name>> /\ Devices(w, 2) = to /\ Len(w) > 1 /\ w[2] = z
             => EventsOf(w) = <<Event(ask, to)>>

\* The displays of a command that is written anew need no quotes.
LEMMA NamesNeedNoQuotes ==
  ASSUME NEW c, Told(c), c.name \in Rewrites
  PROVE  CanBeNamed(c.to)
<1>1. c.to \in Seq(Word)
  BY WordsAre DEF Told
<1> QED
  BY <1>1 DEF Told, DaemonUnderstands, NeedsNoQuotes, CanBeNamed

\* A message of a line with two words and more.
LEMMA SaidWithTwo ==
  ASSUME NEW name, NameOfEvents(name), NEW y, CanStand(y),
         NEW x \in Seq(Symbols), NEW r \in Seq(Symbols), NEW z \in Seq(Symbols),
         SaysWord(x, r, z), NEW to, CanBeNamed(to), NEW ask, OfTwo(name, y, z, ask, to)
  PROVE  Foretells(WithDevices(TextWithTwo(name, y, x), to), ask, to)
<1> DEFINE text == WithDevices(TextWithTwo(name, y, x), to)
<1>0. /\ name \in Symbols /\ name \notin {Blank, Dash, Quote, Escaped}
      /\ name \notin MenuFamily /\ name \notin CurvatureFamily
      /\ y \in Symbols /\ y \notin {Blank, Dash, Quote, Escaped}
      /\ Fits(x, r) /\ replaceAll(r, Escaped, Quote) = z
      /\ to \in Seq(Word) /\ \A i \in DOMAIN to : NeedsNoQuotes(to[i])
  BY DEF NameOfEvents, CanStand, SaysWord, CanBeNamed
<1> DEFINE T == Seq(Symbols)
<1> DEFINE s == <<y>>
<1> DEFINE q == <<s, x>>
<1> DEFINE v == <<s, r>>
<1> DEFINE args == <<s, z>>
<1>1. s \in T /\ x \in T /\ r \in T /\ z \in T
  BY <1>0
<1>2. Fits(s, s)
  BY <1>0, OneSymbolFits
<1>3. replaceAll(s, Escaped, Quote) = s
  BY <1>0 DEF replaceAll
<1> HIDE DEF s
<1>4. q \in Seq(T) /\ v \in Seq(T) /\ args \in Seq(T)
  <2> HIDE DEF T
  <2> QED
    BY ONLY <1>1
<1>5. /\ Len(q) = 2 /\ Len(v) = 2 /\ Len(args) = 2 /\ q[1] = s /\ q[2] = x /\ v[1] = s /\ v[2] = r
      /\ args[1] = s /\ args[2] = z /\ DOMAIN args = 1 .. 2
  OBVIOUS
<1>6. text = WithDevices(LineText(name, q), to)
  BY <1>0, TextWithTwoIs DEF s
<1> HIDE DEF q, v, args, text
<1>7. \A k \in 1 .. 2 : k = 1 \/ k = 2
  OBVIOUS
<1>8. \A k \in 1 .. Len(q) : Fits(q[k], v[k])
  BY <1>0, <1>2, <1>5, <1>7
<1>9. \A k \in 1 .. Len(v) : replaceAll(v[k], Escaped, Quote) = args[k]
  BY <1>0, <1>3, <1>5, <1>7
<1>10. Anewly(WithDevices(LineText(name, q), to), name, args, to)
  BY <1>0, <1>4, <1>5, <1>8, <1>9, AnewIs
<1>11. PICK line \in Seq(Symbols) :
         /\ CommandLines(text) = <<line>> /\ WordsOf(line) # <<>>
         /\ Consists(WordsOf(line), <<name>>, args, to)
  BY <1>6, <1>10 DEF Anewly
<1> DEFINE w == WordsOf(line)
<1>12. w[1] = <<name>> /\ Devices(w, 3) = to /\ Len(w) > 2 /\ w[2] = <<y>> /\ w[3] = z
  <2>1. /\ Len(w) = 1 + Len(args) + Len(to) /\ w[1] = <<name>>
        /\ \A i \in DOMAIN args : w[i + 1] = args[i]
        /\ Devices(w, 1 + Len(args)) = to
    BY <1>11 DEF Consists
  <2>2. Len(to) \in Nat /\ 1 + 1 = 2 /\ 2 + 1 = 3 /\ 1 \in 1 .. 2 /\ 2 \in 1 .. 2
    BY <1>0
  <2> HIDE DEF w
  <2>3. w[1 + 1] = s /\ w[2 + 1] = z
    BY <1>5, <2>1, <2>2
  <2> QED
    BY <1>5, <2>1, <2>2, <2>3 DEF s
<1>13. EventsOf(w) = <<Event(ask, to)>>
  <2> HIDE DEF w
  <2> QED
    BY <1>12 DEF OfTwo
<1>14. OneLineFor(text, line, name, ask, to)
  BY <1>0, <1>11, <1>12, <1>13 DEF OneLineFor
<1> QED
  BY <1>14 DEF Foretells, text

\* And one of a line with one word and more.
LEMMA SaidWithOne ==
  ASSUME NEW name, NameOfEvents(name),
         NEW x \in Seq(Symbols), NEW r \in Seq(Symbols), NEW z \in Seq(Symbols),
         SaysWord(x, r, z), NEW to, CanBeNamed(to), NEW ask, OfOne(name, z, ask, to)
  PROVE  Foretells(WithDevices(TextWithOne(name, x), to), ask, to)
<1> DEFINE text == WithDevices(TextWithOne(name, x), to)
<1>0. /\ name \in Symbols /\ name \notin {Blank, Dash, Quote, Escaped}
      /\ name \notin MenuFamily /\ name \notin CurvatureFamily
      /\ Fits(x, r) /\ replaceAll(r, Escaped, Quote) = z
      /\ to \in Seq(Word) /\ \A i \in DOMAIN to : NeedsNoQuotes(to[i])
  BY DEF NameOfEvents, CanStand, SaysWord, CanBeNamed
<1> DEFINE T == Seq(Symbols)
<1> DEFINE q == <<x>>
<1> DEFINE v == <<r>>
<1> DEFINE args == <<z>>
<1>1. x \in T /\ r \in T /\ z \in T
  OBVIOUS
<1>4. q \in Seq(T) /\ v \in Seq(T) /\ args \in Seq(T)
  <2> HIDE DEF T
  <2> QED
    BY ONLY <1>1
<1>5. /\ Len(q) = 1 /\ Len(v) = 1 /\ Len(args) = 1 /\ q[1] = x /\ v[1] = r
      /\ args[1] = z /\ DOMAIN args = 1 .. 1
  OBVIOUS
<1>6. text = WithDevices(LineText(name, q), to)
  BY <1>0, TextWithOneIs
<1> HIDE DEF q, v, args, text
<1>8. \A k \in 1 .. Len(q) : Fits(q[k], v[k])
  BY <1>0, <1>5
<1>9. \A k \in 1 .. Len(v) : replaceAll(v[k], Escaped, Quote) = args[k]
  BY <1>0, <1>5
<1>10. Anewly(WithDevices(LineText(name, q), to), name, args, to)
  BY <1>0, <1>4, <1>5, <1>8, <1>9, AnewIs
<1>11. PICK line \in Seq(Symbols) :
         /\ CommandLines(text) = <<line>> /\ WordsOf(line) # <<>>
         /\ Consists(WordsOf(line), <<name>>, args, to)
  BY <1>6, <1>10 DEF Anewly
<1> DEFINE w == WordsOf(line)
<1>12. w[1] = <<name>> /\ Devices(w, 2) = to /\ Len(w) > 1 /\ w[2] = z
  <2>1. /\ Len(w) = 1 + Len(args) + Len(to) /\ w[1] = <<name>>
        /\ \A i \in DOMAIN args : w[i + 1] = args[i]
        /\ Devices(w, 1 + Len(args)) = to
    BY <1>11 DEF Consists
  <2>2. Len(to) \in Nat /\ 1 + 1 = 2 /\ 1 \in 1 .. 1
    BY <1>0
  <2> HIDE DEF w
  <2>3. w[1 + 1] = z
    BY <1>5, <2>1, <2>2
  <2> QED
    BY <1>5, <2>1, <2>2, <2>3
<1>13. EventsOf(w) = <<Event(ask, to)>>
  <2> HIDE DEF w
  <2> QED
    BY <1>12 DEF OfOne
<1>14. OneLineFor(text, line, name, ask, to)
  BY <1>0, <1>11, <1>12, <1>13 DEF OneLineFor
<1> QED
  BY <1>14 DEF Foretells, text

\* The payload as the user means it, and the blank that the daemon writes in it.
AppMeant(key, value) == <<"{", Quote, key, Quote, ":", Quote, value, Quote, "}">>

\* The payload that is read is the one that is meant.
LEMMA AppJsonIs ==
  ASSUME NEW key \in Symbols, NEW value \in Symbols
  PROVE  Dumped(AppJson(key, value)) = Dumped(AppMeant(key, value))
<1> DEFINE U == Symbols
<1> DEFINE opens == "{"
<1> DEFINE shuts == "}"
<1> DEFINE colon == ":"
<1> DEFINE a == <<opens, Quote, key, Quote, colon>>
<1> DEFINE b == <<Quote, value, Quote, shuts>>
<1> DEFINE j == <<opens, Quote, key, Quote, colon, Blank, Quote, value, Quote, shuts>>
<1> DEFINE m == <<opens, Quote, key, Quote, colon, Quote, value, Quote, shuts>>
<1> DEFINE kb == <<Blank>> \o b
<1>1. /\ Blank \in U /\ Quote \in U /\ key \in U /\ value \in U
      /\ opens \in U /\ shuts \in U /\ colon \in U
  BY DEF Symbols
<1>2. j = AppJson(key, value) /\ m = AppMeant(key, value)
  BY DEF AppJson, AppMeant
<1> HIDE DEF U, opens, shuts, colon
<1>3. a \in Seq(U) /\ b \in Seq(U)
  BY ONLY <1>1
<1>4. j \in Seq(U)
  BY ONLY <1>1
<1>5. m \in Seq(U)
  BY ONLY <1>1
<1>6. Len(a) = 5 /\ Len(b) = 4 /\ Len(j) = 10 /\ Len(m) = 9
  OBVIOUS
<1>7. /\ j[1] = a[1] /\ j[2] = a[2] /\ j[3] = a[3] /\ j[4] = a[4] /\ j[5] = a[5] /\ j[6] = Blank
      /\ j[7] = b[1] /\ j[8] = b[2] /\ j[9] = b[3] /\ j[10] = b[4]
  OBVIOUS
<1>8. /\ m[1] = a[1] /\ m[2] = a[2] /\ m[3] = a[3] /\ m[4] = a[4] /\ m[5] = a[5]
      /\ m[6] = b[1] /\ m[7] = b[2] /\ m[8] = b[3] /\ m[9] = b[4]
  OBVIOUS
<1> HIDE DEF a, b, j, m
<1>9. kb \in Seq(U) /\ Len(kb) = 5 /\ kb[1] = Blank /\ \A i \in 1 .. 4 : kb[i + 1] = b[i]
  <2>1. Blank \in U /\ b \in Seq(U)
    BY <1>1, <1>3
  <2>2. kb \in Seq(U) /\ Len(kb) = Len(b) + 1 /\ kb[1] = Blank
        /\ \A i \in 1 .. Len(b) : kb[i + 1] = b[i]
    BY ONLY <2>1, OneMore
  <2> HIDE DEF kb
  <2> QED
    BY <1>6, <2>2
<1> HIDE DEF kb
<1>10. kb[2] = b[1] /\ kb[3] = b[2] /\ kb[4] = b[3] /\ kb[5] = b[4]
  <2>1. 1 + 1 = 2 /\ 2 + 1 = 3 /\ 3 + 1 = 4 /\ 4 + 1 = 5 /\ 1 \in 1 .. 4 /\ 2 \in 1 .. 4
        /\ 3 \in 1 .. 4 /\ 4 \in 1 .. 4
    OBVIOUS
  <2> QED
    BY <1>9, <2>1
<1>11. j = a \o kb
  <2>1. /\ a \in Seq(U) /\ kb \in Seq(U) /\ 5 \in Nat /\ Len(a) = 5 /\ Len(kb) = 5
    BY <1>3, <1>6, <1>9
  <2>2. j \in [1 .. 5 + 5 -> U]
    <3> DEFINE k == Len(j)
    <3>1. j \in [1 .. k -> U]
      BY ONLY <1>4
    <3>2. k = 5 + 5
      BY <1>6
    <3> HIDE DEF k
    <3> QED
      BY ONLY <3>1, <3>2
  <2>3. \A i \in 1 .. 5 + 5 : \/ i = 1 \/ i = 2 \/ i = 3 \/ i = 4 \/ i = 5 \/ i = 6 \/ i = 7
                              \/ i = 8 \/ i = 9 \/ i = 10
    OBVIOUS
  <2>4. 6 - 5 = 1 /\ 7 - 5 = 2 /\ 8 - 5 = 3 /\ 9 - 5 = 4 /\ 10 - 5 = 5
    OBVIOUS
  <2>5. \A i \in 1 .. 5 + 5 : j[i] = IF i <= 5 THEN a[i] ELSE kb[i - 5]
    BY <1>7, <1>9, <1>10, <2>3, <2>4
  <2> QED
    BY ONLY <2>1, <2>2, <2>5, ConcatIs
<1>12. m = a \o b
  <2>1. /\ a \in Seq(U) /\ b \in Seq(U) /\ 5 \in Nat /\ 4 \in Nat /\ Len(a) = 5 /\ Len(b) = 4
    BY <1>3, <1>6
  <2>2. m \in [1 .. 5 + 4 -> U]
    <3> DEFINE k == Len(m)
    <3>1. m \in [1 .. k -> U]
      BY ONLY <1>5
    <3>2. k = 5 + 4
      BY <1>6
    <3> HIDE DEF k
    <3> QED
      BY ONLY <3>1, <3>2
  <2>3. \A i \in 1 .. 5 + 4 : \/ i = 1 \/ i = 2 \/ i = 3 \/ i = 4 \/ i = 5 \/ i = 6 \/ i = 7
                              \/ i = 8 \/ i = 9
    OBVIOUS
  <2>4. 6 - 5 = 1 /\ 7 - 5 = 2 /\ 8 - 5 = 3 /\ 9 - 5 = 4
    OBVIOUS
  <2>5. \A i \in 1 .. 5 + 4 : m[i] = IF i <= 5 THEN a[i] ELSE b[i - 5]
    BY <1>8, <2>3, <2>4
  <2> QED
    BY ONLY <2>1, <2>2, <2>5, ConcatIs
<1>13. Dumped(BlankAmid(a, b)) = Dumped(a \o b)
  <2>1. Blank \in U /\ a \in Seq(U) /\ b \in Seq(U)
    BY <1>1, <1>3
  <2> QED
    BY ONLY <2>1, DumpedWithBlank
<1>14. BlankAmid(a, b) = j
  BY <1>11 DEF BlankAmid, kb
<1> QED
  BY <1>2, <1>12, <1>13, <1>14

\* The service menu is an application.
LEMMA ServiceMenuIsObeyed ==
  ASSUME NEW c, Told(c), c.name = "servicemenu"
  PROVE  Obeyed(c)
<1> DEFINE words == WordsOfCommand(c)
<1> DEFINE name == "start_app_with_param"
<1> DEFINE app == "com.webos.app.factorywin"
<1> DEFINE key == "irKey"
<1> DEFINE value == "inStart"
<1> DEFINE json == AppJson(key, value)
<1> DEFINE ask == LaunchWith(<<app>>, Dumped(json))
<1> DEFINE text == WithDevices(AppMessage(app, key, value), c.to)
<1>1. Arity[c.name] = 0
  BY DEF Arity
<1>2. words[1] = <<c.name>> /\ Devices(words, 1) = c.to
  BY <1>1, ToldWithout
<1>3. name \in Symbols /\ app \in Symbols /\ key \in Symbols /\ value \in Symbols
  BY DEF Symbols
<1>4. Means(c) = <<ask>>
  <2>1. Means(c) = <<LaunchWith(<<app>>, Dumped(AppMeant(key, value)))>>
    BY DEF Means, AppMeant
  <2> HIDE DEF name, app, key, value
  <2>2. Dumped(json) = Dumped(AppMeant(key, value))
    BY <1>3, AppJsonIs
  <2> QED
    BY <2>1, <2>2
<1> HIDE DEF words
<1>5. (\A names : Is(words, names) <=> c.name \in names) /\ words[1][1] = c.name
  BY <1>2, NameIs
<1>6. c.name \in MenuFamily \cup CurvatureFamily /\ c.name \notin CurvatureFamily
      /\ c.name \in Rewrites
  BY DEF MenuFamily, CurvatureFamily, Rewrites
<1>7. MenuMessages(words) = <<text>>
  <2> DEFINE legacy(v) == <<Dash, "settings_other", Blank, Quote, "{", Escaped, "svcMenuFlag",
                            Escaped, ":", v, "}", Quote>>
  <2> DEFINE message == [
        freesyncinfo |-> AppMessage("com.webos.app.tvhotkey", "activateType", "freesync-info"),
        servicemenu |-> AppMessage("com.webos.app.factorywin", "irKey", "inStart"),
        servicemenu_legacy_enable |-> legacy("false"),
        servicemenu_legacy_disable |-> legacy("true")]
  <2>1. MenuMessages(words) = IF Is(words, DOMAIN message)
                              THEN <<WithDevices(message[words[1][1]], Devices(words, 1))>>
                              ELSE <<>>
    BY DEF MenuMessages
  <2>2. /\ "servicemenu" \in DOMAIN message
        /\ message["servicemenu"] = AppMessage(app, key, value)
    OBVIOUS
  <2> HIDE DEF message
  <2> QED
    BY <1>2, <1>5, <2>1, <2>2
<1>8. MenuMessages(words) \o CurvatureMessages(words) = <<text>>
  <2>1. CurvatureMessages(words) = <<>>
    BY <1>2, <1>6, OthersGiveNothing
  <2> HIDE DEF text
  <2> QED
    BY <1>7, <2>1, WithNothing
<1>9. /\ name \notin {Blank, Dash, Quote, Escaped} /\ name \notin MenuFamily
      /\ name \notin CurvatureFamily /\ app \notin {Blank, Dash, Quote, Escaped}
      /\ key \notin {Blank, Dash, Quote, Escaped} /\ value \notin {Blank, Dash, Quote, Escaped}
      /\ name \in AppFamily /\ name \notin {"start_app"} /\ name \in {"start_app_with_param"}
      /\ name \notin {"close_app"}
  BY DEF Blank, Dash, Quote, Escaped, MenuFamily, CurvatureFamily, AppFamily
<1>10. text = WithDevices(TextWithTwo(name, app, AppText(key, value)), c.to)
  <2>1. AppMessage(app, key, value) = TextWithTwo("start_app_with_param", app, AppText(key, value))
    <3> HIDE DEF app, key, value
    <3> QED
      BY <1>3, AppMessageIs
  <2> QED
    BY <2>1
<1> HIDE DEF name, app, key, value, text
<1>11. /\ AppText(key, value) \in Seq(Symbols) /\ AppWord(key, value) \in Seq(Symbols)
       /\ json \in Seq(Symbols) /\ Fits(AppText(key, value), AppWord(key, value))
       /\ replaceAll(AppWord(key, value), Escaped, Quote) = json /\ IsJson(json)
  BY <1>3, <1>9, AppTextIs
<1> HIDE DEF json
<1>12. ASSUME NEW w, w[1] = <<name>>, Devices(w, 3) = c.to, Len(w) > 2, w[2] = <<app>>, w[3] = json
       PROVE  EventsOf(w) = <<Event(ask, c.to)>>
  <2>1. (\A names : Is(w, names) <=> name \in names)
    BY <1>12, NameIs
  <2>2. Is(w, {"start_app_with_param"}) /\ ~Is(w, {"start_app"}) /\ ~Is(w, {"close_app"})
    BY <1>9, <2>1
  <2>3. AppCommand(w) = <<Event(ask, c.to)>>
    BY <1>11, <1>12, <2>2, WithNothing DEF AppCommand, EventsIf
  <2> HIDE DEF ask
  <2> QED
    BY <1>9, <1>12, <2>3, FamilyGives
<1> HIDE DEF ask
<1>13. CanBeNamed(c.to)
  BY <1>6, NamesNeedNoQuotes
<1>14. Foretells(text, ask, c.to)
  <2> DEFINE x == AppText(key, value)
  <2> DEFINE r == AppWord(key, value)
  <2> DEFINE to == c.to
  <2>1. NameOfEvents(name) /\ CanStand(app)
    BY <1>3, <1>9 DEF NameOfEvents, CanStand
  <2>2. /\ x \in Seq(Symbols) /\ r \in Seq(Symbols) /\ json \in Seq(Symbols) /\ SaysWord(x, r, json)
    BY <1>11 DEF SaysWord
  <2>3. CanBeNamed(to)
    BY <1>13
  <2>4. text = WithDevices(TextWithTwo(name, app, x), to)
    BY <1>10
  <2>5. OfTwo(name, app, json, ask, to)
    BY <1>12 DEF OfTwo
  <2> HIDE DEF x, r, to
  <2>6. Foretells(WithDevices(TextWithTwo(name, app, x), to), ask, to)
    BY ONLY <2>1, <2>2, <2>3, <2>5, SaidWithTwo
  <2> QED
    BY <2>4, <2>6 DEF to
<1> QED
  BY <1>4, <1>6, <1>8, <1>14, ObeyedIfSaidOnce DEF words

\* The payload of a setting: in a line, as it is read, and with its quotes.
SettingText(key, value) == <<Quote, "{", Escaped, key, Escaped, ":", value, "}", Quote>>

SettingWord(key, value) == <<"{", Escaped, key, Escaped, ":", value, "}">>

SettingJson(key, value) == <<"{", Quote, key, Quote, ":", value, "}">>

SettingMessage(key, value) ==
    <<Dash, "settings_other", Blank, Quote, "{", Escaped, key, Escaped, ":", value, "}", Quote>>

\* The message is one of a name and a word.
LEMMA SettingMessageIs ==
  ASSUME NEW key \in Symbols, NEW value \in Symbols
  PROVE  SettingMessage(key, value) = TextWithOne("settings_other", SettingText(key, value))
<1> DEFINE U == Symbols
<1> DEFINE name == "settings_other"
<1> DEFINE opens == "{"
<1> DEFINE shuts == "}"
<1> DEFINE colon == ":"
<1> DEFINE h == <<Dash, name, Blank>>
<1> DEFINE k == SettingText(key, value)
<1> DEFINE l == SettingMessage(key, value)
<1>1. /\ Dash \in U /\ Blank \in U /\ Quote \in U /\ Escaped \in U /\ name \in U
      /\ key \in U /\ value \in U /\ opens \in U /\ shuts \in U /\ colon \in U
  BY DEF Symbols
<1>2. h \in Seq(U) /\ k \in Seq(U) /\ l \in Seq(U)
  <2> DEFINE k2 == <<Quote, opens, Escaped, key, Escaped, colon, value, shuts, Quote>>
  <2> DEFINE l2 == <<Dash, name, Blank, Quote, opens, Escaped, key, Escaped, colon, value,
                     shuts, Quote>>
  <2>1. k = k2
    BY DEF SettingText
  <2>2. l = l2
    BY DEF SettingMessage
  <2> HIDE DEF U, name, opens, shuts, colon
  <2>3. h \in Seq(U)
    BY ONLY <1>1
  <2>4. k2 \in Seq(U)
    BY ONLY <1>1
  <2>5. l2 \in Seq(U)
    BY ONLY <1>1
  <2> QED
    BY <2>1, <2>2, <2>3, <2>4, <2>5
<1>3. Len(h) = 3 /\ Len(k) = 9 /\ Len(l) = 12
  BY DEF SettingText, SettingMessage
<1>4. /\ l[1] = h[1] /\ l[2] = h[2] /\ l[3] = h[3]
      /\ l[4] = k[1] /\ l[5] = k[2] /\ l[6] = k[3] /\ l[7] = k[4] /\ l[8] = k[5]
      /\ l[9] = k[6] /\ l[10] = k[7] /\ l[11] = k[8] /\ l[12] = k[9]
  BY DEF SettingText, SettingMessage
<1> HIDE DEF h, k, l, U
<1>5. \A i \in 1 .. 3 + 9 : \/ i = 1 \/ i = 2 \/ i = 3 \/ i = 4 \/ i = 5 \/ i = 6 \/ i = 7
                            \/ i = 8 \/ i = 9 \/ i = 10 \/ i = 11 \/ i = 12
  OBVIOUS
<1>6. /\ 4 - 3 = 1 /\ 5 - 3 = 2 /\ 6 - 3 = 3 /\ 7 - 3 = 4 /\ 8 - 3 = 5 /\ 9 - 3 = 6
      /\ 10 - 3 = 7 /\ 11 - 3 = 8 /\ 12 - 3 = 9
  OBVIOUS
<1>7. \A i \in 1 .. 3 + 9 : l[i] = IF i <= 3 THEN h[i] ELSE k[i - 3]
  BY <1>4, <1>5, <1>6
<1>8. l \in [1 .. 3 + 9 -> U]
  <2> DEFINE m == Len(l)
  <2>1. l \in Seq(U)
    BY <1>2
  <2>2. l \in [1 .. m -> U]
    BY ONLY <2>1
  <2>3. m = 3 + 9
    BY <1>3
  <2> HIDE DEF m
  <2> QED
    BY ONLY <2>2, <2>3
<1>9. h \in Seq(U) /\ k \in Seq(U) /\ 3 \in Nat /\ 9 \in Nat /\ Len(h) = 3 /\ Len(k) = 9
  BY <1>2, <1>3
<1>10. l = h \o k
  BY ONLY <1>7, <1>8, <1>9, ConcatIs
<1> QED
  BY <1>10 DEF h, k, l, TextWithOne

\* What it is read as.
LEMMA SettingTextIs ==
  ASSUME NEW key \in Symbols, NEW value \in Symbols,
         key \notin {Blank, Dash, Quote, Escaped}, value \notin {Blank, Dash, Quote, Escaped}
  PROVE  /\ SettingText(key, value) \in Seq(Symbols) /\ SettingWord(key, value) \in Seq(Symbols)
         /\ SettingJson(key, value) \in Seq(Symbols)
         /\ SaysWord(SettingText(key, value), SettingWord(key, value), SettingJson(key, value))
         /\ IsJson(SettingJson(key, value))
<1> DEFINE U == Symbols
<1> DEFINE opens == "{"
<1> DEFINE shuts == "}"
<1> DEFINE colon == ":"
<1> DEFINE x == SettingText(key, value)
<1> DEFINE r == SettingWord(key, value)
<1> DEFINE j == SettingJson(key, value)
<1>1. /\ Quote \in U /\ Escaped \in U /\ key \in U /\ value \in U
      /\ opens \in U /\ shuts \in U /\ colon \in U
  BY DEF Symbols
<1>2. x \in Seq(U) /\ r \in Seq(U) /\ j \in Seq(U)
  <2> DEFINE x2 == <<Quote, opens, Escaped, key, Escaped, colon, value, shuts, Quote>>
  <2> DEFINE r2 == <<opens, Escaped, key, Escaped, colon, value, shuts>>
  <2> DEFINE j2 == <<opens, Quote, key, Quote, colon, value, shuts>>
  <2>1. x = x2 /\ r = r2 /\ j = j2
    BY DEF SettingText, SettingWord, SettingJson
  <2> HIDE DEF U, opens, shuts, colon
  <2>2. x2 \in Seq(U)
    BY ONLY <1>1
  <2>3. r2 \in Seq(U)
    BY ONLY <1>1
  <2>4. j2 \in Seq(U)
    BY ONLY <1>1
  <2> QED
    BY <2>1, <2>2, <2>3, <2>4
<1>3. Len(x) = 9 /\ Len(r) = 7 /\ Len(j) = 7 /\ x[1] = Quote /\ x[9] = Quote
  BY DEF SettingText, SettingWord, SettingJson
<1>4. /\ x[2] = r[1] /\ x[3] = r[2] /\ x[4] = r[3] /\ x[5] = r[4] /\ x[6] = r[5]
      /\ x[7] = r[6] /\ x[8] = r[7]
  BY DEF SettingText, SettingWord
<1>5. /\ r[1] = "{" /\ r[2] = Escaped /\ r[3] = key /\ r[4] = Escaped /\ r[5] = ":"
      /\ r[6] = value /\ r[7] = "}"
  BY DEF SettingWord
<1>6. /\ j[1] = "{" /\ j[2] = Quote /\ j[3] = key /\ j[4] = Quote /\ j[5] = ":"
      /\ j[6] = value /\ j[7] = "}"
  BY DEF SettingJson
<1> HIDE DEF x, r, j
<1>7. \A i \in 1 .. 7 : i = 1 \/ i = 2 \/ i = 3 \/ i = 4 \/ i = 5 \/ i = 6 \/ i = 7
  OBVIOUS
<1>8. \A i \in 1 .. 7 : x[i + 1] = r[i]
  <2>1. /\ 1 + 1 = 2 /\ 2 + 1 = 3 /\ 3 + 1 = 4 /\ 4 + 1 = 5 /\ 5 + 1 = 6 /\ 6 + 1 = 7
        /\ 7 + 1 = 8
    OBVIOUS
  <2> QED
    BY <1>4, <1>7, <2>1
<1>9. /\ "{" \notin {Blank, Dash, Quote, Escaped} /\ "}" \notin {Blank, Dash, Quote, Escaped}
      /\ ":" \notin {Blank, Dash, Quote, Escaped}
      /\ Escaped \notin {Quote, Dash, Blank}
  BY DEF Blank, Dash, Quote, Escaped
<1>10. \A i \in 1 .. 7 : r[i] # Quote /\ r[i] # Dash
  BY <1>5, <1>7, <1>9
<1>11. Fits(x, r)
  <2>1. 7 \in Nat /\ 7 > 1 /\ Len(r) = 7 /\ Len(x) = 7 + 2 /\ x[1] = Quote /\ x[7 + 2] = Quote
    BY <1>3
  <2> QED
    BY ONLY <1>2, <1>8, <1>10, <2>1, QuotedTextFits
<1>12. replaceAll(r, Escaped, Quote) = j
  <2>1. \A i \in 1 .. 7 : (IF r[i] = Escaped THEN Quote ELSE r[i]) = j[i]
    BY <1>5, <1>6, <1>7, <1>9
  <2>2. DOMAIN r = 1 .. 7
    BY <1>2, <1>3
  <2>3. replaceAll(r, Escaped, Quote) = [i \in 1 .. 7 |-> j[i]]
    BY <2>1, <2>2 DEF replaceAll
  <2>4. j = [i \in 1 .. 7 |-> j[i]]
    BY <1>2, <1>3
  <2> QED
    BY <2>3, <2>4
<1>13. IsJson(j)
  <2>1. j # <<>>
    BY <1>3
  <2> QED
    BY <1>3, <1>6, <2>1 DEF IsJson, Last
<1> QED
  BY <1>2, <1>11, <1>12, <1>13 DEF x, r, j, SaysWord

\* The service menu of older displays is a setting.
LEMMA LegacyMenuIsObeyed ==
  ASSUME NEW c, Told(c), c.name = "servicemenu_legacy_enable"
  PROVE  Obeyed(c)
<1> DEFINE words == WordsOfCommand(c)
<1> DEFINE name == "settings_other"
<1> DEFINE key == "svcMenuFlag"
<1> DEFINE value == "false"
<1> DEFINE json == SettingJson(key, value)
<1> DEFINE ask == SetSettings(<<"other">>, Dumped(json))
<1> DEFINE text == WithDevices(SettingMessage(key, value), c.to)
<1>1. Arity[c.name] = 0
  BY DEF Arity
<1>2. words[1] = <<c.name>> /\ Devices(words, 1) = c.to
  BY <1>1, ToldWithout
<1>3. name \in Symbols /\ key \in Symbols /\ value \in Symbols
  BY DEF Symbols
<1>4. Means(c) = <<ask>>
  BY DEF Means, SettingJson
<1> HIDE DEF words
<1>5. (\A names : Is(words, names) <=> c.name \in names) /\ words[1][1] = c.name
  BY <1>2, NameIs
<1>6. c.name \in MenuFamily \cup CurvatureFamily /\ c.name \notin CurvatureFamily
      /\ c.name \in Rewrites
  BY DEF MenuFamily, CurvatureFamily, Rewrites
<1>7. MenuMessages(words) = <<text>>
  <2> DEFINE legacy(v) == <<Dash, "settings_other", Blank, Quote, "{", Escaped, "svcMenuFlag",
                            Escaped, ":", v, "}", Quote>>
  <2> DEFINE message == [
        freesyncinfo |-> AppMessage("com.webos.app.tvhotkey", "activateType", "freesync-info"),
        servicemenu |-> AppMessage("com.webos.app.factorywin", "irKey", "inStart"),
        servicemenu_legacy_enable |-> legacy("false"),
        servicemenu_legacy_disable |-> legacy("true")]
  <2>1. MenuMessages(words) = IF Is(words, DOMAIN message)
                              THEN <<WithDevices(message[words[1][1]], Devices(words, 1))>>
                              ELSE <<>>
    BY DEF MenuMessages
  <2>2. /\ "servicemenu_legacy_enable" \in DOMAIN message
        /\ message["servicemenu_legacy_enable"] = SettingMessage(key, value)
    BY DEF SettingMessage
  <2> HIDE DEF message
  <2> QED
    BY <1>2, <1>5, <2>1, <2>2
<1>8. MenuMessages(words) \o CurvatureMessages(words) = <<text>>
  <2>1. CurvatureMessages(words) = <<>>
    BY <1>2, <1>6, OthersGiveNothing
  <2> HIDE DEF text
  <2> QED
    BY <1>7, <2>1, WithNothing
<1>9. /\ name \notin {Blank, Dash, Quote, Escaped} /\ name \notin MenuFamily
      /\ name \notin CurvatureFamily /\ key \notin {Blank, Dash, Quote, Escaped}
      /\ value \notin {Blank, Dash, Quote, Escaped} /\ name \in SettingsFamily
      /\ SettingsCategory(name) = <<"other">>
  BY DEF Blank, Dash, Quote, Escaped, MenuFamily, CurvatureFamily, SettingsFamily, SettingsCategory
<1>10. text = WithDevices(TextWithOne(name, SettingText(key, value)), c.to)
  <2>1. SettingMessage(key, value) = TextWithOne("settings_other", SettingText(key, value))
    <3> HIDE DEF key, value
    <3> QED
      BY <1>3, SettingMessageIs
  <2> QED
    BY <2>1
<1> HIDE DEF name, key, value, text
<1>11. /\ SettingText(key, value) \in Seq(Symbols) /\ SettingWord(key, value) \in Seq(Symbols)
       /\ json \in Seq(Symbols) /\ IsJson(json)
       /\ SaysWord(SettingText(key, value), SettingWord(key, value), json)
  BY <1>3, <1>9, SettingTextIs
<1> HIDE DEF json
<1>12. ASSUME NEW w, w[1] = <<name>>, Devices(w, 2) = c.to, Len(w) > 1, w[2] = json
       PROVE  EventsOf(w) = <<Event(ask, c.to)>>
  <2>1. (\A names : Is(w, names) <=> name \in names) /\ w[1][1] = name
    BY <1>12, NameIs
  <2>2. Is(w, {"settings_picture", "settings_other", "settings_options"})
    BY <1>9, <2>1 DEF SettingsFamily
  <2>3. SettingsCommand(w) = <<Event(ask, c.to)>>
    BY <1>9, <1>11, <1>12, <2>1, <2>2 DEF SettingsCommand, EventsIf
  <2> HIDE DEF ask
  <2> QED
    BY <1>9, <1>12, <2>3, FamilyGives
<1> HIDE DEF ask
<1>13. CanBeNamed(c.to)
  BY <1>6, NamesNeedNoQuotes
<1>14. Foretells(text, ask, c.to)
  <2> DEFINE x == SettingText(key, value)
  <2> DEFINE r == SettingWord(key, value)
  <2> DEFINE to == c.to
  <2>1. NameOfEvents(name)
    BY <1>3, <1>9 DEF NameOfEvents, CanStand
  <2>2. /\ x \in Seq(Symbols) /\ r \in Seq(Symbols) /\ json \in Seq(Symbols) /\ SaysWord(x, r, json)
    BY <1>11
  <2>3. CanBeNamed(to)
    BY <1>13
  <2>4. text = WithDevices(TextWithOne(name, x), to)
    BY <1>10
  <2>5. OfOne(name, json, ask, to)
    BY <1>12 DEF OfOne
  <2> HIDE DEF x, r, to
  <2>6. Foretells(WithDevices(TextWithOne(name, x), to), ask, to)
    BY ONLY <2>1, <2>2, <2>3, <2>5, SaidWithOne
  <2> QED
    BY <2>4, <2>6 DEF to
<1> QED
  BY <1>4, <1>6, <1>8, <1>14, ObeyedIfSaidOnce DEF words

\* A word with nothing in it that the daemon looks at.
LEMMA PlainWord ==
  ASSUME NEW r \in Seq(Symbols), r # <<>>,
         \A i \in 1 .. Len(r) : r[i] \notin {Blank, Dash, Quote, Escaped}
  PROVE  SaysWord(r, r, r)
<1> DEFINE n == Len(r)
<1>1. n \in Nat /\ n > 0 /\ DOMAIN r = 1 .. n /\ r = [i \in 1 .. n |-> r[i]]
  OBVIOUS
<1>2. \A i \in 1 .. n : r[i] # Blank /\ r[i] # Dash /\ r[i] # Quote /\ r[i] # Escaped
  OBVIOUS
<1>3. 1 \in 1 .. n
  BY <1>1
<1>4. Bare(r) /\ r[1] # Dash
  BY <1>2, <1>3 DEF Bare
<1>5. ~TwoSymbols(r, Blank, Dash)
  <2>1. \A i \in 1 .. n - 1 : i \in 1 .. n
    BY <1>1
  <2> QED
    BY <1>2, <2>1 DEF TwoSymbols
<1>6. replaceAll(r, Escaped, Quote) = r
  <2>1. replaceAll(r, Escaped, Quote) = [i \in 1 .. n |-> r[i]]
    BY <1>1, <1>2 DEF replaceAll
  <2> QED
    BY <1>1, <2>1
<1> QED
  BY <1>4, <1>5, <1>6 DEF SaysWord, Fits, Spells

\* So is a number.
LEMMA NumberIsPlain ==
  ASSUME NEW n \in 0 .. 100
  PROVE  to_string(n) \in Seq(Symbols) /\ SaysWord(to_string(n), to_string(n), to_string(n))
<1> DEFINE U == ToSet(Digits)
<1> DEFINE level == to_string(n)
<1>1. /\ Digits[1] = "0" /\ Digits[2] = "1" /\ Digits[3] = "2" /\ Digits[4] = "3"
      /\ Digits[5] = "4" /\ Digits[6] = "5" /\ Digits[7] = "6" /\ Digits[8] = "7"
      /\ Digits[9] = "8" /\ Digits[10] = "9" /\ DOMAIN Digits = 1 .. 10
  BY DEF Digits
<1>2. \A i \in 1 .. 10 : \/ i = 1 \/ i = 2 \/ i = 3 \/ i = 4 \/ i = 5 \/ i = 6
                         \/ i = 7 \/ i = 8 \/ i = 9 \/ i = 10
  OBVIOUS
<1>3. \A i \in 1 .. 10 : Digits[i] \notin {Blank, Dash, Quote, Escaped}
  BY <1>1, <1>2 DEF Blank, Dash, Quote, Escaped
<1>4. U = {Digits[i] : i \in 1 .. 10}
  BY <1>1 DEF ToSet
<1>5. \A y \in U : y \notin {Blank, Dash, Quote, Escaped}
  BY <1>3, <1>4
<1>6. U \subseteq Symbols
  BY DEF Symbols
<1> HIDE DEF U
<1>7. \A i \in 1 .. 10 : Digits[i] \in U
  BY <1>4
<1>8. level \in Seq(U) /\ level # <<>>
  <2>1. CASE n \in 0 .. 9 /\ level = <<Digits[n + 1]>>
    <3>1. n + 1 \in 1 .. 10
      BY <2>1
    <3> DEFINE y == Digits[n + 1]
    <3>2. y \in U
      BY <1>7, <3>1
    <3>3. level = <<y>>
      BY <2>1
    <3> HIDE DEF y, level
    <3> QED
      BY <3>2, <3>3
  <2>2. CASE n \in 10 .. 99 /\ level = <<Digits[(n \div 10) + 1], Digits[(n % 10) + 1]>>
    <3> DEFINE y == Digits[(n \div 10) + 1]
    <3> DEFINE z == Digits[(n % 10) + 1]
    <3>1. (n \div 10) + 1 \in 1 .. 10 /\ (n % 10) + 1 \in 1 .. 10
      BY <2>2
    <3>2. y \in U /\ z \in U
      BY <1>7, <3>1
    <3>3. level = <<y, z>>
      BY <2>2
    <3> HIDE DEF y, z, level
    <3> QED
      BY <3>2, <3>3
  <2>3. CASE n = 100 /\ level = <<Digits[2], Digits[1], Digits[1]>>
    <3> DEFINE y == Digits[1]
    <3> DEFINE z == Digits[2]
    <3>1. 1 \in 1 .. 10 /\ 2 \in 1 .. 10
      OBVIOUS
    <3>2. y \in U /\ z \in U
      BY <1>7, <3>1
    <3>3. level = <<z, y, y>>
      BY <2>3
    <3> HIDE DEF y, z, level
    <3> QED
      BY <3>2, <3>3
  <2>4. \/ n \in 0 .. 9 /\ level = <<Digits[n + 1]>>
        \/ n \in 10 .. 99 /\ level = <<Digits[(n \div 10) + 1], Digits[(n % 10) + 1]>>
        \/ n = 100 /\ level = <<Digits[2], Digits[1], Digits[1]>>
    BY ToStringOfSmall
  <2> QED
    BY <2>1, <2>2, <2>3, <2>4
<1> HIDE DEF level
<1>9. level \in Seq(Symbols)
  BY <1>6, <1>8, SeqMonotonic
<1>10. \A i \in 1 .. Len(level) : level[i] \notin {Blank, Dash, Quote, Escaped}
  <2>1. \A i \in 1 .. Len(level) : level[i] \in U
    BY <1>8
  <2> QED
    BY <1>5, <2>1
<1>11. SaysWord(level, level, level)
  BY <1>8, <1>9, <1>10, PlainWord
<1> QED
  BY <1>9, <1>11 DEF level

\* The presets that the daemon writes.
CurveSymbols == {"flat", "2", "3"}

\* They are read as they stand.
LEMMA CurveSymbolsAre ==
  ASSUME NEW p \in CurveSymbols
  PROVE  /\ CanStand(p) /\ <<p>> \in Seq(Symbols) /\ SaysWord(<<p>>, <<p>>, <<p>>)
         /\ Preset(<<p>>) = (IF p = "flat" THEN <<"flat">> ELSE <<"curvature", p>>)
         /\ Preset(<<p>>) # <<>> /\ (p # "flat" => Preset(<<p>>) # <<"flat">>)
<1>1. p \in Symbols
  <2>1. "2" \in ToSet(Digits) /\ "3" \in ToSet(Digits)
    BY DEF Digits, ToSet
  <2>2. "flat" \in Symbols /\ "2" \in Symbols /\ "3" \in Symbols
    BY <2>1 DEF Symbols
  <2> QED
    BY <2>2 DEF CurveSymbols
<1>2. p \notin {Blank, Dash, Quote, Escaped}
  BY DEF CurveSymbols, Blank, Dash, Quote, Escaped
<1>3. <<p>> \in Seq(Symbols) /\ <<p>> # <<>> /\ Len(<<p>>) = 1 /\ <<p>>[1] = p
  BY <1>1
<1>4. \A i \in 1 .. Len(<<p>>) : <<p>>[i] \notin {Blank, Dash, Quote, Escaped}
  BY <1>2, <1>3
<1>5. SaysWord(<<p>>, <<p>>, <<p>>)
  <2> DEFINE r == <<p>>
  <2>1. r \in Seq(Symbols) /\ r # <<>>
        /\ \A i \in 1 .. Len(r) : r[i] \notin {Blank, Dash, Quote, Escaped}
    BY <1>3, <1>4
  <2> HIDE DEF r
  <2>2. SaysWord(r, r, r)
    BY <2>1, PlainWord
  <2> QED
    BY <2>2 DEF r
<1>6. p = "flat" => Preset(<<p>>) = <<"flat">>
  BY DEF Preset
<1>7. p # "flat" => Preset(<<p>>) = <<"curvature", p>>
  <2> SUFFICES ASSUME p # "flat" PROVE Preset(<<p>>) = <<"curvature", p>>
    OBVIOUS
  <2>1. p = "2" \/ p = "3"
    BY DEF CurveSymbols
  <2>2. <<p>> \notin {<<"0">>, <<"flat">>} /\ <<p>> \in {<<"1">>, <<"2">>, <<"3">>}
    BY <2>1
  <2>3. Preset(<<p>>) = <<"curvature">> \o <<p>>
    BY <2>2 DEF Preset
  <2>4. <<"curvature">> \o <<p>> = <<"curvature", p>>
    BY PairIs
  <2> QED
    BY <2>3, <2>4
<1>8. <<"flat">> # <<>> /\ <<"curvature", p>> # <<>> /\ <<"curvature", p>> # <<"flat">>
  OBVIOUS
<1> QED
  BY <1>1, <1>2, <1>3, <1>5, <1>6, <1>7, <1>8 DEF CanStand

\* The messages that choose a preset and adjust one.
ChooseText(p) == <<Dash, "set_curve_preset", Blank, p>>

AdjustText(p, level) == <<Dash, "adjust_curve_preset", Blank, p, Blank>> \o level

\* A preset is chosen.
LEMMA ChoiceIsForetold ==
  ASSUME NEW p \in CurveSymbols, NEW to, CanBeNamed(to)
  PROVE  Foretells(WithDevices(ChooseText(p), to), Ask("changeCurve", <<Preset(<<p>>)>>), to)
<1> DEFINE name == "set_curve_preset"
<1> DEFINE x == <<p>>
<1> DEFINE ask == Ask("changeCurve", <<Preset(x)>>)
<1>1. /\ CanStand(p) /\ x \in Seq(Symbols) /\ SaysWord(x, x, x) /\ Preset(x) # <<>>
  BY CurveSymbolsAre
<1>2. NameOfEvents(name)
  BY DEF NameOfEvents, CanStand, Symbols, Blank, Dash, Quote, Escaped, MenuFamily, CurvatureFamily
<1>3. ChooseText(p) = TextWithOne(name, x)
  <2> DEFINE T == {Dash, name, Blank, p}
  <2> DEFINE h == <<Dash, name, Blank>>
  <2> DEFINE l == <<Dash, name, Blank, p>>
  <2> HIDE DEF name
  <2>1. h \in Seq(T) /\ x \in Seq(T) /\ 3 \in Nat /\ 1 \in Nat /\ Len(h) = 3 /\ Len(x) = 1
    OBVIOUS
  <2>2. l \in [1 .. 3 + 1 -> T]
    OBVIOUS
  <2>3. l[1] = h[1] /\ l[2] = h[2] /\ l[3] = h[3] /\ l[4] = x[1]
    OBVIOUS
  <2> HIDE DEF h, l, x, T
  <2>4. \A i \in 1 .. 3 + 1 : (i = 1 \/ i = 2 \/ i = 3) \/ (i = 4 /\ i - 3 = 1)
    OBVIOUS
  <2>5. \A i \in 1 .. 3 + 1 : l[i] = IF i <= 3 THEN h[i] ELSE x[i - 3]
    BY <2>3, <2>4
  <2>6. l = h \o x
    BY ONLY <2>1, <2>2, <2>5, ConcatIs
  <2> QED
    BY <2>6 DEF ChooseText, TextWithOne, h, l, name
<1>4. name \in CurveFamily /\ name \notin {"adjust_curve_preset"} /\ name \in {"set_curve_preset"}
  BY DEF CurveFamily
<1> HIDE DEF name, x
<1>5. ASSUME NEW w, w[1] = <<name>>, Devices(w, 2) = to, Len(w) > 1, w[2] = x
      PROVE  EventsOf(w) = <<Event(ask, to)>>
  <2>1. \A names : Is(w, names) <=> name \in names
    BY <1>5, NameIs
  <2>2. Is(w, {"set_curve_preset"}) /\ ~Is(w, {"adjust_curve_preset"})
    BY <1>4, <2>1
  <2>3. CurveCommand(w) = <<Event(ask, to)>>
    BY <1>1, <1>5, <2>2, WithNothing DEF CurveCommand, EventsIf
  <2> HIDE DEF ask
  <2> QED
    BY <1>4, <1>5, <2>3, FamilyGives
<1> HIDE DEF ask
<1>6. OfOne(name, x, ask, to)
  BY <1>5 DEF OfOne
<1>7. x \in Seq(Symbols) /\ SaysWord(x, x, x)
  BY <1>1
<1>8. CanBeNamed(to)
  OBVIOUS
<1>9. Foretells(WithDevices(TextWithOne(name, x), to), ask, to)
  BY ONLY <1>2, <1>6, <1>7, <1>8, SaidWithOne
<1> QED
  BY <1>3, <1>9 DEF ask, x

\* A preset is adjusted, to a number that was written and is read again.
LEMMA AdjustmentIsForetold ==
  ASSUME NEW p \in CurveSymbols, p # "flat", NEW to, CanBeNamed(to), NEW n \in 0 .. 100
  PROVE  Foretells(WithDevices(AdjustText(p, to_string(n)), to),
                   Ask("updateCurvature", <<Preset(<<p>>), to_string(n)>>), to)
<1> DEFINE name == "adjust_curve_preset"
<1> DEFINE x == <<p>>
<1> DEFINE level == to_string(n)
<1> DEFINE ask == Ask("updateCurvature", <<Preset(x), level>>)
<1>1. /\ CanStand(p) /\ Preset(x) # <<>> /\ Preset(x) # <<"flat">>
      /\ level \in Seq(Symbols) /\ SaysWord(level, level, level)
  BY CurveSymbolsAre, NumberIsPlain
<1>2. NameOfEvents(name)
  BY DEF NameOfEvents, CanStand, Symbols, Blank, Dash, Quote, Escaped, MenuFamily, CurvatureFamily
<1>3. AdjustText(p, level) = TextWithTwo(name, p, level)
  BY DEF AdjustText, TextWithTwo
<1>4. name \in CurveFamily /\ name \in {"adjust_curve_preset"} /\ name \notin {"set_curve_preset"}
  BY DEF CurveFamily
<1>10. Level(level, 0, 100) = level
  <2>1. atoi(to_string(n)) = n
    BY SmallNumbers
  <2>2. Within(n, 0, 100) = n
    BY DEF Within
  <2> QED
    BY <2>1, <2>2 DEF Level
<1> HIDE DEF name, x, level
<1>5. ASSUME NEW w, w[1] = <<name>>, Devices(w, 3) = to, Len(w) > 2, w[2] = x, w[3] = level
      PROVE  EventsOf(w) = <<Event(ask, to)>>
  <2>1. \A names : Is(w, names) <=> name \in names
    BY <1>5, NameIs
  <2>2. Is(w, {"adjust_curve_preset"}) /\ ~Is(w, {"set_curve_preset"})
    BY <1>4, <2>1
  <2>3. CurveCommand(w) = <<Event(ask, to)>>
    BY <1>1, <1>5, <1>10, <2>2, WithNothing DEF CurveCommand, EventsIf
  <2> HIDE DEF ask
  <2> QED
    BY <1>4, <1>5, <2>3, FamilyGives
<1> HIDE DEF ask
<1>6. OfTwo(name, p, level, ask, to)
  BY <1>5 DEF OfTwo, x
<1>7. level \in Seq(Symbols) /\ SaysWord(level, level, level) /\ CanStand(p)
  BY <1>1
<1>8. CanBeNamed(to)
  OBVIOUS
<1>9. Foretells(WithDevices(TextWithTwo(name, p, level), to), ask, to)
  BY ONLY <1>2, <1>6, <1>7, <1>8, SaidWithTwo
<1> QED
  BY <1>3, <1>9 DEF ask, x, level

\* The messages for a curvature.
LEMMA CurvatureMessagesAre ==
  ASSUME NEW words, words[1] = <<"set_curvature">>, Len(words) \in Nat, Len(words) > 1,
         NEW to, Devices(words, 2) = to,
         NEW level, Level(words[2], 0, 100) = level
  PROVE  LET flat == words[2] = <<"flat">> \/ level = <<"0">>
             each == CurvatureMessages(words)
         IN  /\ MenuMessages(words) \o CurvatureMessages(words) = each
             /\ flat => each = <<WithDevices(ChooseText("flat"), to)>>
             /\ ~flat => /\ DOMAIN each = 1 .. 4
                         /\ each[1] = WithDevices(AdjustText("2", level), to)
                         /\ each[2] = WithDevices(AdjustText("3", level), to)
                         /\ each[3] = WithDevices(ChooseText("3"), to)
                         /\ each[4] = WithDevices(ChooseText("2"), to)
<1> DEFINE flat == words[2] = <<"flat">> \/ level = <<"0">>
<1> DEFINE messages == IF flat THEN <<ChooseText("flat")>>
                       ELSE <<AdjustText("2", level), AdjustText("3", level), ChooseText("3"),
                              ChooseText("2")>>
<1> DEFINE each == [i \in DOMAIN messages |-> WithDevices(messages[i], to)]
<1>1. CurvatureMessages(words) = each
  <2>1. Is(words, {"set_curvature"})
    <3>1. \A names : Is(words, names) <=> "set_curvature" \in names
      BY NameIs
    <3> QED
      BY <3>1
  <2>2. ~(Len(words) < 2)
    OBVIOUS
  <2> DEFINE same == IF ~Is(words, {"set_curvature"}) \/ Len(words) < 2 THEN <<>>
                     ELSE [i \in DOMAIN messages |-> WithDevices(messages[i], to)]
  <2>3. CurvatureMessages(words) = same
    BY DEF CurvatureMessages, ChooseText, AdjustText
  <2> HIDE DEF messages
  <2>4. same = each
    BY <2>1, <2>2
  <2> QED
    BY <2>3, <2>4
<1>2. MenuMessages(words) = <<>>
  <2>1. "set_curvature" \notin MenuFamily
    BY DEF MenuFamily
  <2> QED
    BY <2>1, OthersGiveNothing
<1>3. flat => each = <<WithDevices(ChooseText("flat"), to)>>
  <2> SUFFICES ASSUME flat PROVE each = <<WithDevices(ChooseText("flat"), to)>>
    OBVIOUS
  <2> DEFINE m == ChooseText("flat")
  <2>1. messages = <<m>>
    OBVIOUS
  <2> HIDE DEF messages, m
  <2>2. DOMAIN messages = {1} /\ messages[1] = m
    BY <2>1
  <2> DEFINE one == WithDevices(m, to)
  <2>3. each = [i \in {1} |-> one]
    BY <2>2
  <2> HIDE DEF one, each
  <2>4. <<one>> = [i \in {1} |-> one]
    OBVIOUS
  <2> QED
    BY <2>3, <2>4 DEF one, m
<1>4. ~flat => /\ DOMAIN each = 1 .. 4
               /\ each[1] = WithDevices(AdjustText("2", level), to)
               /\ each[2] = WithDevices(AdjustText("3", level), to)
               /\ each[3] = WithDevices(ChooseText("3"), to)
               /\ each[4] = WithDevices(ChooseText("2"), to)
  <2> SUFFICES ASSUME ~flat
               PROVE  /\ DOMAIN each = 1 .. 4
                      /\ each[1] = WithDevices(AdjustText("2", level), to)
                      /\ each[2] = WithDevices(AdjustText("3", level), to)
                      /\ each[3] = WithDevices(ChooseText("3"), to)
                      /\ each[4] = WithDevices(ChooseText("2"), to)
    OBVIOUS
  <2> DEFINE a == AdjustText("2", level)
  <2> DEFINE b == AdjustText("3", level)
  <2> DEFINE d == ChooseText("3")
  <2> DEFINE e == ChooseText("2")
  <2>1. messages = <<a, b, d, e>>
    OBVIOUS
  <2> HIDE DEF messages, a, b, d, e
  <2>2. /\ DOMAIN messages = 1 .. 4 /\ messages[1] = a /\ messages[2] = b /\ messages[3] = d
        /\ messages[4] = e
    BY <2>1
  <2>3. DOMAIN each = 1 .. 4 /\ \A i \in 1 .. 4 : each[i] = WithDevices(messages[i], to)
    BY <2>2
  <2> HIDE DEF each
  <2>4. 1 \in 1 .. 4 /\ 2 \in 1 .. 4 /\ 3 \in 1 .. 4 /\ 4 \in 1 .. 4
    OBVIOUS
  <2>5. /\ each[1] = WithDevices(a, to) /\ each[2] = WithDevices(b, to)
        /\ each[3] = WithDevices(d, to) /\ each[4] = WithDevices(e, to)
    BY <2>2, <2>3, <2>4
  <2> QED
    BY <2>3, <2>5 DEF a, b, d, e
<1>5. MenuMessages(words) \o CurvatureMessages(words) = each
  <2>1. \E T : each \in Seq(T)
    <3> DEFINE n == IF flat THEN 1 ELSE 4
    <3>1. DOMAIN each = 1 .. n /\ n \in Nat
      <4>1. flat => DOMAIN each = 1 .. 1
        <5>1. DOMAIN <<WithDevices(ChooseText("flat"), to)>> = 1 .. 1
          OBVIOUS
        <5> HIDE DEF flat, each
        <5> QED
          BY <1>3, <5>1
      <4> HIDE DEF each, flat
      <4> QED
        BY <1>4, <4>1
    <3> HIDE DEF n
    <3>2. each = [i \in 1 .. n |-> each[i]]
      BY <3>1
    <3> HIDE DEF each
    <3> DEFINE T == {each[i] : i \in 1 .. n}
    <3>3. \A i \in 1 .. n : each[i] \in T
      OBVIOUS
    <3>4. n \in Nat
      BY <3>1
    <3> HIDE DEF T
    <3>5. each \in Seq(T)
      BY ONLY <3>2, <3>3, <3>4, ListIs
    <3> QED
      BY <3>5
  <2> HIDE DEF each
  <2>2. <<>> \o each = each
    BY <2>1
  <2> QED
    BY <1>1, <1>2, <2>2
<1> HIDE DEF each
<1> QED
  BY <1>1, <1>3, <1>4, <1>5

\* A curvature is written anew as one message, or as four.
LEMMA CurvatureIsObeyed ==
  ASSUME NEW c, Told(c), c.name = "set_curvature"
  PROVE  Obeyed(c)
<1> DEFINE words == WordsOfCommand(c)
<1> DEFINE first == c.args[1]
<1> DEFINE to == c.to
<1> DEFINE n == Within(atoi(first), 0, 100)
<1> DEFINE level == to_string(n)
<1> DEFINE each == CurvatureMessages(words)
<1> DEFINE flat == first = <<"flat">> \/ level = <<"0">>
<1>1. Arity[c.name] = 1
  BY DEF Arity
<1>2. /\ words[1] = <<c.name>> /\ Devices(words, 2) = to
      /\ Len(words) > 1 /\ words[2] = first /\ first \in Word
  BY <1>1, ToldWithOne
<1>3. Len(words) \in Nat
  <2>1. /\ Len(words) = 1 + Len(c.args) + Len(c.to) /\ Len(c.to) \in Nat
        /\ Len(c.args) = Arity[c.name]
    BY ToldWords
  <2> QED
    BY <1>1, <2>1
<1>4. c.name \in CurvatureFamily /\ c.name \in MenuFamily \cup CurvatureFamily
  BY DEF CurvatureFamily
<1>5. CanBeNamed(to)
  <2>1. c.name \in Rewrites
    BY DEF Rewrites
  <2> QED
    BY <2>1, NamesNeedNoQuotes
<1> HIDE DEF words
<1>6. atoi(first) \in Int
  <2>1. first \in Seq(STRING)
    BY <1>2 DEF Word
  <2> QED
    BY <2>1, AtoiIsNumber
<1>7. n \in 0 .. 100 /\ (n = 0 <=> atoi(first) <= 0)
  BY <1>6 DEF Within
<1>8. Level(words[2], 0, 100) = level
  BY <1>2 DEF Level
<1> HIDE DEF n
<1>9. level = <<"0">> <=> atoi(first) <= 0
  BY <1>7, SmallNumbers
<1> HIDE DEF level
<1>10. /\ MenuMessages(words) \o CurvatureMessages(words) = each
       /\ flat => each = <<WithDevices(ChooseText("flat"), to)>>
       /\ ~flat => /\ DOMAIN each = 1 .. 4
                   /\ each[1] = WithDevices(AdjustText("2", level), to)
                   /\ each[2] = WithDevices(AdjustText("3", level), to)
                   /\ each[3] = WithDevices(ChooseText("3"), to)
                   /\ each[4] = WithDevices(ChooseText("2"), to)
  <2>1. words[1] = <<"set_curvature">>
    BY <1>2
  <2> QED
    BY <1>2, <1>3, <1>8, <2>1, CurvatureMessagesAre
<1> HIDE DEF each
<1>11. "flat" \in CurveSymbols /\ "2" \in CurveSymbols /\ "3" \in CurveSymbols
       /\ "2" # "flat" /\ "3" # "flat"
  BY DEF CurveSymbols
<1>12. ASSUME flat PROVE Obeyed(c)
  <2> DEFINE ask == Ask("changeCurve", <<<<"flat">>>>)
  <2> DEFINE text == WithDevices(ChooseText("flat"), to)
  <2>1. first = <<"flat">> \/ atoi(first) <= 0
    BY <1>9, <1>12
  <2>2. Means(c) = <<ask>>
    BY <2>1 DEF Means
  <2>3. Foretells(text, ask, to)
    <3>1. Preset(<<"flat">>) = <<"flat">>
      BY <1>11, CurveSymbolsAre
    <3>2. Foretells(text, Ask("changeCurve", <<Preset(<<"flat">>)>>), to)
      BY <1>5, <1>11, ChoiceIsForetold
    <3> QED
      BY <3>1, <3>2
  <2>4. MenuMessages(words) \o CurvatureMessages(words) = <<text>>
    BY <1>10, <1>12
  <2> HIDE DEF text, ask
  <2> QED
    BY <1>4, <2>2, <2>3, <2>4, ObeyedIfSaidOnce DEF words
<1>13. ASSUME ~flat PROVE Obeyed(c)
  <2> DEFINE m1 == Ask("updateCurvature", <<Preset(<<"2">>), level>>)
  <2> DEFINE m2 == Ask("updateCurvature", <<Preset(<<"3">>), level>>)
  <2> DEFINE m3 == Ask("changeCurve", <<Preset(<<"3">>)>>)
  <2> DEFINE m4 == Ask("changeCurve", <<Preset(<<"2">>)>>)
  <2>1. ~(first = <<"flat">> \/ atoi(first) <= 0)
    BY <1>9, <1>13
  <2>2. Means(c) = <<m1, m2, m3, m4>>
    <3>1. Preset(<<"2">>) = <<"curvature", "2">> /\ Preset(<<"3">>) = <<"curvature", "3">>
      BY <1>11, CurveSymbolsAre
    <3> QED
      BY <2>1, <3>1 DEF Means, level, n
  <2>3. /\ Foretells(WithDevices(AdjustText("2", level), to), m1, to)
        /\ Foretells(WithDevices(AdjustText("3", level), to), m2, to)
    BY <1>5, <1>7, <1>11, AdjustmentIsForetold DEF level
  <2>4. /\ Foretells(WithDevices(ChooseText("3"), to), m3, to)
        /\ Foretells(WithDevices(ChooseText("2"), to), m4, to)
    BY <1>5, <1>11, ChoiceIsForetold
  <2> HIDE DEF m1, m2, m3, m4, flat
  <2> DEFINE means == Means(c)
  <2> DEFINE M == {m1, m2, m3, m4}
  <2>5. /\ means \in Seq(M) /\ Len(means) = 4
        /\ means[1] = m1 /\ means[2] = m2 /\ means[3] = m3 /\ means[4] = m4
    BY <2>2
  <2> HIDE DEF means
  <2>6. /\ Foretells(each[1], means[1], to) /\ Foretells(each[2], means[2], to)
        /\ Foretells(each[3], means[3], to) /\ Foretells(each[4], means[4], to)
    BY <1>10, <1>13, <2>3, <2>4, <2>5
  <2>7. \A i \in 1 .. 4 : Foretells(each[i], means[i], to)
    <3>1. \A i \in 1 .. 4 : i = 1 \/ i = 2 \/ i = 3 \/ i = 4
      OBVIOUS
    <3> QED
      BY <2>6, <3>1
  <2>8. DOMAIN each = 1 .. 4 /\ 4 \in Nat
    BY <1>10, <1>13
  <2>9. each = MenuMessages(words) \o CurvatureMessages(words)
    BY <1>10
  <2> QED
    BY <1>4, <2>5, <2>7, <2>8, <2>9, ObeyedIfSaid DEF words, means
<1> QED
  BY <1>12, <1>13

\* The daemon does every command as it is meant.
LEMMA CommandIsObeyed ==
  ASSUME NEW c, Told(c)
  PROVE  Obeyed(c)
<1>1. c.name \in DOMAIN Arity /\ c.name # "get_system_settings"
  BY DEF Told, Command, DaemonUnderstands, OnlyOfConsole
<1>2. \/ c.name \in {"poweron", "screenon", "poweroff", "autodisable"}
      \/ c.name = "unmute" \/ c.name = "servicemenu" \/ c.name = "servicemenu_tpc_enable"
      \/ c.name = "servicemenu_legacy_enable"
      \/ c.name = "output" \/ c.name = "volume" \/ c.name = "colortemperature"
      \/ c.name = "gamemode_hdmi1" \/ c.name = "sethdmi" \/ c.name = "button"
      \/ c.name = "settings_picture" \/ c.name = "request" \/ c.name = "start_app"
      \/ c.name = "set_curvature" \/ c.name = "set_input_type"
  BY <1>1 DEF Arity
<1>3. c.name \in {"poweron", "screenon", "poweroff", "autodisable"} => Obeyed(c)
  BY PowerIsObeyed
<1>4. c.name \in {"unmute", "servicemenu", "servicemenu_tpc_enable", "servicemenu_legacy_enable"}
        => Obeyed(c)
  BY UnmuteIsObeyed, ServiceMenuIsObeyed, PanelIsObeyed, LegacyMenuIsObeyed
<1> QED
  BY <1>2, <1>3, <1>4, OutputIsObeyed, VolumeIsObeyed, ColorTemperatureIsObeyed,
     GameModeIsObeyed, HdmiIsObeyed, ButtonIsObeyed, PictureIsObeyed, RequestIsObeyed,
     StartAppIsObeyed, CurvatureIsObeyed, InputTypeIsObeyed

\* Each line gives its part.
Due(lines, parts) ==
    /\ lines \in Seq(Seq(Symbols)) /\ parts \in Seq(Seq(Answerable)) /\ Len(lines) = Len(parts)
    /\ \A k \in 1 .. Len(lines) : Gives(lines[k], parts[k])

\* Nothing is left.
LEMMA DueNothing == Due(<<>>, <<>>)
<1>1. Len(<<>>) = 0 /\ 1 .. 0 = {} /\ \A S : <<>> \in Seq(S)
  OBVIOUS
<1> QED
  BY <1>1 DEF Due

\* One line less is left.
LEMMA DueTail ==
  ASSUME NEW lines, NEW parts, Due(lines, parts), lines # <<>>
  PROVE  /\ Due(Tail(lines), Tail(parts)) /\ Gives(Head(lines), parts[1])
         /\ parts[1] \in Seq(Answerable) /\ FlattenSeq(Tail(parts)) \in Seq(Answerable)
         /\ FlattenSeq(parts) = parts[1] \o FlattenSeq(Tail(parts))
<1> DEFINE X == Seq(Symbols)
<1> DEFINE Y == Seq(Answerable)
<1> DEFINE n == Len(lines)
<1>1. /\ lines \in Seq(X) /\ parts \in Seq(Y) /\ Len(parts) = n /\ n \in Nat
      /\ \A k \in 1 .. n : Gives(lines[k], parts[k])
  BY DEF Due
<1> HIDE DEF X, Y
<1>2. n > 0
  BY <1>1
<1>3. /\ Tail(lines) \in Seq(X) /\ Len(Tail(lines)) = n - 1 /\ Head(lines) = lines[1]
      /\ \A k \in 1 .. n - 1 : Tail(lines)[k] = lines[k + 1]
  BY <1>1, <1>2
<1>4. /\ Tail(parts) \in Seq(Y) /\ Len(Tail(parts)) = n - 1 /\ parts # <<>>
      /\ \A k \in 1 .. n - 1 : Tail(parts)[k] = parts[k + 1]
  <2>1. parts \in Seq(Y) /\ Len(parts) = n /\ n > 0 /\ n \in Nat
    BY <1>1, <1>2
  <2> HIDE DEF n
  <2>2. parts # <<>>
    BY <2>1
  <2>3. Tail(parts) \in Seq(Y) /\ Len(Tail(parts)) = Len(parts) - 1
    BY <2>1, <2>2
  <2>4. \A k \in 1 .. n - 1 : Tail(parts)[k] = parts[k + 1]
    BY <2>1, <2>2
  <2> QED
    BY <2>1, <2>2, <2>3, <2>4
<1>5. 1 \in 1 .. n /\ \A k \in 1 .. n - 1 : k + 1 \in 1 .. n
  BY <1>1, <1>2
<1>6. Gives(Head(lines), parts[1]) /\ parts[1] \in Y
  <2>1. parts[1] \in Y
    BY <1>1, <1>5
  <2> QED
    BY <1>1, <1>3, <1>5, <2>1
<1>7. \A k \in 1 .. n - 1 : Gives(Tail(lines)[k], Tail(parts)[k])
  BY <1>1, <1>3, <1>4, <1>5
<1> HIDE DEF n
<1>8. Due(Tail(lines), Tail(parts))
  BY <1>3, <1>4, <1>7 DEF Due, X, Y
<1>9. FlattenSeq(Tail(parts)) \in Seq(Answerable)
  BY <1>4, FlattenType DEF Y
<1>10. FlattenSeq(parts) = parts[1] \o FlattenSeq(Tail(parts))
  <2> DEFINE a == <<parts[1]>>
  <2> DEFINE b == Tail(parts)
  <2>1. a \in Seq(Y) /\ b \in Seq(Y)
    BY <1>4, <1>6
  <2>2. parts = a \o b
    BY <1>1, <1>4
  <2>3. FlattenSeq(a) = parts[1]
    BY <1>6, FlattenOne DEF Y
  <2> HIDE DEF a, b
  <2>4. FlattenSeq(a \o b) = FlattenSeq(a) \o FlattenSeq(b)
    BY <2>1, FlattenConcat DEF Y
  <2> QED
    BY <2>2, <2>3, <2>4 DEF b
<1> QED
  BY <1>6, <1>8, <1>9, <1>10 DEF Y

\* The same of two lists of lines in a row.
DueInRow(a, p, b, q) ==
    Due(a \o b, p \o q) /\ FlattenSeq(p \o q) = FlattenSeq(p) \o FlattenSeq(q)

\* Lines in front of those that are left.
LEMMA DueBoth ==
  ASSUME NEW a, NEW p, NEW b, NEW q, Due(a, p), Due(b, q)
  PROVE  DueInRow(a, p, b, q)
<1> DEFINE X == Seq(Symbols)
<1> DEFINE Y == Seq(Answerable)
<1> DEFINE n == Len(a)
<1> DEFINE m == Len(b)
<1>1. /\ a \in Seq(X) /\ b \in Seq(X) /\ p \in Seq(Y) /\ q \in Seq(Y)
      /\ Len(p) = n /\ Len(q) = m /\ n \in Nat /\ m \in Nat
      /\ \A k \in 1 .. n : Gives(a[k], p[k])
      /\ \A k \in 1 .. m : Gives(b[k], q[k])
  BY DEF Due
<1> HIDE DEF X, Y
<1>2. /\ a \o b \in Seq(X) /\ Len(a \o b) = n + m
      /\ \A k \in 1 .. n + m : (a \o b)[k] = IF k <= n THEN a[k] ELSE b[k - n]
  BY <1>1, ConcatProperties
<1>3. /\ p \o q \in Seq(Y) /\ Len(p \o q) = n + m
      /\ \A k \in 1 .. n + m : (p \o q)[k] = IF k <= n THEN p[k] ELSE q[k - n]
  <2>1. /\ p \o q \in Seq(Y) /\ Len(p \o q) = Len(p) + Len(q)
        /\ \A k \in 1 .. Len(p) + Len(q) :
             (p \o q)[k] = IF k <= Len(p) THEN p[k] ELSE q[k - Len(p)]
    BY <1>1, ConcatProperties
  <2>2. Len(p) = n /\ Len(q) = m
    BY <1>1
  <2> HIDE DEF n, m
  <2> QED
    BY <2>1, <2>2
<1>4. \A k \in 1 .. n + m : (k <= n => k \in 1 .. n) /\ (~(k <= n) => k - n \in 1 .. m)
  BY <1>1
<1>5. \A k \in 1 .. n + m : Gives((a \o b)[k], (p \o q)[k])
  <2> TAKE k \in 1 .. n + m
  <2> HIDE DEF n, m
  <2>1. ASSUME k <= n PROVE Gives((a \o b)[k], (p \o q)[k])
    BY <1>1, <1>2, <1>3, <1>4, <2>1
  <2>2. ASSUME ~(k <= n) PROVE Gives((a \o b)[k], (p \o q)[k])
    BY <1>1, <1>2, <1>3, <1>4, <2>2
  <2> QED
    BY <2>1, <2>2
<1>6. FlattenSeq(p \o q) = FlattenSeq(p) \o FlattenSeq(q)
  BY <1>1, FlattenConcat DEF Y
<1> HIDE DEF n, m
<1> QED
  BY <1>2, <1>3, <1>5, <1>6 DEF Due, DueInRow, X, Y

\* What a line gives at once, and what the lines give that it is written anew as.
LEMMA GivesInParts ==
  ASSUME NEW line, NEW asks, Gives(line, asks)
  PROVE  /\ WordsOf(line) # <<>> /\ AtOnce(line) \in Seq(Answerable)
         /\ \E parts : /\ Due(Becomes(line), parts) /\ FlattenSeq(parts) \in Seq(Answerable)
                       /\ asks = AtOnce(line) \o FlattenSeq(parts)
<1>1. \A x \in Seq(Answerable) : x \o <<>> = x /\ <<>> \o x = x
  OBVIOUS
<1>2. <<>> \in Seq(Answerable)
  OBVIOUS
<1>3. ASSUME Leads(line, asks)
      PROVE  /\ WordsOf(line) # <<>> /\ AtOnce(line) \in Seq(Answerable)
             /\ \E parts : /\ Due(Becomes(line), parts) /\ FlattenSeq(parts) \in Seq(Answerable)
                           /\ asks = AtOnce(line) \o FlattenSeq(parts)
  <2>1. /\ asks \in Seq(Answerable) /\ WordsOf(line) # <<>> /\ Becomes(line) = <<>>
        /\ AtOnce(line) = asks
    BY <1>3 DEF Leads
  <2>2. Due(Becomes(line), <<>>)
    BY <2>1, DueNothing
  <2>3. FlattenSeq(<<>>) = <<>>
    BY FlattenNone
  <2>4. asks = AtOnce(line) \o FlattenSeq(<<>>)
    BY <1>1, <2>1, <2>3
  <2> QED
    BY <1>2, <2>1, <2>2, <2>3, <2>4
<1>4. ASSUME ~Leads(line, asks)
      PROVE  /\ WordsOf(line) # <<>> /\ AtOnce(line) \in Seq(Answerable)
             /\ \E parts : /\ Due(Becomes(line), parts) /\ FlattenSeq(parts) \in Seq(Answerable)
                           /\ asks = AtOnce(line) \o FlattenSeq(parts)
  <2>1. WordsOf(line) # <<>> /\ AtOnce(line) = <<>> /\ Becomes(line) \in Seq(Seq(Symbols))
    BY <1>4 DEF Gives
  <2>2. PICK parts \in Seq(Seq(Answerable)) :
          /\ Len(parts) = Len(Becomes(line)) /\ asks = FlattenSeq(parts)
          /\ \A i \in 1 .. Len(parts) : Leads(Becomes(line)[i], parts[i])
    BY <1>4 DEF Gives
  <2>3. Due(Becomes(line), parts)
    BY <2>1, <2>2 DEF Due, Gives
  <2>4. FlattenSeq(parts) \in Seq(Answerable)
    BY FlattenType
  <2>5. asks = AtOnce(line) \o FlattenSeq(parts)
    BY <1>1, <2>1, <2>2, <2>4
  <2> QED
    BY <1>2, <2>1, <2>3, <2>4, <2>5
<1> QED
  BY <1>3, <1>4

-----------------------------------------------------------------------------
\* What is left of a message that the daemon can read: what the displays were asked, and what the
\* lines give that are left, is what was meant.
AllDue ==
    /\ dispatched \in Seq(Answerable)
    /\ \E parts : Due(commands, parts) /\ dispatched \o FlattenSeq(parts) = Intended(intent)

\* What holds of a message: nothing is read before it comes, and then what is left is due.
ReadInv ==
    /\ intent \in Intents
    /\ written = "message" => parser = <<<<>>, <<>>>>
    /\ written = "received" /\ All(intent, DaemonUnderstands) => AllDue

\* It is so when the message comes.
LEMMA SentIsDue ==
  ASSUME ReadInv, Sent, All(intent, DaemonUnderstands), intent' = intent
  PROVE  AllDue'
<1> DEFINE m == Len(intent)
<1> DEFINE ls == [i \in 1 .. m |-> LineOfCommand(intent[i])]
<1> DEFINE parts == [i \in 1 .. m |-> Asked(intent[i])]
<1>1. /\ intent \in Seq(Command) /\ m \in Nat /\ DOMAIN intent = 1 .. m
      /\ \A i \in 1 .. m : intent[i] \in Command
      /\ \A i \in 1 .. m : Len(intent[i].args) = Arity[intent[i].name]
  <2>1. intent \in Seq(Command)
        /\ \A i \in DOMAIN intent : Len(intent[i].args) = Arity[intent[i].name]
    BY IntentsAssumption DEF ReadInv
  <2> QED
    BY <2>1
<1>2. commands' = ls
  <2>1. CommandLines(Message(intent)) = ls
    BY <1>1, MessageIsRead
  <2> QED
    BY <2>1 DEF Sent, Receive
<1>3. dispatched' = <<>>
  BY DEF Sent, Receive, ReadInv, parser
<1>4. \A i \in 1 .. m : /\ LineOfCommand(intent[i]) \in Seq(Symbols)
                        /\ Asked(intent[i]) \in Seq(Answerable)
                        /\ Gives(LineOfCommand(intent[i]), Asked(intent[i]))
  <2> TAKE i \in 1 .. m
  <2>1. DaemonUnderstands(intent[i])
    BY <1>1 DEF All
  <2>2. Told(intent[i])
    BY <1>1, <2>1 DEF Told
  <2>3. Obeyed(intent[i])
    BY <2>2, CommandIsObeyed
  <2>4. LineOfCommand(intent[i]) \in Seq(Symbols)
    BY <1>1, <2>1, CommandIsSaid
  <2> QED
    BY <2>3, <2>4 DEF Obeyed
<1>5. Intended(intent) = FlattenSeq(parts)
  BY <1>1, IntendedIs
<1>6. /\ ls \in Seq(Seq(Symbols)) /\ Len(ls) = m
      /\ parts \in Seq(Seq(Answerable)) /\ Len(parts) = m
      /\ \A i \in 1 .. m : Gives(ls[i], parts[i])
  <2> DEFINE X == Seq(Symbols)
  <2> DEFINE Y == Seq(Answerable)
  <2>1. /\ ls = [i \in 1 .. m |-> ls[i]] /\ \A i \in 1 .. m : ls[i] \in X
        /\ parts = [i \in 1 .. m |-> parts[i]] /\ \A i \in 1 .. m : parts[i] \in Y
        /\ \A i \in 1 .. m : Gives(ls[i], parts[i])
    BY <1>4
  <2>2. m \in Nat
    BY <1>1
  <2> HIDE DEF X, Y, ls, parts, m
  <2>3. ls \in Seq(X) /\ Len(ls) = m
    BY ONLY <2>1, <2>2, ListIs
  <2>4. parts \in Seq(Y) /\ Len(parts) = m
    BY ONLY <2>1, <2>2, ListIs
  <2> QED
    BY <2>1, <2>3, <2>4 DEF X, Y
<1> HIDE DEF ls, parts, m
<1>7. Due(ls, parts)
  BY <1>6 DEF Due
<1>8. FlattenSeq(parts) \in Seq(Answerable)
  BY <1>6, FlattenType
<1>9. <<>> \o FlattenSeq(parts) = FlattenSeq(parts) /\ <<>> \in Seq(Answerable)
  BY <1>8
<1>10. dispatched' \o FlattenSeq(parts) = Intended(intent')
  BY <1>3, <1>5, <1>9
<1>11. Due(commands', parts)
  BY <1>2, <1>7
<1>12. \E w : Due(commands', w) /\ dispatched' \o FlattenSeq(w) = Intended(intent')
  BY <1>10, <1>11
<1>13. dispatched' \in Seq(Answerable)
  BY <1>3, <1>9
<1> QED
  BY <1>12, <1>13 DEF AllDue

\* A line that is read leaves it so.
LEMMA ReadIsDue ==
  ASSUME AllDue, ReadCommand, intent' = intent
  PROVE  AllDue'
<1> DEFINE line == Head(commands)
<1> DEFINE Y == Seq(Answerable)
<1>1. PICK parts : Due(commands, parts) /\ dispatched \o FlattenSeq(parts) = Intended(intent)
  BY DEF AllDue
<1> DEFINE r == parts[1]
<1> DEFINE rest == Tail(parts)
<1>2. /\ Due(Tail(commands), rest) /\ Gives(line, r) /\ r \in Y
      /\ FlattenSeq(rest) \in Y /\ FlattenSeq(parts) = r \o FlattenSeq(rest)
  <2>1. commands # <<>>
    BY DEF ReadCommand
  <2> QED
    BY <1>1, <2>1, DueTail
<1>3. WordsOf(line) # <<>> /\ AtOnce(line) \in Y
  BY <1>2, GivesInParts
<1>4. PICK more : /\ Due(Becomes(line), more) /\ FlattenSeq(more) \in Y
                  /\ r = AtOnce(line) \o FlattenSeq(more)
  BY <1>2, GivesInParts
<1>5. commands' = Becomes(line) \o Tail(commands) /\ dispatched' = dispatched \o AtOnce(line)
  BY <1>3 DEF ReadCommand, Becomes, AtOnce
<1>6. dispatched \in Y
  BY DEF AllDue
<1> HIDE DEF line, r, rest, Y
<1>7. /\ Due(Becomes(line) \o Tail(commands), more \o rest)
      /\ FlattenSeq(more \o rest) = FlattenSeq(more) \o FlattenSeq(rest)
  <2> DEFINE a == Becomes(line)
  <2> DEFINE b == Tail(commands)
  <2>1. Due(a, more) /\ Due(b, rest)
    BY <1>2, <1>4
  <2> HIDE DEF a, b
  <2>2. DueInRow(a, more, b, rest)
    BY ONLY <2>1, DueBoth
  <2> QED
    BY <2>2 DEF a, b, DueInRow
<1>8. dispatched' \o FlattenSeq(more \o rest) = Intended(intent)
  <2> DEFINE a == dispatched
  <2> DEFINE b == AtOnce(line)
  <2> DEFINE d == FlattenSeq(more)
  <2> DEFINE e == FlattenSeq(rest)
  <2>1. a \in Y /\ b \in Y /\ d \in Y /\ e \in Y
    BY <1>2, <1>3, <1>4, <1>6
  <2>2. dispatched' \o FlattenSeq(more \o rest) = (a \o b) \o (d \o e)
    BY <1>5, <1>7
  <2>3. Intended(intent) = a \o ((b \o d) \o e)
    BY <1>1, <1>2, <1>4
  <2> HIDE DEF a, b, d, e
  <2>4. a \in Seq(Answerable) /\ b \in Seq(Answerable) /\ d \in Seq(Answerable)
        /\ e \in Seq(Answerable) /\ d \o e \in Seq(Answerable)
    BY <2>1 DEF Y
  <2>5. (a \o b) \o (d \o e) = a \o (b \o (d \o e))
    BY ONLY <2>4, Associative
  <2>6. (b \o d) \o e = b \o (d \o e)
    BY ONLY <2>4, Associative
  <2> QED
    BY <2>2, <2>3, <2>5, <2>6
<1>9. dispatched' \in Seq(Answerable)
  <2> DEFINE a == dispatched
  <2> DEFINE b == AtOnce(line)
  <2>1. a \in Seq(Answerable) /\ b \in Seq(Answerable) /\ dispatched' = a \o b
    BY <1>3, <1>5, <1>6 DEF Y
  <2> HIDE DEF a, b
  <2> QED
    BY <2>1
<1>10. \E w : Due(commands', w) /\ dispatched' \o FlattenSeq(w) = Intended(intent')
  BY <1>5, <1>7, <1>8
<1> QED
  BY <1>9, <1>10 DEF AllDue

\* The daemon reads a message that it can read as it was meant (companion.cpp:1189-1681).
THEOREM ReadingIsKept == Spec => []ReadInv
<1>1. Init => ReadInv
  BY DEF Init, ReadInv, ParserInit, parser
<1>2. ReadInv /\ [Next]_vars => ReadInv'
  <2> SUFFICES ASSUME ReadInv, [Next]_vars PROVE ReadInv'
    OBVIOUS
  <2>1. intent' = intent
    BY DEF Next, vars, Sent, Daemon, CommandLineProgram
  <2>2. CASE Sent
    <3>1. All(intent, DaemonUnderstands) => AllDue'
      BY <2>1, <2>2, SentIsDue
    <3> QED
      BY <2>1, <2>2, <3>1 DEF ReadInv, Sent
  <2>3. CASE Daemon
    <3>1. ReadCommand /\ written' = written
      BY <2>3 DEF Daemon
    <3>2. written # "message"
      BY <3>1 DEF ReadCommand, ReadInv, parser
    <3>3. AllDue => AllDue'
      BY <2>1, <3>1, ReadIsDue
    <3> QED
      BY <2>1, <3>1, <3>2, <3>3 DEF ReadInv
  <2>4. CASE UNCHANGED <<parser, intent, written>>
    <3>1. commands' = commands /\ dispatched' = dispatched
      BY <2>4 DEF parser
    <3>2. AllDue => AllDue'
      BY <2>1, <3>1 DEF AllDue
    <3> QED
      BY <2>4, <3>1, <3>2 DEF ReadInv, parser
  <2> QED
    BY <2>2, <2>3, <2>4 DEF Next, vars, CommandLineProgram
<1> QED
  BY <1>1, <1>2, PTL DEF Spec

\* Of a line that says nothing that a message cannot say, what DaemonReadsAsWritten says: when
\* the daemon has read the message, the sessions were given what was meant, in its order
\* (companion.cpp:1189-1681).
THEOREM MessageIsReadAsWritten ==
  Spec => [](All(intent, DaemonUnderstands) => DaemonReadsAsWritten)
<1>1. ReadInv => (All(intent, DaemonUnderstands) => DaemonReadsAsWritten)
  <2> SUFFICES ASSUME ReadInv, DaemonIsDone, All(intent, DaemonUnderstands)
               PROVE  dispatched = Intended(intent)
    BY DEF DaemonReadsAsWritten
  <2>1. AllDue /\ commands = <<>>
    BY DEF ReadInv, DaemonIsDone
  <2>2. PICK parts : Due(commands, parts) /\ dispatched \o FlattenSeq(parts) = Intended(intent)
    BY <2>1 DEF AllDue
  <2>3. parts = <<>>
    <3>1. Len(parts) = Len(commands) /\ parts \in Seq(Seq(Answerable))
      BY <2>2 DEF Due
    <3>2. Len(parts) = 0
      BY <2>1, <3>1
    <3> QED
      BY <3>1, <3>2, EmptySeq
  <2>4. FlattenSeq(parts) = <<>>
    BY <2>3, FlattenNone
  <2>5. dispatched \in Seq(Answerable)
    BY <2>1 DEF AllDue
  <2>6. dispatched \o <<>> = dispatched
    BY <2>5
  <2> QED
    BY <2>2, <2>4, <2>6
<1> QED
  BY <1>1, ReadingIsKept, PTL

=============================================================================
