--------------------------- MODULE CacheKeyProofs ---------------------------
(***************************************************************************)
(* What the key of a URL tells of it, and what it does not.                *)
(***************************************************************************)
EXTENDS CacheKey, SequenceTheorems, TLAPS

\* A sequence is cut in one way before the first place of a sign.
CutsAt(R, S, s) ==
    \A a, c \in Seq(R), b, d \in Seq(S) :
      a \o b = c \o d /\ b # <<>> /\ d # <<>> /\ b[1] = s /\ d[1] = s => a = c /\ b = d

LEMMA CutAt ==
  ASSUME NEW R, NEW S, NEW s, s \notin R
  PROVE  CutsAt(R, S, s)
  <1> SUFFICES ASSUME NEW a \in Seq(R), NEW c \in Seq(R), NEW b \in Seq(S), NEW d \in Seq(S),
                      a \o b = c \o d, b # <<>>, d # <<>>, b[1] = s, d[1] = s
               PROVE  a = c /\ b = d
    BY Zenon DEF CutsAt
  <1>1. /\ Len(a) \in Nat /\ Len(b) \in Nat /\ Len(c) \in Nat /\ Len(d) \in Nat
        /\ Len(b) > 0 /\ Len(d) > 0
        /\ \A i \in 1..Len(a) : a[i] # s
        /\ \A i \in 1..Len(c) : c[i] # s
    OBVIOUS
  <1> DEFINE Both == R \cup S
  <1>2. a \in Seq(Both) /\ b \in Seq(Both) /\ c \in Seq(Both) /\ d \in Seq(Both)
    BY SeqMonotonic
  <1> HIDE DEF Both
  <1>3. /\ Len(a \o b) = Len(a) + Len(b)
        /\ \A i \in 1..Len(a) + Len(b) : (a \o b)[i] = IF i <= Len(a) THEN a[i] ELSE b[i - Len(a)]
    BY <1>2, ConcatProperties
  <1>4. /\ Len(c \o d) = Len(c) + Len(d)
        /\ \A i \in 1..Len(c) + Len(d) : (c \o d)[i] = IF i <= Len(c) THEN c[i] ELSE d[i - Len(c)]
    BY <1>2, ConcatProperties
  <1> DEFINE t == a \o b
  <1>5. /\ Len(t) = Len(a) + Len(b) /\ Len(t) = Len(c) + Len(d)
        /\ \A i \in 1..Len(t) : t[i] = IF i <= Len(a) THEN a[i] ELSE b[i - Len(a)]
        /\ \A i \in 1..Len(t) : t[i] = IF i <= Len(c) THEN c[i] ELSE d[i - Len(c)]
    BY <1>3, <1>4
  <1> HIDE DEF t
  <1>6. t[Len(a) + 1] = s /\ t[Len(c) + 1] = s
    <2>1. Len(a) + 1 \in 1..Len(t) /\ Len(c) + 1 \in 1..Len(t)
      BY <1>1, <1>5
    <2> QED
      BY <1>1, <1>5, <2>1
  <1>7. Len(a) = Len(c) /\ Len(b) = Len(d)
    <2>1. ~(Len(a) < Len(c))
      <3> SUFFICES ASSUME Len(a) < Len(c) PROVE FALSE
        OBVIOUS
      <3>1. Len(a) + 1 \in 1..Len(c) /\ Len(a) + 1 \in 1..Len(t) /\ Len(a) + 1 <= Len(c)
        BY <1>1, <1>5
      <3> QED
        BY <1>1, <1>5, <1>6, <3>1
    <2>2. ~(Len(c) < Len(a))
      <3> SUFFICES ASSUME Len(c) < Len(a) PROVE FALSE
        OBVIOUS
      <3>1. Len(c) + 1 \in 1..Len(a) /\ Len(c) + 1 \in 1..Len(t) /\ Len(c) + 1 <= Len(a)
        BY <1>1, <1>5
      <3> QED
        BY <1>1, <1>5, <1>6, <3>1
    <2> QED
      BY <1>1, <1>5, <2>1, <2>2
  <1>8. \A i \in 1..Len(a) : a[i] = c[i]
    BY <1>1, <1>5, <1>7
  <1>9. \A i \in 1..Len(b) : b[i] = d[i]
    <2> SUFFICES ASSUME NEW i \in 1..Len(b) PROVE b[i] = d[i]
      OBVIOUS
    <2>1. Len(a) + i \in 1..Len(t) /\ ~(Len(a) + i <= Len(a)) /\ (Len(a) + i) - Len(a) = i
      BY <1>1, <1>5
    <2> QED
      BY <1>5, <1>7, <2>1
  <1> QED
    BY <1>2, <1>7, <1>8, <1>9, SeqEqual

-----------------------------------------------------------------------------
(* Paths.                                                                  *)

\* The tokens of a path, and the one that stands for a space.
Token == Piece \cup {"/", ":"} \cup {"%20"}

\* The path in the request line, of a path alone.
Root(p) == IF p = <<>> THEN <<"/">> ELSE p

LEMMA SpacedSeq ==
  ASSUME NEW p \in Seq(Token)
  PROVE  /\ Spaced(p) \in Seq(Token) /\ Len(Spaced(p)) = Len(p)
         /\ \A i \in 1..Len(p) : Spaced(p)[i] = IF p[i] = "+" THEN "%20" ELSE p[i]
  <1>1. "%20" \in Token
    BY DEF Token
  <1>2. DOMAIN p = 1..Len(p) /\ Len(p) \in Nat /\ \A i \in 1..Len(p) : p[i] \in Token
    OBVIOUS
  <1>3. Spaced(p) \in [1..Len(p) -> Token]
    BY <1>1, <1>2 DEF Spaced
  <1>4. Spaced(p) \in Seq(Token)
    BY <1>2, <1>3, SeqDef
  <1>5. DOMAIN Spaced(p) = 1..Len(p)
    BY <1>3
  <1>6. Len(Spaced(p)) = Len(p)
    BY <1>2, <1>4, <1>5, LenProperties
  <1> QED
    BY <1>2, <1>4, <1>6 DEF Spaced

LEMMA SpelledAlike ==
  ASSUME NEW p \in Seq(Token), NEW q \in Seq(Token)
  PROVE  SameSpelling(p, q) <=> Spaced(p) = Spaced(q)
  <1>1. /\ DOMAIN p = 1..Len(p) /\ Len(p) \in Nat
        /\ DOMAIN q = 1..Len(q) /\ Len(q) \in Nat
    OBVIOUS
  <1>2. ASSUME SameSpelling(p, q) PROVE Spaced(p) = Spaced(q)
    BY <1>2 DEF SameSpelling, Spaced
  <1>3. ASSUME Spaced(p) = Spaced(q) PROVE SameSpelling(p, q)
    <2>1. Len(p) = Len(q)
      BY <1>3, SpacedSeq
    <2>2. \A i \in 1..Len(p) : (IF p[i] = "+" THEN "%20" ELSE p[i])
                                 = (IF q[i] = "+" THEN "%20" ELSE q[i])
      BY <1>3, <2>1, SpacedSeq
    <2> QED
      BY <1>1, <2>1, <2>2 DEF SameSpelling
  <1> QED
    BY <1>2, <1>3

LEMMA SpacedAppend ==
  ASSUME NEW p \in Seq(Token)
  PROVE  Append(p, "/") \in Seq(Token) /\ Spaced(Append(p, "/")) = Append(Spaced(p), "/")
  <1>1. "/" \in Token
    BY DEF Token
  <1>2. Append(p, "/") \in Seq(Token)
    BY <1>1
  <1>3. /\ Len(p) \in Nat
        /\ Len(Append(p, "/")) = Len(p) + 1
        /\ \A i \in 1..Len(p) : Append(p, "/")[i] = p[i]
        /\ Append(p, "/")[Len(p) + 1] = "/"
    OBVIOUS
  <1> DEFINE x == Spaced(Append(p, "/"))
             z == Spaced(p)
             y == Append(z, "/")
  <1>4. /\ z \in Seq(Token) /\ Len(z) = Len(p)
        /\ \A i \in 1..Len(p) : z[i] = IF p[i] = "+" THEN "%20" ELSE p[i]
    BY SpacedSeq
  <1>5. /\ x \in Seq(Token) /\ Len(x) = Len(p) + 1
        /\ \A i \in 1..Len(p) + 1 : x[i] = IF Append(p, "/")[i] = "+" THEN "%20"
                                                                      ELSE Append(p, "/")[i]
    BY <1>2, <1>3, SpacedSeq
  <1> HIDE DEF z, x
  <1>6. /\ y \in Seq(Token) /\ Len(y) = Len(p) + 1
        /\ \A i \in 1..Len(p) : y[i] = z[i]
        /\ y[Len(p) + 1] = "/"
    BY <1>1, <1>4
  <1> HIDE DEF y
  <1>7. \A i \in 1..Len(p) + 1 : i \in 1..Len(p) \/ i = Len(p) + 1
    BY <1>3
  <1>8. \A i \in 1..Len(x) : x[i] = y[i]
    BY <1>3, <1>4, <1>5, <1>6, <1>7
  <1>9. x = y
    BY <1>5, <1>6, <1>8, SeqEqual
  <1> QED
    BY <1>2, <1>9 DEF x, y, z

LEMMA PathSeq ==
  ASSUME NEW p \in Seq(Token)
  PROVE  normalizePath(p) \in Seq(Token)
  <1> DEFINE sp == Spaced(p)
  <1>1. sp \in Seq(Token)
    BY SpacedSeq
  <1>2. <<"/">> \in Seq(Token)
    BY DEF Token
  <1>3. normalizePath(p) \in {<<"/">>, Trimmed(sp)} /\ (sp = <<>> => normalizePath(p) = <<"/">>)
    BY DEF normalizePath
  <1> HIDE DEF sp
  <1>4. sp # <<>> => Trimmed(sp) \in Seq(Token)
    BY <1>1 DEF Trimmed
  <1> QED
    BY <1>2, <1>3, <1>4

\* The path of a key is the requested one, less a slash at the end or not.
LEMMA PathOfKey ==
  ASSUME NEW p \in Seq(Token), p = <<>> \/ p[1] = "/"
  PROVE  /\ Root(p) \in Seq(Token)
         /\ normalizePath(p) \in Seq(Token) /\ normalizePath(p) # <<>>
         /\ normalizePath(p)[1] = "/"
         /\ Spaced(Root(p)) \in {normalizePath(p), Append(normalizePath(p), "/")}
  <1>1. "/" \in Token /\ <<"/">> \in Seq(Token)
    BY DEF Token
  <1>2. Root(p) \in Seq(Token)
    BY <1>1 DEF Root
  <1> DEFINE sp == Spaced(p)
  <1>3. /\ sp \in Seq(Token) /\ Len(sp) = Len(p) /\ Len(p) \in Nat
        /\ \A i \in 1..Len(p) : sp[i] = IF p[i] = "+" THEN "%20" ELSE p[i]
    BY SpacedSeq
  <1>4. p # <<>> => Len(p) > 0 /\ sp[1] = "/"
    BY <1>3
  <1>5. CASE p = <<>>
    <2>1. normalizePath(p) = <<"/">>
      BY <1>5 DEF normalizePath, Spaced
    <2>2. Root(p) = <<"/">> /\ Spaced(<<"/">>) = <<"/">>
      BY <1>5 DEF Root, Spaced
    <2> QED
      BY <1>1, <1>2, <2>1, <2>2
  <1>6. CASE p # <<>> /\ sp \in {<<>>, <<"/">>}
    <2>1. sp = <<"/">>
      BY <1>3, <1>4, <1>6
    <2>2. normalizePath(p) = <<"/">> /\ Spaced(Root(p)) = <<"/">>
      BY <1>6, <2>1 DEF normalizePath, Root
    <2> QED
      BY <1>1, <1>2, <2>2
  <1>7. CASE p # <<>> /\ sp \notin {<<>>, <<"/">>}
    <2>1. normalizePath(p) = Trimmed(sp) /\ Spaced(Root(p)) = sp
      BY <1>7 DEF normalizePath, Root
    <2> HIDE DEF sp
    <2>2. CASE sp[Len(sp)] # "/"
      <3>1. Trimmed(sp) = sp
        BY <2>2 DEF Trimmed
      <3> QED
        BY <1>2, <1>3, <1>4, <1>7, <2>1, <3>1
    <2>3. CASE sp[Len(sp)] = "/"
      <3> DEFINE w == SubSeq(sp, 1, Len(sp) - 1)
      <3>1. Trimmed(sp) = w
        BY <2>3 DEF Trimmed
      <3>2. Len(sp) > 1
        <4>1. Len(sp) >= 1 /\ sp[1] = "/" /\ sp # <<"/">>
          BY <1>3, <1>4, <1>7
        <4>2. Len(sp) # 1
          <5>1. Len(<<"/">>) = 1 /\ <<"/">>[1] = "/"
            OBVIOUS
          <5> SUFFICES ASSUME Len(sp) = 1 PROVE sp = <<"/">>
            BY <4>1
          <5>2. \A i \in 1..Len(sp) : sp[i] = <<"/">>[i]
            BY <4>1, <5>1
          <5> QED
            BY <1>1, <1>3, <5>1, <5>2, SeqEqual
        <4> QED
          BY <1>3, <4>1, <4>2
      <3>3. /\ w \in Seq(Token) /\ Len(w) = Len(sp) - 1
            /\ \A i \in 1..Len(sp) - 1 : w[i] = sp[i]
        BY <1>3, <3>2
      <3> HIDE DEF w
      <3>4. w # <<>> /\ w[1] = "/"
        BY <1>3, <1>4, <1>7, <3>2, <3>3
      <3>5. /\ Append(w, "/") \in Seq(Token) /\ Len(Append(w, "/")) = Len(sp)
            /\ \A i \in 1..Len(sp) - 1 : Append(w, "/")[i] = sp[i]
            /\ Append(w, "/")[Len(sp)] = "/"
        BY <1>1, <1>3, <3>2, <3>3
      <3>6. \A i \in 1..Len(sp) : i \in 1..Len(sp) - 1 \/ i = Len(sp)
        BY <1>3
      <3>7. \A i \in 1..Len(sp) : Append(w, "/")[i] = sp[i]
        BY <2>3, <3>5, <3>6
      <3>8. Append(w, "/") = sp
        BY <1>3, <3>5, <3>7, SeqEqual
      <3> QED
        BY <1>2, <2>1, <3>1, <3>3, <3>4, <3>8
    <2> QED
      BY <2>2, <2>3
  <1> QED
    BY <1>5, <1>6, <1>7

LEMMA SamePath ==
  ASSUME NEW p \in Seq(Token), p = <<>> \/ p[1] = "/",
         NEW q \in Seq(Token), q = <<>> \/ q[1] = "/",
         normalizePath(p) = normalizePath(q)
  PROVE  SameUpToSlash(Root(p), Root(q))
  <1> DEFINE a == Root(p)
             b == Root(q)
             n == normalizePath(p)
  <1>1. /\ a \in Seq(Token) /\ b \in Seq(Token)
        /\ Spaced(a) \in {n, Append(n, "/")} /\ Spaced(b) \in {n, Append(n, "/")}
    BY PathOfKey
  <1> SUFFICES SameUpToSlash(a, b)
    OBVIOUS
  <1> HIDE DEF a, b, n
  <1>2. /\ Append(a, "/") \in Seq(Token) /\ Spaced(Append(a, "/")) = Append(Spaced(a), "/")
        /\ Append(b, "/") \in Seq(Token) /\ Spaced(Append(b, "/")) = Append(Spaced(b), "/")
    BY <1>1, SpacedAppend
  <1>3. CASE Spaced(a) = Spaced(b)
    BY <1>1, <1>3, SpelledAlike DEF SameUpToSlash
  <1>4. CASE Spaced(a) = n /\ Spaced(b) = Append(n, "/")
    BY <1>1, <1>2, <1>4, SpelledAlike DEF SameUpToSlash
  <1>5. CASE Spaced(b) = n /\ Spaced(a) = Append(n, "/")
    BY <1>1, <1>2, <1>5, SpelledAlike DEF SameUpToSlash
  <1> QED
    BY <1>1, <1>3, <1>4, <1>5
-----------------------------------------------------------------------------
(* Hosts and parameters.                                                   *)

LEMMA HostTextParts ==
  ASSUME NEW n \in Piece, NEW port \in Piece \cup {"none"}
  PROVE  /\ HostText(n, port) \in Seq(Piece \cup {":"})
         /\ n = "none" /\ port = "none" => Len(HostText(n, port)) = 0
         /\ n = "none" /\ port # "none" => Len(HostText(n, port)) = 2 /\ HostText(n, port)[1] = ":"
         /\ n # "none" /\ port = "none" => Len(HostText(n, port)) = 1 /\ HostText(n, port)[1] = n
         /\ n # "none" /\ port # "none" => /\ Len(HostText(n, port)) = 3
                                       /\ HostText(n, port)[1] = n /\ HostText(n, port)[3] = port
  <1> DEFINE S == Piece \cup {":"}
             x == IF n = "none" THEN <<>> ELSE <<n>>
             y == IF port = "none" THEN <<>> ELSE <<":", port>>
  <1>1. n \in S /\ (port # "none" => port \in S) /\ ":" \in S
    OBVIOUS
  <1>2. HostText(n, port) = x \o y
    BY DEF HostText
  <1> HIDE DEF S
  <1>3. /\ x \in Seq(S) /\ Len(x) = IF n = "none" THEN 0 ELSE 1
        /\ n # "none" => x[1] = n
    <2>1. CASE n = "none"
      BY <2>1, EmptySeq
    <2>2. CASE n # "none"
      <3>1. x = <<n>>
        BY <2>2
      <3>2. <<n>> \in Seq(S) /\ Len(<<n>>) = 1 /\ <<n>>[1] = n
        BY <1>1
      <3> HIDE DEF x
      <3> QED
        BY <2>2, <3>1, <3>2
    <2> QED
      BY <2>1, <2>2
  <1>4. /\ y \in Seq(S) /\ Len(y) = IF port = "none" THEN 0 ELSE 2
        /\ port # "none" => y[1] = ":" /\ y[2] = port
    <2>1. CASE port = "none"
      BY <2>1, EmptySeq
    <2>2. CASE port # "none"
      <3>1. y = <<":", port>>
        BY <2>2
      <3> HIDE DEF y
      <3> QED
        BY <1>1, <2>2, <3>1
    <2> QED
      BY <2>1, <2>2
  <1> HIDE DEF x, y
  <1>5. /\ x \o y \in Seq(S) /\ Len(x \o y) = Len(x) + Len(y)
        /\ \A i \in 1..Len(x) + Len(y) :
             (x \o y)[i] = IF i <= Len(x) THEN x[i] ELSE y[i - Len(x)]
    BY <1>3, <1>4, ConcatProperties
  <1>6. /\ n = "none" /\ port = "none" => Len(x \o y) = 0
        /\ n = "none" /\ port # "none" => Len(x \o y) = 2 /\ (x \o y)[1] = ":"
        /\ n # "none" /\ port = "none" => Len(x \o y) = 1 /\ (x \o y)[1] = n
        /\ n # "none" /\ port # "none" => Len(x \o y) = 3 /\ (x \o y)[1] = n /\ (x \o y)[3] = port
    <2> DEFINE t == x \o y
    <2>1. Len(t) = Len(x) + Len(y)
          /\ \A i \in 1..Len(x) + Len(y) : t[i] = IF i <= Len(x) THEN x[i] ELSE y[i - Len(x)]
      BY <1>5
    <2> HIDE DEF t
    <2>2. CASE n # "none" /\ port # "none"
      <3>1. Len(x) = 1 /\ Len(y) = 2
        BY <1>3, <1>4, <2>2
      <3>2. Len(t) = 3 /\ t[1] = x[1] /\ t[3] = y[2]
        BY <2>1, <3>1
      <3> QED
        BY <1>3, <1>4, <2>2, <3>2 DEF t
    <2>3. CASE n # "none" /\ port = "none"
      <3>1. Len(x) = 1 /\ Len(y) = 0
        BY <1>3, <1>4, <2>3
      <3>2. Len(t) = 1 /\ t[1] = x[1]
        BY <2>1, <3>1
      <3> QED
        BY <1>3, <2>3, <3>2 DEF t
    <2>4. CASE n = "none" /\ port # "none"
      <3>1. Len(x) = 0 /\ Len(y) = 2
        BY <1>3, <1>4, <2>4
      <3>2. Len(t) = 2 /\ t[1] = y[1]
        BY <2>1, <3>1
      <3> QED
        BY <1>4, <2>4, <3>2 DEF t
    <2>5. CASE n = "none" /\ port = "none"
      <3>1. Len(x) = 0 /\ Len(y) = 0
        BY <1>3, <1>4, <2>5
      <3>2. Len(t) = 0
        BY <2>1, <3>1
      <3> QED
        BY <2>5, <3>2 DEF t
    <2> QED
      BY <2>2, <2>3, <2>4, <2>5
  <1> QED
    BY <1>2, <1>5, <1>6 DEF S

\* A name and a port are read off the text of a host.
LEMMA SameHostText ==
  ASSUME NEW n \in Piece, NEW port \in Piece \cup {"none"},
         NEW m \in Piece, NEW other \in Piece \cup {"none"},
         n # "none", HostText(n, port) = HostText(m, other)
  PROVE  n = m /\ port = other
  <1>1. n # ":" /\ m # ":"
    BY DEF Piece
  <1>2. /\ port = "none" => Len(HostText(n, port)) = 1 /\ HostText(n, port)[1] = n
        /\ port # "none" => /\ Len(HostText(n, port)) = 3
                            /\ HostText(n, port)[1] = n /\ HostText(n, port)[3] = port
    BY HostTextParts, Zenon
  <1>3. /\ m = "none" /\ other = "none" => Len(HostText(m, other)) = 0
        /\ m = "none" /\ other # "none" => Len(HostText(m, other)) = 2 /\ HostText(m, other)[1] = ":"
        /\ m # "none" /\ other = "none" => Len(HostText(m, other)) = 1 /\ HostText(m, other)[1] = m
        /\ m # "none" /\ other # "none" => /\ Len(HostText(m, other)) = 3
                                       /\ HostText(m, other)[1] = m /\ HostText(m, other)[3] = other
    BY HostTextParts, Zenon
  <1> DEFINE t == HostText(n, port)
             l == Len(t)
  <1>4. /\ port = "none" => l = 1 /\ t[1] = n
        /\ port # "none" => l = 3 /\ t[1] = n /\ t[3] = port
    BY <1>2
  <1>5. /\ m = "none" /\ other = "none" => l = 0
        /\ m = "none" /\ other # "none" => l = 2
        /\ m # "none" /\ other = "none" => l = 1 /\ t[1] = m
        /\ m # "none" /\ other # "none" => l = 3 /\ t[1] = m /\ t[3] = other
    BY <1>3
  <1> HIDE DEF t, l
  <1>6. m # "none" /\ n = m
    BY <1>4, <1>5
  <1>7. port = "none" <=> other = "none"
    BY <1>4, <1>5, <1>6
  <1> QED
    BY <1>4, <1>5, <1>6, <1>7

LEMMA SameValues ==
  ASSUME NEW p, NEW q
  PROVE  Values(p) = Values(q)
           <=> \A n \in Spelled(STRING) : n.lower \notin authParams => Given(p, n) = Given(q, n)
  <1>1. ASSUME \A n \in Spelled(STRING) : n.lower \notin authParams => Given(p, n) = Given(q, n)
        PROVE  Values(p) = Values(q)
    BY <1>1 DEF Values
  <1>2. ASSUME Values(p) = Values(q),
               NEW n \in Spelled(STRING), n.lower \notin authParams
        PROVE  Given(p, n) = Given(q, n)
    <2>1. /\ DOMAIN Values(p) = {m \in Spelled(STRING) : m.lower \notin authParams /\ Given(p, m) # <<>>}
          /\ DOMAIN Values(q) = {m \in Spelled(STRING) : m.lower \notin authParams /\ Given(q, m) # <<>>}
          /\ \A m \in DOMAIN Values(p) : Values(p)[m] = Given(p, m)
          /\ \A m \in DOMAIN Values(q) : Values(q)[m] = Given(q, m)
      BY DEF Values
    <2> QED
      BY <1>2, <2>1
  <1> QED
    BY <1>1, <1>2
-----------------------------------------------------------------------------
(* Keys.                                                                   *)

LEMMA URLParts ==
  ASSUME NEW u \in URL
  PROVE  /\ u.scheme \in Piece /\ u.host.name.lower \in Piece /\ u.host.port \in Piece
         /\ u.path \in Seq(Token)
         /\ u.scheme # "none" => u.path = <<>> \/ u.path[1] = "/"
  <1>1. /\ u.scheme \in Piece /\ u.host \in Host /\ u.path \in Seq(Piece \cup {"/", ":"})
        /\ u.scheme # "none" => u.path = <<>> \/ u.path[1] = "/"
    BY DEF URL
  <1>2. u.host.name.lower \in Piece /\ u.host.port \in Piece
    BY <1>1 DEF Host, Spelled
  <1>3. u.path \in Seq(Token)
    <2>1. Piece \cup {"/", ":"} \subseteq Token
      BY DEF Token
    <2> QED
      BY <1>1, <2>1, SeqMonotonic
  <1> QED
    BY <1>1, <1>2, <1>3

\* The port in a host's text, unless it is the default one.
Kept(u) == IF Redundant(u.scheme, u.host.port) THEN "none" ELSE u.host.port

LEMMA SamePort ==
  ASSUME NEW u, NEW v, u.scheme = v.scheme, Kept(u) = Kept(v)
  PROVE  PortOf(u) = PortOf(v)
  BY DEF Kept, Redundant, PortOf, DefaultPort

\* utils.go:25: equivalent URLs result in the same key: neither the capitals of
\* the host, a default port, an empty path for the root, the way a space is
\* written, nor any credential in the query makes another key.
THEOREM SameRequestSameKey ==
  ASSUME NEW u \in URL, NEW v \in URL,
         SameServer(u, v), SameSpelling(Asked(u), Asked(v)), SameParameters(u, v)
  PROVE  GenerateCacheKey(u) = GenerateCacheKey(v)
  <1>1. u.scheme = v.scheme /\ u.host.name.lower = v.host.name.lower /\ PortOf(u) = PortOf(v)
    BY DEF SameServer
  <1>2. Kept(u) = Kept(v)
    BY <1>1 DEF Kept, Redundant, PortOf, DefaultPort
  <1>3. normalizeHost(u.scheme, u.host) = normalizeHost(v.scheme, v.host)
    BY <1>1, <1>2 DEF normalizeHost, Kept
  <1>4. Values(u.query) = Values(v.query)
    BY SameValues DEF SameParameters
  <1>5. \A p \in Seq(Token) : normalizePath(p) = normalizePath(Root(p))
    <2>1. Spaced(<<>>) = <<>> /\ Spaced(<<"/">>) = <<"/">>
      BY DEF Spaced
    <2> QED
      BY <2>1 DEF normalizePath, Root
  <1>6. u.path \in Seq(Token) /\ v.path \in Seq(Token)
    BY URLParts
  <1>7. Asked(u) = Root(u.path) /\ Asked(v) = Root(v.path)
    BY DEF Asked, Root
  <1>8. Spaced(Asked(u)) = Spaced(Asked(v))
    BY DEF SameSpelling, Spaced
  <1>9. normalizePath(u.path) = normalizePath(v.path)
    <2>1. normalizePath(Root(u.path)) = normalizePath(Root(v.path))
      BY <1>7, <1>8 DEF normalizePath
    <2> QED
      BY <1>5, <1>6, <2>1
  <1> QED
    BY <1>1, <1>3, <1>4, <1>9 DEF GenerateCacheKey

\* utils.go:57: the text that is hashed tells the scheme, the host with its port,
\* the path and every parameter that is not a credential: no URL whatever has the
\* key of a URL that can be fetched and asks for something else, except that one
\* slash at the end of a path is not seen, a "+" in it is taken for a space, and
\* a pair of the query that is not well formed does not count as a parameter.
THEOREM WhatAKeyTells ==
  ASSUME NEW u \in URL, NEW v \in URL, Fetchable(u),
         GenerateCacheKey(u) = GenerateCacheKey(v)
  PROVE  /\ SameServer(u, v)
         /\ SameUpToSlash(Asked(u), Asked(v))
         /\ SameParameters(u, v)
  <1> DEFINE T  == Token \cup {"?", Values(u.query), Values(v.query)}
             A(w) == IF w.scheme = "none" THEN <<>> ELSE <<w.scheme>>
             B  == <<":", "/", "/">>
             C(w) == normalizeHost(w.scheme, w.host)
             D(w) == normalizePath(w.path)
             E(w) == <<"?", Values(w.query)>>
  <1>1. /\ u.scheme \in Piece /\ u.path \in Seq(Token)
        /\ v.scheme \in Piece /\ v.path \in Seq(Token)
    BY URLParts
  <1>2. /\ B \in Seq(Token) /\ B # <<>> /\ B[1] = ":"
        /\ ":" \notin Piece /\ "/" \notin Piece \cup {":"} /\ "?" \notin Token
    BY DEF Token, Piece
  <1>3. \A w \in {u, v} : A(w) \in Seq(Piece)
    BY <1>1
  <1>4. \A w \in {u, v} : /\ C(w) = HostText(w.host.name.lower, Kept(w))
                          /\ w.host.name.lower \in Piece
                          /\ Kept(w) \in Piece \cup {"none"}
    BY URLParts DEF normalizeHost, Kept
  <1>5. \A w \in {u, v} : C(w) \in Seq(Piece \cup {":"})
    <2> SUFFICES ASSUME NEW w \in {u, v} PROVE C(w) \in Seq(Piece \cup {":"})
      BY Zenon
    <2>1. HostText(w.host.name.lower, Kept(w)) \in Seq(Piece \cup {":"})
      BY <1>4, HostTextParts
    <2> QED
      BY <1>4, <2>1, Zenon
  <1>6. \A w \in {u, v} : D(w) \in Seq(Token)
    BY <1>1, PathSeq
  <1>7. \A w \in {u, v} : GenerateCacheKey(w) = (((A(w) \o B) \o C(w)) \o D(w)) \o E(w)
    BY DEF GenerateCacheKey
  <1>8. \A w \in {u, v} : E(w) \in Seq(T) /\ E(w) # <<>> /\ E(w)[1] = "?" /\ E(w)[2] = Values(w.query)
    OBVIOUS
  <1> DEFINE F(w) == B \o (C(w) \o D(w))
  <1> HIDE DEF T, A, B, C, D, E
  <1>9. \A w \in {u, v} : /\ A(w) \in Seq(Token) /\ C(w) \in Seq(Token)
                          /\ C(w) \o D(w) \in Seq(Token) /\ F(w) \in Seq(Token)
                          /\ A(w) \o F(w) \in Seq(Token) /\ F(w) # <<>> /\ F(w)[1] = ":"
    <2> SUFFICES ASSUME NEW w \in {u, v}
                 PROVE  /\ A(w) \in Seq(Token) /\ C(w) \in Seq(Token)
                        /\ C(w) \o D(w) \in Seq(Token) /\ F(w) \in Seq(Token)
                        /\ A(w) \o F(w) \in Seq(Token) /\ F(w) # <<>> /\ F(w)[1] = ":"
      BY Zenon
    <2>1. Piece \subseteq Token /\ Piece \cup {":"} \subseteq Token
      BY DEF Token
    <2>2. A(w) \in Seq(Token) /\ C(w) \in Seq(Token)
      BY <1>3, <1>5, <2>1, SeqMonotonic
    <2> DEFINE cd == C(w) \o D(w)
    <2>3. cd \in Seq(Token)
      BY <1>6, <2>2, ConcatProperties
    <2> HIDE DEF cd
    <2>4. /\ B \o cd \in Seq(Token) /\ Len(B \o cd) = Len(B) + Len(cd)
          /\ \A i \in 1..Len(B) + Len(cd) :
               (B \o cd)[i] = IF i <= Len(B) THEN B[i] ELSE cd[i - Len(B)]
      BY <1>2, <2>3, ConcatProperties
    <2>5. Len(B) \in Nat /\ Len(B) > 0 /\ Len(cd) \in Nat
      BY <1>2, <2>3
    <2>6. B \o cd # <<>> /\ (B \o cd)[1] = ":"
      BY <1>2, <2>4, <2>5
    <2>7. F(w) = B \o cd
      BY DEF cd
    <2> HIDE DEF F
    <2>8. A(w) \o F(w) \in Seq(Token)
      BY <2>2, <2>4, <2>7, ConcatProperties
    <2> QED
      BY <2>2, <2>3, <2>4, <2>6, <2>7, <2>8 DEF cd
  <1>10. \A w \in {u, v} : ((A(w) \o B) \o C(w)) \o D(w) = A(w) \o F(w)
    <2> SUFFICES ASSUME NEW w \in {u, v} PROVE ((A(w) \o B) \o C(w)) \o D(w) = A(w) \o F(w)
      BY Zenon
    <2>1. A(w) \in Seq(Token) /\ B \in Seq(Token) /\ C(w) \in Seq(Token) /\ D(w) \in Seq(Token)
      BY <1>2, <1>6, <1>9
    <2>2. (A(w) \o B) \o C(w) = A(w) \o (B \o C(w)) /\ B \o C(w) \in Seq(Token)
      BY <2>1, ConcatAssociative, ConcatProperties
    <2>3. (A(w) \o (B \o C(w))) \o D(w) = A(w) \o ((B \o C(w)) \o D(w))
      BY <2>1, <2>2, ConcatAssociative
    <2>4. (B \o C(w)) \o D(w) = B \o (C(w) \o D(w))
      BY <2>1, ConcatAssociative
    <2> QED
      BY <2>2, <2>3, <2>4
  <1> HIDE DEF F
  \* cut at the "?"
  <1>11. A(u) \o F(u) = A(v) \o F(v) /\ E(u) = E(v)
    <2>1. (A(u) \o F(u)) \o E(u) = (A(v) \o F(v)) \o E(v)
      BY <1>7, <1>10
    <2>2. /\ A(u) \o F(u) \in Seq(Token) /\ A(v) \o F(v) \in Seq(Token)
          /\ E(u) \in Seq(T) /\ E(u) # <<>> /\ E(u)[1] = "?"
          /\ E(v) \in Seq(T) /\ E(v) # <<>> /\ E(v)[1] = "?"
      BY <1>8, <1>9, Zenon
    <2>3. CutsAt(Token, T, "?")
      BY <1>2, CutAt, Zenon
    <2> QED
      BY <2>1, <2>2, <2>3, Zenon DEF CutsAt
  <1>12. SameParameters(u, v)
    BY <1>8, <1>11, SameValues DEF SameParameters
  \* cut at the first ":"
  <1>13. A(u) = A(v) /\ F(u) = F(v)
    <2>1. /\ A(u) \in Seq(Piece) /\ A(v) \in Seq(Piece)
          /\ F(u) \in Seq(Token) /\ F(u) # <<>> /\ F(u)[1] = ":"
          /\ F(v) \in Seq(Token) /\ F(v) # <<>> /\ F(v)[1] = ":"
      BY <1>3, <1>9, Zenon
    <2>2. CutsAt(Piece, Token, ":")
      BY <1>2, CutAt, Zenon
    <2> QED
      BY <1>11, <2>1, <2>2, Zenon DEF CutsAt
  <1>14. u.scheme = v.scheme /\ v.scheme # "none"
    <2>1. u.scheme # "none" /\ A(u) = <<u.scheme>>
      BY DEF Fetchable, A
    <2>2. A(v) # <<>> /\ A(v)[1] = u.scheme
      BY <1>13, <2>1
    <2> QED
      BY <2>1, <2>2 DEF A
  <1>15. C(u) \o D(u) = C(v) \o D(v)
    <2>1. B \o (C(u) \o D(u)) = B \o (C(v) \o D(v))
      BY <1>13 DEF F
    <2>2. C(u) \o D(u) \in Seq(Token) /\ C(v) \o D(v) \in Seq(Token)
      BY <1>9, Zenon
    <2>3. \A S : \A s, t, w \in Seq(S) : s \o t = s \o w => t = w
      BY ConcatSimplifications, Zenon
    <2> QED
      BY <1>2, <2>1, <2>2, <2>3, Zenon
  \* cut at the first "/" of the path
  <1>16. C(u) = C(v) /\ D(u) = D(v)
    <2>1. \A w \in {u, v} : w.path = <<>> \/ w.path[1] = "/"
      BY <1>14, URLParts
    <2>2. \A w \in {u, v} : D(w) # <<>> /\ D(w)[1] = "/"
      BY <1>1, <2>1, PathOfKey DEF D
    <2>3. /\ C(u) \in Seq(Piece \cup {":"}) /\ C(v) \in Seq(Piece \cup {":"})
          /\ D(u) \in Seq(Token) /\ D(u) # <<>> /\ D(u)[1] = "/"
          /\ D(v) \in Seq(Token) /\ D(v) # <<>> /\ D(v)[1] = "/"
      BY <1>5, <1>6, <2>2, Zenon
    <2>4. CutsAt(Piece \cup {":"}, Token, "/")
      BY <1>2, CutAt, Zenon
    <2> QED
      BY <1>15, <2>3, <2>4, Zenon DEF CutsAt
  <1>17. SameServer(u, v)
    <2>1. HostText(u.host.name.lower, Kept(u)) = HostText(v.host.name.lower, Kept(v))
      BY <1>4, <1>16
    <2>2. u.host.name.lower # "none"
      BY DEF Fetchable
    <2>3. u.host.name.lower = v.host.name.lower /\ Kept(u) = Kept(v)
      BY <1>4, <2>1, <2>2, SameHostText
    <2> QED
      BY <1>14, <2>3, SamePort DEF SameServer
  <1>18. SameUpToSlash(Asked(u), Asked(v))
    <2>1. normalizePath(u.path) = normalizePath(v.path)
      BY <1>16 DEF D
    <2>2. SameUpToSlash(Root(u.path), Root(v.path))
      BY <1>1, <1>14, <2>1, URLParts, SamePath
    <2> QED
      BY <2>2 DEF Asked, Root
  <1> QED
    BY <1>12, <1>17, <1>18

\* A TTL that was set for a host is found for every URL of that host, with or
\* without capitals, unless it was set with the scheme's own port.
THEOREM TTLFound ==
  ASSUME NEW u \in URL, NEW host \in Host, NEW ttls, NEW ttl, NEW default,
         u.host.name.lower = host.name.lower, u.host.port = host.port
  PROVE  Redundant(u.scheme, host.port)
            \/ getTTLForURL(SetDomainTTL(ttls, host, ttl), default, u) = ttl
  <1> SUFFICES ASSUME ~Redundant(u.scheme, host.port)
               PROVE  getTTLForURL(SetDomainTTL(ttls, host, ttl), default, u) = ttl
    OBVIOUS
  <1>1. normalizeHost(u.scheme, u.host) = HostText(host.name.lower, host.port)
    BY DEF normalizeHost
  <1> QED
    BY <1>1 DEF getTTLForURL, SetDomainTTL
=============================================================================
