-------------------------- MODULE HostNames_proofs --------------------------
(***************************************************************************)
(* What NormalizeHost does to a string, for any alphabet: it returns the   *)
(* name of a route for the spellings of that route's domain, and for no    *)
(* other string.  And what sort.Strings' order does to a set of strings.   *)
(***************************************************************************)
EXTENDS RouteTable, WellFoundedInduction, FiniteSetTheorems, TLAPS

\* The characters of a part of a string.
LEMMA PartIs ==
    ASSUME NEW s \in Seq(Chars), NEW i \in Nat, NEW j \in Nat, 1 <= i, i <= j + 1, j <= Len(s)
    PROVE  /\ SubSeq(s, i, j) \in Seq(Chars) /\ Len(SubSeq(s, i, j)) = j - i + 1
           /\ \A k \in 1 .. j - i + 1 : SubSeq(s, i, j)[k] = s[i + k - 1]
OBVIOUS

-----------------------------------------------------------------------------
(* Letter case *)

\* Lower-casing keeps a string a string, and its length.
LEMMA LowerIsString ==
    ASSUME NEW s \in Seq(Chars)
    PROVE  /\ Lower(s) \in Seq(Chars) /\ Len(Lower(s)) = Len(s)
           /\ DOMAIN s = 1..Len(s) /\ DOMAIN Lower(s) = 1..Len(s)
           /\ \A i \in 1..Len(s) : s[i] \in Chars /\ Lower(s)[i] = LowerOf[s[i]]
<1>1. /\ DOMAIN s = 1..Len(s) /\ Len(s) \in Nat
      /\ \A i \in 1..Len(s) : s[i] \in Chars
  OBVIOUS
<1>2. Lower(s) \in [1..Len(s) -> Chars]
  BY <1>1, AlphabetIsSound DEF Lower
<1>3. Lower(s) \in Seq(Chars) /\ Len(Lower(s)) = Len(s)
  BY <1>1, <1>2
<1> QED BY <1>1, <1>2, <1>3 DEF Lower

\* Lower-casing twice is lower-casing once.
LEMMA LowerIdempotent ==
    ASSUME NEW s \in Seq(Chars)
    PROVE  Lower(Lower(s)) = Lower(s)
<1>1. Lower(s) \in Seq(Chars) /\ DOMAIN Lower(s) = 1..Len(s)
  BY LowerIsString
<1>2. \A i \in 1..Len(s) : LowerOf[Lower(s)[i]] = Lower(s)[i]
  BY LowerIsString, AlphabetIsSound
<1>3. Lower(s) = [i \in 1..Len(s) |-> Lower(s)[i]]
  BY <1>1, LowerIsString DEF Lower
<1>4. Lower(Lower(s)) = [i \in 1..Len(s) |-> LowerOf[Lower(s)[i]]]
  BY <1>1 DEF Lower
<1> QED BY <1>2, <1>3, <1>4

\* It neither takes nor gives a dot, a colon, a bracket or a hyphen.
LEMMA LowerKeepsSpecial ==
    ASSUME NEW s \in Seq(Chars), NEW i \in 1..Len(s), NEW c \in Special
    PROVE  Lower(s)[i] = c <=> s[i] = c
BY LowerIsString, AlphabetIsSound

\* It commutes with taking a part.
LEMMA LowerOfPart ==
    ASSUME NEW s \in Seq(Chars), NEW i \in Int, NEW j \in Int, 1 <= i, j <= Len(s)
    PROVE  SubSeq(Lower(s), i, j) = Lower(SubSeq(s, i, j))
<1> DEFINE l == Lower(s)
           p == SubSeq(s, i, j)
           n == IF i <= j THEN j - i + 1 ELSE 0
<1>1. l \in Seq(Chars) /\ Len(l) = Len(s) /\ Len(s) \in Nat
  BY LowerIsString
<1>2. \A k \in 1..Len(s) : l[k] = LowerOf[s[k]]
  BY LowerIsString
<1> HIDE DEF l
<1>3. p \in Seq(Chars) /\ Len(p) = n /\ \A k \in 1..n : p[k] = s[i + k - 1]
  BY <1>1
<1>4. SubSeq(l, i, j) \in Seq(Chars) /\ Len(SubSeq(l, i, j)) = n
      /\ \A k \in 1..n : SubSeq(l, i, j)[k] = l[i + k - 1]
  BY <1>1
<1> HIDE DEF p
<1>5. /\ Lower(p) \in Seq(Chars) /\ Len(Lower(p)) = n
      /\ \A k \in 1..n : Lower(p)[k] = LowerOf[p[k]]
  BY <1>3, LowerIsString
<1>6. ASSUME NEW k \in 1..n PROVE SubSeq(l, i, j)[k] = Lower(p)[k]
  <2>1. i + k - 1 \in 1..Len(s)
    BY <1>1
  <2> HIDE DEF n
  <2> QED BY <2>1, <1>2, <1>3, <1>4, <1>5
<1>7. SubSeq(l, i, j) = Lower(p)
  BY <1>4, <1>5, <1>6
<1> QED BY <1>7 DEF l, p

-----------------------------------------------------------------------------
(* The two indexes that net.SplitHostPort looks for *)

\* A set of natural numbers that is not empty has a least element.
LEMMA LeastExists ==
    ASSUME NEW T, T \subseteq Nat, T # {}
    PROVE  \E x \in T : \A y \in T : x <= y
<1>1. PICK x \in T : \A y \in T : ~(<<y, x>> \in OpToRel(<, Nat))
  BY NatLessThanWellFounded, WFMin, Zenon
<1>2. \A y \in T : ~(y < x)
  BY <1>1 DEF OpToRel
<1> QED BY <1>2

\* The last colon of a string that has one.
LEMMA LastColonIsLast ==
    ASSUME NEW s \in Seq(Chars), Has(s, ":")
    PROVE  /\ LastColon(s) \in 1..Len(s) /\ s[LastColon(s)] = ":"
           /\ \A j \in 1..Len(s) : s[j] = ":" => j <= LastColon(s)
<1> DEFINE T == {Len(s) - i : i \in {j \in 1..Len(s) : s[j] = ":"}}
<1>1. DOMAIN s = 1..Len(s) /\ Len(s) \in Nat
  OBVIOUS
<1>2. T \subseteq Nat /\ T # {}
  BY <1>1 DEF Has
<1>3. PICK x \in T : \A y \in T : x <= y
  BY <1>2, LeastExists
<1>4. PICK i \in 1..Len(s) : s[i] = ":" /\ x = Len(s) - i
  OBVIOUS
<1>5. ASSUME NEW j \in 1..Len(s), s[j] = ":" PROVE j <= i
  <2>1. Len(s) - j \in T
    BY <1>5
  <2> HIDE DEF T
  <2>2. Len(s) - i <= Len(s) - j
    BY <2>1, <1>3, <1>4
  <2> QED BY <2>2, <1>1
<1>6. \E k \in DOMAIN s : s[k] = ":" /\ \A j \in DOMAIN s : s[j] = ":" => j <= k
  BY <1>1, <1>4, <1>5
<1> QED BY <1>1, <1>6 DEF LastColon

\* The first closing bracket of a string that has one.
LEMMA FirstCloseIsFirst ==
    ASSUME NEW s \in Seq(Chars), Has(s, "]")
    PROVE  /\ FirstClose(s) \in 1..Len(s) /\ s[FirstClose(s)] = "]"
           /\ \A j \in 1..Len(s) : s[j] = "]" => FirstClose(s) <= j
<1>1. DOMAIN s = 1..Len(s) /\ Len(s) \in Nat
  OBVIOUS
<1> DEFINE T == {i \in 1..Len(s) : s[i] = "]"}
<1>2. T \subseteq Nat /\ T # {}
  BY <1>1 DEF Has
<1> HIDE DEF T
<1>3. PICK i \in T : \A j \in T : i <= j
  BY <1>2, LeastExists
<1> USE DEF T
<1>4. \E k \in DOMAIN s : s[k] = "]" /\ \A j \in DOMAIN s : s[j] = "]" => k <= j
  BY <1>1, <1>3
<1> QED BY <1>1, <1>4 DEF FirstClose

-----------------------------------------------------------------------------
(* The steps of NormalizeHost, one by one *)

\* A string with something in it, but no colon and no bracket.
Plain(b) == b \in Seq(Chars) /\ Len(b) > 0 /\ \A i \in 1..Len(b) : b[i] \notin {":", "[", "]"}

\* The string t is b with a port behind it: its last colon ends b, or b in
\* brackets, and there is no other colon or bracket.
Ported(t, b) ==
    \E i \in DOMAIN t : /\ t[i] = ":" /\ SubSeq(t, 1, i - 1) \in {b, Bracketed(b)}
                        /\ \A j \in i + 1 .. Len(t) : t[j] \notin {":", "[", "]"}

\* The characters of a string in brackets.
LEMMA BracketedIs ==
    ASSUME NEW b \in Seq(Chars)
    PROVE  /\ Bracketed(b) \in Seq(Chars) /\ Len(Bracketed(b)) = Len(b) + 2
           /\ Bracketed(b)[1] = "[" /\ Bracketed(b)[Len(b) + 2] = "]"
           /\ \A i \in 1..Len(b) : Bracketed(b)[i + 1] = b[i]
BY AlphabetIsSound DEF Bracketed, Special

\* Different strings differ in brackets.
LEMMA BracketedInjective ==
    ASSUME NEW a \in Seq(Chars), NEW b \in Seq(Chars), Bracketed(a) = Bracketed(b)
    PROVE  a = b
<1>1. /\ Len(Bracketed(a)) = Len(a) + 2
      /\ \A i \in 1..Len(a) : Bracketed(a)[i + 1] = a[i]
  BY BracketedIs
<1>2. /\ Len(Bracketed(b)) = Len(b) + 2
      /\ \A i \in 1..Len(b) : Bracketed(b)[i + 1] = b[i]
  BY BracketedIs
<1>3. Len(a) = Len(b)
  BY <1>1, <1>2
<1>4. \A i \in 1..Len(a) : a[i] = b[i]
  BY <1>1, <1>2, <1>3
<1> QED BY <1>3, <1>4

\* What begins and ends like a string in brackets is one.
LEMMA IsBracketed ==
    ASSUME NEW t \in Seq(Chars), Len(t) > 1, t[1] = "[", t[Len(t)] = "]"
    PROVE  t = Bracketed(SubSeq(t, 2, Len(t) - 1))
<1> DEFINE b == SubSeq(t, 2, Len(t) - 1)
<1>1. Len(t) \in Nat
  OBVIOUS
<1>2. b \in Seq(Chars) /\ Len(b) = Len(t) - 2 /\ \A i \in 1 .. Len(t) - 2 : b[i] = t[i + 1]
  <2>1. b \in Seq(Chars) /\ Len(b) = Len(t) - 2
        /\ \A i \in 1 .. Len(t) - 2 : b[i] = t[2 + i - 1]
    <3>1. (Len(t) - 1) - 2 + 1 = Len(t) - 2
      BY <1>1
    <3> QED BY <1>1, <3>1, PartIs
  <2> HIDE DEF b
  <2>2. \A i \in 1 .. Len(t) - 2 : 2 + i - 1 = i + 1
    BY <1>1
  <2> QED BY <2>1, <2>2
<1> HIDE DEF b
<1>3. /\ Bracketed(b) \in Seq(Chars) /\ Len(Bracketed(b)) = Len(t)
      /\ Bracketed(b)[1] = "[" /\ Bracketed(b)[Len(t)] = "]"
      /\ \A i \in 1 .. Len(t) - 2 : Bracketed(b)[i + 1] = t[i + 1]
  <2>1. /\ Bracketed(b) \in Seq(Chars) /\ Len(Bracketed(b)) = Len(b) + 2
        /\ Bracketed(b)[1] = "[" /\ Bracketed(b)[Len(b) + 2] = "]"
        /\ \A i \in 1..Len(b) : Bracketed(b)[i + 1] = b[i]
    BY <1>2, BracketedIs
  <2>2. Len(b) + 2 = Len(t)
    BY <1>1, <1>2
  <2> QED BY <1>2, <2>1, <2>2
<1>4. ASSUME NEW i \in 1..Len(t) PROVE Bracketed(b)[i] = t[i]
  <2>1. i = 1 \/ i = Len(t) \/ (i - 1 \in 1 .. Len(t) - 2 /\ i = (i - 1) + 1)
    BY <1>1, <1>2
  <2> QED BY <2>1, <1>3
<1>5. t = Bracketed(b)
  BY <1>3, <1>4
<1> QED BY <1>5 DEF b

\* The port is stripped from exactly the strings that are b, plain, with a port,
\* or without.
LEMMA StripPortIs ==
    ASSUME NEW t \in Seq(Chars), NEW b, Plain(b)
    PROVE  StripPort(t) = b <=> t = b \/ Ported(t, b)
<1> DEFINE last == LastColon(t)
<1>1. /\ DOMAIN t = 1..Len(t) /\ Len(t) \in Nat /\ b \in Seq(Chars) /\ Len(b) \in Nat
      /\ Len(b) > 0 /\ DOMAIN b = 1..Len(b) /\ \A i \in 1..Len(b) : b[i] \notin {":", "[", "]"}
      /\ b # <<>>
  BY DEF Plain
<1>2. CASE ~Has(t, ":")
  <2>1. StripPort(t) = t
    BY <1>2 DEF StripPort, SplitHostPort
  <2>2. ~Ported(t, b)
    BY <1>2 DEF Has, Ported
  <2> QED BY <2>1, <2>2
<1>3. CASE Has(t, ":")
  <2>1. t # b
    BY <1>1, <1>3 DEF Has
  <2>2. /\ last \in 1..Len(t) /\ t[last] = ":"
        /\ \A j \in 1..Len(t) : t[j] = ":" => j <= last
    BY <1>3, LastColonIsLast
  <2> HIDE DEF last
  <2>3. ASSUME NEW i \in DOMAIN t, t[i] = ":",
               \A j \in i + 1 .. Len(t) : t[j] \notin {":", "[", "]"}
        PROVE  i = last
    BY <1>1, <2>2, <2>3
  <2>4. Ported(t, b) <=> /\ SubSeq(t, 1, last - 1) \in {b, Bracketed(b)}
                         /\ \A j \in last + 1 .. Len(t) : t[j] \notin {":", "[", "]"}
    BY <1>1, <2>2, <2>3 DEF Ported
  <2>5. /\ SubSeq(t, 1, last - 1) \in Seq(Chars) /\ Len(SubSeq(t, 1, last - 1)) = last - 1
        /\ \A i \in 1 .. last - 1 : SubSeq(t, 1, last - 1)[i] = t[i]
    BY <1>1, <2>2
  <2>6. CASE t[1] # "["
    <3>1. SubSeq(t, 1, last - 1) # Bracketed(b)
      <4>1. Len(Bracketed(b)) = Len(b) + 2 /\ Bracketed(b)[1] = "["
        BY <1>1, BracketedIs
      <4> QED BY <1>1, <2>2, <2>5, <2>6, <4>1
    <3>2. CASE Has(SubSeq(t, 1, last - 1), ":")
      <4>1. StripPort(t) = t
        BY <1>3, <2>6, <3>2 DEF StripPort, SplitHostPort, last
      <4>2. SubSeq(t, 1, last - 1) # b
        BY <1>1, <3>2 DEF Has
      <4> QED BY <2>1, <2>4, <3>1, <4>1, <4>2
    <3>3. CASE ~Has(SubSeq(t, 1, last - 1), ":")
      <4>1. StripPort(t) = IF Brackets(t) = {} THEN SubSeq(t, 1, last - 1) ELSE <<>>
        BY <1>3, <2>6, <3>3 DEF StripPort, SplitHostPort, last
      <4>2. ASSUME SubSeq(t, 1, last - 1) = b
            PROVE  /\ Brackets(t) = {} <=>
                        \A j \in last + 1 .. Len(t) : t[j] \notin {"[", "]"}
                   /\ \A j \in last + 1 .. Len(t) : t[j] # ":"
        BY <1>1, <2>2, <2>5, <4>2 DEF Brackets
      <4> QED BY <1>1, <2>1, <2>4, <3>1, <4>1, <4>2
    <3> QED BY <3>2, <3>3
  <2>7. CASE t[1] = "["
    <3> DEFINE close == FirstClose(t)
    <3>1. SubSeq(t, 1, last - 1) # b
      BY <1>1, <2>2, <2>5, <2>7
    <3>2. CASE ~Has(t, "]")
      <4>1. StripPort(t) = <<>>
        BY <1>3, <2>7, <3>2 DEF StripPort, SplitHostPort
      <4>2. SubSeq(t, 1, last - 1) # Bracketed(b)
        <5>1. Bracketed(b)[Len(b) + 2] = "]" /\ Len(Bracketed(b)) = Len(b) + 2
          BY <1>1, BracketedIs
        <5> QED BY <1>1, <2>2, <2>5, <3>2, <5>1 DEF Has
      <4> QED BY <1>1, <2>1, <2>4, <3>1, <4>1, <4>2
    <3>3. CASE Has(t, "]")
      <4>1. /\ close \in 1..Len(t) /\ t[close] = "]"
            /\ \A j \in 1..Len(t) : t[j] = "]" => close <= j
        BY <3>3, FirstCloseIsFirst
      <4> HIDE DEF close
      <4>2. ASSUME SubSeq(t, 1, last - 1) = Bracketed(b)
            PROVE  /\ close = last - 1 /\ SubSeq(t, 2, last - 2) = b
                   /\ \A j \in 1..last : t[j] \in {"[", "]"} <=> j \in {1, last - 1}
        <5>1. /\ last - 1 = Len(b) + 2 /\ t[last - 1] = "]"
              /\ \A j \in 1..Len(b) : t[j + 1] = b[j]
          <6>1. /\ Len(Bracketed(b)) = Len(b) + 2 /\ Bracketed(b)[Len(b) + 2] = "]"
                /\ \A j \in 1..Len(b) : Bracketed(b)[j + 1] = b[j]
            BY <1>1, BracketedIs
          <6> QED BY <1>1, <2>2, <2>5, <4>2, <6>1
        <5>2. ASSUME NEW j \in 2 .. last - 2 PROVE t[j] \notin {"[", "]"}
          <6>1. j - 1 \in 1..Len(b) /\ (j - 1) + 1 = j
            BY <1>1, <2>2, <5>1
          <6> QED BY <1>1, <5>1, <6>1
        <5>3. \A j \in 1..last : t[j] \in {"[", "]"} <=> j \in {1, last - 1}
          <6>1. \A j \in 1..last : j = 1 \/ j = last - 1 \/ j = last \/ j \in 2 .. last - 2
            BY <2>2
          <6> QED BY <2>2, <2>7, <5>1, <5>2, <6>1
        <5>4. close = last - 1
          BY <1>1, <2>2, <2>7, <4>1, <5>1, <5>3
        <5>5. SubSeq(t, 2, last - 2) = b
          <6> DEFINE m == SubSeq(t, 2, last - 2)
          <6>1. /\ m \in Seq(Chars) /\ Len(m) = (last - 2) - 2 + 1
                /\ \A k \in 1 .. (last - 2) - 2 + 1 : m[k] = t[2 + k - 1]
            BY <1>1, <2>2, <5>1, PartIs
          <6> HIDE DEF m
          <6>2. Len(m) = Len(b) /\ \A k \in 1..Len(b) : 2 + k - 1 = k + 1
            BY <1>1, <2>2, <5>1, <6>1
          <6>3. \A k \in 1..Len(b) : m[k] = b[k]
            BY <1>1, <2>2, <5>1, <6>1, <6>2
          <6>4. m = b
            BY <1>1, <6>1, <6>2, <6>3
          <6> QED BY <6>4 DEF m
        <5> QED BY <5>3, <5>4, <5>5
      <4>3. CASE close # last - 1
        <5>1. StripPort(t) = t
          BY <1>3, <2>7, <3>3, <4>3 DEF StripPort, SplitHostPort, last, close
        <5> QED BY <2>1, <2>4, <3>1, <4>2, <4>3, <5>1
      <4>4. CASE close = last - 1
        <5>1. StripPort(t) = IF Brackets(t) = {1, last - 1} THEN SubSeq(t, 2, last - 2) ELSE <<>>
          BY <1>3, <2>7, <3>3, <4>4 DEF StripPort, SplitHostPort, last, close
        <5>2. ASSUME SubSeq(t, 1, last - 1) = Bracketed(b)
              PROVE  Brackets(t) = {1, last - 1} <=>
                        \A j \in last + 1 .. Len(t) : t[j] \notin {"[", "]"}
          <6>1. \A j \in 1..last : t[j] \in {"[", "]"} <=> j \in {1, last - 1}
            BY <4>2, <5>2
          <6>2. Brackets(t) = {j \in 1..Len(t) : t[j] \in {"[", "]"}}
            BY <1>1 DEF Brackets
          <6>3. 1 \in 1..last /\ last - 1 \in 1..last
            BY <2>2, <4>1, <4>4
          <6>4. \A j \in 1..Len(t) : j \in 1..last \/ j \in last + 1 .. Len(t)
            BY <1>1, <2>2
          <6>5. \A j \in last + 1 .. Len(t) : j \in 1..Len(t) /\ j # 1 /\ j # last - 1
            BY <1>1, <2>2
          <6>6. 1..last \subseteq 1..Len(t)
            BY <1>1, <2>2
          <6> QED BY <6>1, <6>2, <6>3, <6>4, <6>5, <6>6
        <5>3. \A j \in last + 1 .. Len(t) : t[j] # ":"
          BY <1>1, <2>2
        <5>4. ASSUME SubSeq(t, 2, last - 2) = b
              PROVE  SubSeq(t, 1, last - 1) = Bracketed(b)
          <6> DEFINE p == SubSeq(t, 1, last - 1)
          <6>1. last > 3
            BY <1>1, <2>2, <5>4
          <6>2. /\ p \in Seq(Chars) /\ Len(p) = last - 1
                /\ \A k \in 1 .. last - 1 : p[k] = t[k]
            BY <2>5
          <6> HIDE DEF p
          <6>3. p = Bracketed(SubSeq(p, 2, last - 2))
            <7>1. Len(p) > 1 /\ p[1] = "[" /\ p[Len(p)] = "]"
              BY <2>2, <2>7, <4>1, <4>4, <6>1, <6>2
            <7>2. Len(p) - 1 = last - 2
              BY <2>2, <6>2
            <7> QED BY <6>2, <7>1, <7>2, IsBracketed
          <6>4. SubSeq(p, 2, last - 2) = SubSeq(t, 2, last - 2)
            BY <1>1, <2>2, <6>1, <6>2
          <6> QED BY <5>4, <6>3, <6>4 DEF p
        <5> QED BY <1>1, <2>1, <2>4, <3>1, <4>2, <5>1, <5>2, <5>3, <5>4
      <4> QED BY <4>3, <4>4
    <3> QED BY <3>2, <3>3
  <2> QED BY <2>6, <2>7
<1> QED BY <1>2, <1>3

\* A final dot is stripped: a name that has none comes from itself, and from
\* itself with a dot.
LEMMA StripDotIs ==
    ASSUME NEW t \in Seq(Chars), NEW n \in Seq(Chars), Len(n) > 0, n[Len(n)] # "."
    PROVE  StripDot(t) = n <=> t \in Bare(n)
<1> DEFINE q == Append(n, ".")
           m == SubSeq(t, 1, Len(t) - 1)
<1>1. Len(n) \in Nat /\ Len(t) \in Nat /\ "." \in Chars
  BY AlphabetIsSound DEF Special
<1>2. /\ q \in Seq(Chars) /\ Len(q) = Len(n) + 1 /\ q[Len(n) + 1] = "."
      /\ \A i \in 1..Len(n) : q[i] = n[i]
  BY <1>1
<1>3. CASE Len(t) > 0 /\ t[Len(t)] = "."
  <2>1. StripDot(t) = m /\ t # n
    BY <1>1, <1>3 DEF StripDot
  <2>2. m \in Seq(Chars) /\ Len(m) = Len(t) - 1 /\ \A i \in 1 .. Len(t) - 1 : m[i] = t[i]
    <3>1. /\ m \in Seq(Chars) /\ Len(m) = (Len(t) - 1) - 1 + 1
          /\ \A k \in 1 .. (Len(t) - 1) - 1 + 1 : m[k] = t[1 + k - 1]
      <4>1. Len(t) - 1 \in Nat /\ 1 <= (Len(t) - 1) + 1 /\ Len(t) - 1 <= Len(t)
        BY <1>1, <1>3
      <4> DEFINE j == Len(t) - 1
      <4>2. j \in Nat /\ 1 <= j + 1 /\ j <= Len(t)
        BY <4>1
      <4> HIDE DEF j
      <4>3. /\ SubSeq(t, 1, j) \in Seq(Chars) /\ Len(SubSeq(t, 1, j)) = j - 1 + 1
            /\ \A k \in 1 .. j - 1 + 1 : SubSeq(t, 1, j)[k] = t[1 + k - 1]
        BY <4>2, PartIs
      <4> QED BY <4>3 DEF j
    <3> HIDE DEF m
    <3> QED BY <1>1, <3>1
  <2> HIDE DEF q, m
  <2>3. m = n => t = q
    BY <1>1, <1>2, <1>3, <2>2
  <2>4. t = q => m = n
    BY <1>1, <1>2, <1>3, <2>2
  <2> QED BY <2>1, <2>3, <2>4 DEF Bare, q
<1>4. CASE ~(Len(t) > 0 /\ t[Len(t)] = ".")
  <2>1. StripDot(t) = t
    BY <1>4 DEF StripDot
  <2> HIDE DEF q
  <2>2. t # q
    BY <1>1, <1>2, <1>4
  <2> QED BY <2>1, <2>2 DEF Bare, q
<1> QED BY <1>3, <1>4

\* Each step commutes with lower-casing, and returns a string.
LEMMA StripBracketsOfLower ==
    ASSUME NEW s \in Seq(Chars)
    PROVE  StripBrackets(s) \in Seq(Chars) /\ StripBrackets(Lower(s)) = Lower(StripBrackets(s))
<1>1. Len(s) \in Nat /\ Len(Lower(s)) = Len(s)
  BY LowerIsString
<1>2. CASE Len(s) = 0
  BY <1>1, <1>2 DEF StripBrackets
<1>3. CASE Len(s) > 0
  <2>1. (Lower(s)[1] = "[" <=> s[1] = "[") /\ (Lower(s)[Len(s)] = "]" <=> s[Len(s)] = "]")
    BY <1>1, <1>3, LowerKeepsSpecial DEF Special
  <2>2. SubSeq(Lower(s), 2, Len(s) - 1) = Lower(SubSeq(s, 2, Len(s) - 1))
    BY <1>1, <1>3, LowerOfPart
  <2>3. SubSeq(s, 2, Len(s) - 1) \in Seq(Chars)
    BY <1>1, <1>3
  <2> QED BY <1>1, <2>1, <2>2, <2>3 DEF StripBrackets
<1> QED BY <1>1, <1>2, <1>3

LEMMA StripDotOfLower ==
    ASSUME NEW s \in Seq(Chars)
    PROVE  StripDot(s) \in Seq(Chars) /\ StripDot(Lower(s)) = Lower(StripDot(s))
<1>1. Len(s) \in Nat /\ Len(Lower(s)) = Len(s)
  BY LowerIsString
<1>2. CASE Len(s) = 0
  BY <1>1, <1>2 DEF StripDot
<1>3. CASE Len(s) > 0
  <2>1. Lower(s)[Len(s)] = "." <=> s[Len(s)] = "."
    BY <1>1, <1>3, LowerKeepsSpecial DEF Special
  <2>2. SubSeq(Lower(s), 1, Len(s) - 1) = Lower(SubSeq(s, 1, Len(s) - 1))
    BY <1>1, <1>3, LowerOfPart
  <2>3. SubSeq(s, 1, Len(s) - 1) \in Seq(Chars)
    BY <1>1, <1>3
  <2> QED BY <1>1, <2>1, <2>2, <2>3 DEF StripDot
<1> QED BY <1>1, <1>2, <1>3

LEMMA StripPortOfLower ==
    ASSUME NEW s \in Seq(Chars)
    PROVE  StripPort(s) \in Seq(Chars) /\ StripPort(Lower(s)) = Lower(StripPort(s))
<1> DEFINE l == Lower(s)
           last == LastColon(s)
           close == FirstClose(s)
<1>1. /\ l \in Seq(Chars) /\ Len(l) = Len(s) /\ Len(s) \in Nat
      /\ DOMAIN s = 1..Len(s) /\ DOMAIN l = 1..Len(s)
      /\ \A c \in Special : \A i \in 1..Len(s) : l[i] = c <=> s[i] = c
  BY LowerIsString, LowerKeepsSpecial
<1>2. /\ Has(l, ":") <=> Has(s, ":")
      /\ Has(l, "]") <=> Has(s, "]")
      /\ Brackets(l) = Brackets(s)
  BY <1>1 DEF Has, Brackets, Special
<1>3. Lower(<<>>) = <<>>
  <2>1. <<>> \in Seq(Chars) /\ Len(<<>>) = 0
    OBVIOUS
  <2>2. Lower(<<>>) \in Seq(Chars) /\ Len(Lower(<<>>)) = 0
    BY <2>1, LowerIsString
  <2> QED BY <2>2
<1>4. CASE ~Has(s, ":")
  BY <1>2, <1>4 DEF StripPort, SplitHostPort
<1>5. CASE Has(s, ":")
  <2>1. /\ last \in 1..Len(s) /\ s[last] = ":"
        /\ \A j \in 1..Len(s) : s[j] = ":" => j <= last
    BY <1>5, LastColonIsLast
  <2>2. LastColon(l) = last
    <3>1. /\ LastColon(l) \in 1..Len(s) /\ l[LastColon(l)] = ":"
          /\ \A j \in 1..Len(s) : l[j] = ":" => j <= LastColon(l)
      BY <1>1, <1>2, <1>5, LastColonIsLast
    <3> HIDE DEF last, l
    <3> QED BY <1>1, <2>1, <3>1 DEF Special
  <2>3. l[1] = "[" <=> s[1] = "["
    BY <1>1, <2>1 DEF Special
  <2>4. CASE s[1] # "["
    <3> DEFINE p == SubSeq(s, 1, last - 1)
    <3>1. SubSeq(l, 1, last - 1) = Lower(p) /\ p \in Seq(Chars)
      BY <1>1, <2>1, LowerOfPart
    <3>2. Has(Lower(p), ":") <=> Has(p, ":")
      <4>1. /\ DOMAIN p = 1..Len(p) /\ DOMAIN Lower(p) = 1..Len(p)
            /\ \A i \in 1..Len(p) : Lower(p)[i] = ":" <=> p[i] = ":"
        BY <3>1, LowerIsString, LowerKeepsSpecial DEF Special
      <4> HIDE DEF p
      <4> QED BY <4>1 DEF Has
    <3>3. StripPort(s) = IF Has(p, ":") THEN s ELSE IF Brackets(s) = {} THEN p ELSE <<>>
      BY <1>5, <2>4 DEF StripPort, SplitHostPort
    <3>4. StripPort(l) = IF Has(Lower(p), ":") THEN l
                         ELSE IF Brackets(l) = {} THEN Lower(p) ELSE <<>>
      BY <1>2, <1>5, <2>2, <2>3, <2>4, <3>1 DEF StripPort, SplitHostPort
    <3> QED BY <1>2, <1>3, <3>1, <3>2, <3>3, <3>4
  <2>5. CASE s[1] = "[" /\ ~Has(s, "]")
    <3>1. StripPort(s) = <<>> /\ StripPort(l) = <<>>
      BY <1>2, <1>5, <2>3, <2>5 DEF StripPort, SplitHostPort
    <3> QED BY <1>3, <3>1
  <2>6. CASE s[1] = "[" /\ Has(s, "]")
    <3>1. /\ close \in 1..Len(s) /\ s[close] = "]"
          /\ \A j \in 1..Len(s) : s[j] = "]" => close <= j
      BY <2>6, FirstCloseIsFirst
    <3>2. FirstClose(l) = close
      <4>1. /\ FirstClose(l) \in 1..Len(s) /\ l[FirstClose(l)] = "]"
            /\ \A j \in 1..Len(s) : l[j] = "]" => FirstClose(l) <= j
        BY <1>1, <1>2, <2>6, FirstCloseIsFirst
      <4> HIDE DEF close, l
      <4> QED BY <1>1, <3>1, <4>1 DEF Special
    <3> DEFINE p == SubSeq(s, 2, last - 2)
    <3>3. SubSeq(l, 2, last - 2) = Lower(p) /\ p \in Seq(Chars)
      BY <1>1, <2>1, LowerOfPart
    <3>4. StripPort(s) = IF close # last - 1 THEN s
                         ELSE IF Brackets(s) = {1, last - 1} THEN p ELSE <<>>
      BY <1>5, <2>6 DEF StripPort, SplitHostPort
    <3>5. StripPort(l) = IF close # last - 1 THEN l
                         ELSE IF Brackets(l) = {1, last - 1} THEN Lower(p) ELSE <<>>
      BY <1>2, <1>5, <2>2, <2>3, <2>6, <3>2, <3>3 DEF StripPort, SplitHostPort
    <3> QED BY <1>2, <1>3, <3>3, <3>4, <3>5
  <2> QED BY <2>4, <2>5, <2>6
<1> QED BY <1>4, <1>5

-----------------------------------------------------------------------------
(* NormalizeHost *)

\* A validated name has no colon and no bracket, and does not end in a dot; nor
\* has it any with the dot of a fully qualified name.
LEMMA RouteNameIsPlain ==
    ASSUME NEW n \in Seq(Chars), IsRouteName(n)
    PROVE  Len(n) \in Nat /\ Len(n) > 1 /\ n[Len(n)] # "." /\ \A b \in Bare(n) : Plain(b)
<1>1. Len(n) \in Nat /\ Len(n) > 1 /\ n[Len(n)] = "localhost" /\ DOMAIN n = 1..Len(n)
  BY DEF IsRouteName, UnderLocalhost
<1>2. \A i \in 1..Len(n) : n[i] \in Alnum \cup {"-", "."}
  BY <1>1 DEF IsRouteName
<1>3. \A i \in 1..Len(n) : n[i] \notin {":", "[", "]"}
  BY <1>2, AlphabetIsSound DEF Special
<1>4. Plain(n)
  BY <1>1, <1>3 DEF Plain
<1>5. Plain(Append(n, "."))
  <2>1. /\ Append(n, ".") \in Seq(Chars) /\ Len(Append(n, ".")) = Len(n) + 1
        /\ \A i \in 1 .. Len(n) + 1 : Append(n, ".")[i] = IF i = Len(n) + 1 THEN "." ELSE n[i]
    BY <1>1, AlphabetIsSound DEF Special
  <2> QED BY <1>1, <1>3, <2>1 DEF Plain
<1> QED BY <1>1, <1>4, <1>5 DEF Bare

\* NormalizeHost returns a string in lower case.
LEMMA NormalizeHostIs ==
    ASSUME NEW h \in Seq(Chars)
    PROVE  /\ NormalizeHost(h) = StripDot(StripPort(StripBrackets(Lower(h))))
           /\ NormalizeHost(h) \in Seq(Chars) /\ Lower(NormalizeHost(h)) = NormalizeHost(h)
<1> DEFINE t == StripBrackets(h)
           p == StripPort(t)
           d == StripDot(p)
<1>1. t \in Seq(Chars) /\ StripBrackets(Lower(h)) = Lower(t)
  BY StripBracketsOfLower
<1>2. p \in Seq(Chars) /\ StripPort(Lower(t)) = Lower(p)
  BY <1>1, StripPortOfLower
<1>3. d \in Seq(Chars) /\ StripDot(Lower(p)) = Lower(d)
  BY <1>2, StripDotOfLower
<1>4. NormalizeHost(h) = Lower(d)
  BY DEF NormalizeHost
<1> QED BY <1>1, <1>2, <1>3, <1>4, LowerIsString, LowerIdempotent

\* NormalizeHost takes the spellings of a validated name to that name, and
\* nothing else.
THEOREM NormalizesSpellings ==
    ASSUME NEW h \in Seq(Chars), NEW n \in Seq(Chars), IsRouteName(n)
    PROVE  NormalizeHost(h) = n <=> Spells(h, n)
<1> DEFINE l == Lower(h)
           t == StripBrackets(l)
           m == SubSeq(l, 2, Len(l) - 1)
<1>1. /\ Len(n) \in Nat /\ Len(n) > 1 /\ n[Len(n)] # "."
      /\ \A b \in Bare(n) : Plain(b)
  BY RouteNameIsPlain
<1>2. l \in Seq(Chars) /\ t \in Seq(Chars) /\ Len(l) \in Nat /\ DOMAIN l = 1..Len(l)
  BY LowerIsString, StripBracketsOfLower
<1>3. NormalizeHost(h) = StripDot(StripPort(t)) /\ StripPort(t) \in Seq(Chars)
  BY <1>2, NormalizeHostIs, StripPortOfLower
<1>4. NormalizeHost(h) = n <=> StripPort(t) \in Bare(n)
  BY <1>1, <1>3, StripDotIs
<1>5. \A b \in Bare(n) : StripPort(t) = b <=> t = b \/ Ported(t, b)
  BY <1>1, <1>2, StripPortIs
<1>6. \A x : WithPort(x, n) <=> \E b \in Bare(n) : Ported(x, b)
  BY DEF WithPort, Ported, Spelled
<1>7. NormalizeHost(h) = n <=> t \in Bare(n) \/ WithPort(t, n)
  BY <1>4, <1>5, <1>6
<1>8. Spells(h, n) <=> \/ l \in Spelled(n) \/ WithPort(l, n)
                       \/ Len(l) > 1 /\ l = Bracketed(m) /\ WithPort(m, n)
  BY DEF Spells
<1>9. \A b \in Bare(n) : /\ b \in Seq(Chars) /\ Len(b) \in Nat /\ Len(b) > 0 /\ b[1] # "["
                         /\ \A i \in 1..Len(b) : b[i] \notin {":", "[", "]"}
  BY <1>1 DEF Plain
<1>10. CASE Len(l) > 0 /\ l[1] = "[" /\ l[Len(l)] = "]"
  <2>1. t = m /\ Len(l) > 1 /\ l = Bracketed(m)
    BY <1>2, <1>10, IsBracketed DEF StripBrackets
  <2>2. l \notin Bare(n)
    BY <1>2, <1>9, <1>10
  <2>3. ~WithPort(l, n)
    BY <1>2, <1>10 DEF WithPort
  <2>4. ASSUME NEW b \in Bare(n) PROVE Bracketed(b) = l <=> b = m
    <3>1. m \in Seq(Chars)
      BY <1>2, <2>1
    <3> HIDE DEF l, m
    <3> QED BY <1>9, <2>1, <3>1, BracketedInjective
  <2>5. l \in Spelled(n) <=> m \in Bare(n)
    BY <2>2, <2>4 DEF Spelled
  <2> QED BY <1>7, <1>8, <2>1, <2>3, <2>5
<1>11. CASE ~(Len(l) > 0 /\ l[1] = "[" /\ l[Len(l)] = "]")
  <2>1. t = l
    BY <1>11 DEF StripBrackets
  <2>2. ASSUME NEW b \in Seq(Chars) PROVE l # Bracketed(b)
    <3>1. /\ Len(Bracketed(b)) = Len(b) + 2
          /\ Bracketed(b)[1] = "[" /\ Bracketed(b)[Len(b) + 2] = "]"
      BY BracketedIs
    <3> HIDE DEF l
    <3> QED BY <1>11, <3>1
  <2>3. l \in Spelled(n) <=> l \in Bare(n)
    BY <1>9, <2>2 DEF Spelled
  <2>4. ~(Len(l) > 1 /\ l = Bracketed(m))
    <3>1. Len(l) > 1 => m \in Seq(Chars)
      BY <1>2
    <3> HIDE DEF m
    <3> QED BY <2>2, <3>1
  <2> QED BY <1>7, <1>8, <2>1, <2>3, <2>4
<1> QED BY <1>10, <1>11

-----------------------------------------------------------------------------
(* The order of sort.Strings *)

\* s is a proper prefix of t, or the first character in which they differ, the
\* i-th, ranks lower in s.
ProperPrefix(s, t) == Len(s) < Len(t) /\ \A k \in 1..Len(s) : s[k] = t[k]
LowerAt(s, t, i) == /\ i \in 1..Len(s) /\ i \in 1..Len(t) /\ Rank[s[i]] < Rank[t[i]]
                    /\ \A k \in 1 .. i - 1 : s[k] = t[k]

\* The order, by the character.
LEMMA BeforeIs ==
    ASSUME NEW s \in Seq(Chars), NEW t \in Seq(Chars)
    PROVE  Before(s, t) <=> ProperPrefix(s, t) \/ \E i \in Nat : LowerAt(s, t, i)
<1>1. Len(s) \in Nat /\ Len(t) \in Nat /\ DOMAIN s = 1..Len(s) /\ DOMAIN t = 1..Len(t)
  OBVIOUS
<1>2. ASSUME NEW k \in Nat, k <= Len(s), k <= Len(t)
      PROVE  SubSeq(s, 1, k) = SubSeq(t, 1, k) <=> \A j \in 1..k : s[j] = t[j]
  <2>1. /\ SubSeq(s, 1, k) \in Seq(Chars) /\ Len(SubSeq(s, 1, k)) = k
        /\ \A j \in 1..k : SubSeq(s, 1, k)[j] = s[j]
    BY <1>1, <1>2
  <2>2. /\ SubSeq(t, 1, k) \in Seq(Chars) /\ Len(SubSeq(t, 1, k)) = k
        /\ \A j \in 1..k : SubSeq(t, 1, k)[j] = t[j]
    BY <1>1, <1>2
  <2> QED BY <2>1, <2>2
<1>3. Len(s) < Len(t) /\ s = SubSeq(t, 1, Len(s)) <=> ProperPrefix(s, t)
  <2>1. SubSeq(s, 1, Len(s)) = s
    BY <1>1
  <2> QED BY <1>1, <1>2, <2>1 DEF ProperPrefix
<1>4. ASSUME NEW i \in DOMAIN s \cap DOMAIN t
      PROVE  SubSeq(s, 1, i - 1) = SubSeq(t, 1, i - 1) <=> \A k \in 1 .. i - 1 : s[k] = t[k]
  BY <1>1, <1>2
<1>5. ASSUME NEW i \in DOMAIN s \cap DOMAIN t
      PROVE  /\ i \in Nat
             /\ SubSeq(s, 1, i - 1) = SubSeq(t, 1, i - 1) /\ Rank[s[i]] < Rank[t[i]]
                  <=> LowerAt(s, t, i)
  BY <1>1, <1>4 DEF LowerAt
<1>6. \A i \in Nat : LowerAt(s, t, i) => i \in DOMAIN s \cap DOMAIN t
  BY <1>1 DEF LowerAt
<1> QED BY <1>3, <1>5, <1>6 DEF Before

\* No two domains are each before the other.
LEMMA BeforeIsAsymmetric ==
    ASSUME NEW s \in Seq(Chars), NEW t \in Seq(Chars), Before(s, t)
    PROVE  ~Before(t, s)
<1>1. \A c, d \in Chars : Rank[c] \in Int /\ Rank[d] \in Int
  BY AlphabetIsSound
<1>2. /\ Len(s) \in Nat /\ Len(t) \in Nat
      /\ \A i \in 1..Len(s) : s[i] \in Chars
      /\ \A i \in 1..Len(t) : t[i] \in Chars
  OBVIOUS
<1>3. ~(ProperPrefix(s, t) /\ ProperPrefix(t, s))
  BY <1>2 DEF ProperPrefix
<1>4. ASSUME NEW i \in Nat
      PROVE  ~(ProperPrefix(s, t) /\ LowerAt(t, s, i)) /\ ~(ProperPrefix(t, s) /\ LowerAt(s, t, i))
  BY <1>1, <1>2 DEF ProperPrefix, LowerAt
<1>5. ASSUME NEW i \in Nat, NEW j \in Nat PROVE ~(LowerAt(s, t, i) /\ LowerAt(t, s, j))
  <2>1. SUFFICES ASSUME LowerAt(s, t, i), LowerAt(t, s, j) PROVE FALSE
    OBVIOUS
  <2>2. /\ i \in 1..Len(s) /\ i \in 1..Len(t) /\ j \in 1..Len(s) /\ j \in 1..Len(t)
        /\ Rank[s[i]] < Rank[t[i]] /\ Rank[t[j]] < Rank[s[j]]
        /\ \A k \in 1..(i - 1) : s[k] = t[k]
        /\ \A k \in 1..(j - 1) : s[k] = t[k]
    BY <1>2, <2>1 DEF LowerAt
  <2>3. Rank[s[i]] \in Int /\ Rank[t[i]] \in Int /\ Rank[s[j]] \in Int /\ Rank[t[j]] \in Int
    BY <1>1, <1>2, <2>2
  <2>4. CASE i < j
    <3>1. s[i] = t[i]
      BY <2>2, <2>4
    <3> QED BY <2>2, <2>3, <3>1
  <2>5. CASE j < i
    <3>1. s[j] = t[j]
      BY <2>2, <2>5
    <3> QED BY <2>2, <2>3, <3>1
  <2>6. CASE i = j
    BY <2>2, <2>3, <2>6
  <2> QED BY <2>4, <2>5, <2>6
<1> QED BY <1>3, <1>4, <1>5, BeforeIs

\* Of two different domains one is before the other.
LEMMA BeforeIsTotal ==
    ASSUME NEW s \in Seq(Chars), NEW t \in Seq(Chars), s # t
    PROVE  Before(s, t) \/ Before(t, s)
<1> DEFINE T == {i \in 1..Len(s) : i <= Len(t) /\ s[i] # t[i]}
<1>1. /\ Len(s) \in Nat /\ Len(t) \in Nat
      /\ \A i \in 1..Len(s) : s[i] \in Chars
      /\ \A i \in 1..Len(t) : t[i] \in Chars
  OBVIOUS
<1>2. CASE T = {}
  <2>1. \A k \in Nat : k \in 1..Len(s) /\ k \in 1..Len(t) => s[k] = t[k]
    BY <1>1, <1>2
  <2>2. Len(s) # Len(t)
    BY <1>1, <2>1
  <2>3. ProperPrefix(s, t) \/ ProperPrefix(t, s)
    BY <1>1, <2>1, <2>2 DEF ProperPrefix
  <2> QED BY <2>3, BeforeIs
<1>3. CASE T # {}
  <2>1. PICK i \in T : \A j \in T : i <= j
    <3>1. T \subseteq Nat
      BY <1>1
    <3> HIDE DEF T
    <3> QED BY <1>3, <3>1, LeastExists
  <2>2. \A k \in 1 .. i - 1 : s[k] = t[k]
    BY <1>1, <2>1
  <2>3. Rank[s[i]] < Rank[t[i]] \/ Rank[t[i]] < Rank[s[i]]
    BY <1>1, <2>1, AlphabetIsSound
  <2>4. LowerAt(s, t, i) \/ LowerAt(t, s, i)
    BY <1>1, <2>2, <2>3 DEF LowerAt
  <2> QED BY <2>4, BeforeIs
<1> QED BY <1>2, <1>3

\* The order is transitive.
LEMMA BeforeIsTransitive ==
    ASSUME NEW s \in Seq(Chars), NEW t \in Seq(Chars), NEW u \in Seq(Chars),
           Before(s, t), Before(t, u)
    PROVE  Before(s, u)
<1>1. /\ Len(s) \in Nat /\ Len(t) \in Nat /\ Len(u) \in Nat
      /\ \A i \in 1..Len(s) : Rank[s[i]] \in Int
      /\ \A i \in 1..Len(t) : Rank[t[i]] \in Int
      /\ \A i \in 1..Len(u) : Rank[u[i]] \in Int
  BY AlphabetIsSound
<1>2. CASE ProperPrefix(s, t) /\ ProperPrefix(t, u)
  <2>1. ProperPrefix(s, u)
    BY <1>1, <1>2 DEF ProperPrefix
  <2> QED BY <2>1, BeforeIs
<1>3. ASSUME NEW i \in Nat, LowerAt(s, t, i), ProperPrefix(t, u) PROVE Before(s, u)
  <2>1. LowerAt(s, u, i)
    BY <1>1, <1>3 DEF ProperPrefix, LowerAt
  <2> QED BY <2>1, BeforeIs
<1>4. ASSUME NEW j \in Nat, ProperPrefix(s, t), LowerAt(t, u, j) PROVE Before(s, u)
  <2>1. CASE j <= Len(s)
    <3>1. LowerAt(s, u, j)
      BY <1>1, <1>4, <2>1 DEF ProperPrefix, LowerAt
    <3> QED BY <3>1, BeforeIs
  <2>2. CASE Len(s) < j
    <3>1. ProperPrefix(s, u)
      BY <1>1, <1>4, <2>2 DEF ProperPrefix, LowerAt
    <3> QED BY <3>1, BeforeIs
  <2> QED BY <1>1, <2>1, <2>2
<1>5. ASSUME NEW i \in Nat, NEW j \in Nat, LowerAt(s, t, i), LowerAt(t, u, j)
      PROVE  Before(s, u)
  <2>1. CASE i < j
    <3>1. LowerAt(s, u, i)
      BY <1>1, <1>5, <2>1 DEF LowerAt
    <3> QED BY <3>1, BeforeIs
  <2>2. CASE i = j
    <3>1. LowerAt(s, u, i)
      BY <1>1, <1>5, <2>2 DEF LowerAt
    <3> QED BY <3>1, BeforeIs
  <2>3. CASE j < i
    <3>1. LowerAt(s, u, j)
      BY <1>1, <1>5, <2>3 DEF LowerAt
    <3> QED BY <3>1, BeforeIs
  <2> QED BY <2>1, <2>2, <2>3
<1> QED BY <1>2, <1>3, <1>4, <1>5, BeforeIs

\* A finite set of domains that is not empty has one before all others.
LEMMA FirstExists ==
    ASSUME NEW S, S \subseteq Seq(Chars), IsFiniteSet(S), S # {}
    PROVE  \E d \in S : \A e \in S \ {d} : Before(d, e)
<1> DEFINE Below(x) == {y \in S : Before(y, x)}
           T == {Cardinality(Below(x)) : x \in S}
<1>1. \A x \in S : IsFiniteSet(Below(x)) /\ Cardinality(Below(x)) \in Nat
  BY FS_Subset, FS_CardinalityType
<1>2. PICK d \in S : \A x \in S : Cardinality(Below(d)) <= Cardinality(Below(x))
  <2>1. T \subseteq Nat /\ T # {}
    BY <1>1
  <2>2. PICK n \in T : \A k \in T : n <= k
    <3> HIDE DEF T
    <3> QED BY <2>1, LeastExists
  <2> QED BY <2>2
<1>3. ASSUME NEW y \in S, Before(y, d) PROVE FALSE
  <2>1. Below(y) \subseteq Below(d)
    BY <1>3, BeforeIsTransitive
  <2>2. y \in Below(d) /\ y \notin Below(y)
    BY <1>3, BeforeIsAsymmetric
  <2>3. Cardinality(Below(y)) < Cardinality(Below(d))
    <3> HIDE DEF Below
    <3> QED BY <1>1, <2>1, <2>2, FS_Subset
  <2>4. Cardinality(Below(d)) <= Cardinality(Below(y))
    BY <1>2
  <2> HIDE DEF Below
  <2> QED BY <1>1, <2>3, <2>4
<1> QED BY <1>3, BeforeIsTotal

=============================================================================
