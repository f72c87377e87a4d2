-------------------------- MODULE RouteTable_proofs --------------------------
(***************************************************************************)
(* Proofs about RouteTable, for any alphabet, files, headers and questions *)
(* and any limit on labels: which names the two engines serve, and with    *)
(* which port.                                                             *)
(***************************************************************************)
EXTENDS HostNames_proofs

\* NormalizeHost does no more to a validated domain than to lower its case.
LEMMA NormalizesToLower ==
    ASSUME NEW d \in Seq(Chars), IsRouteName(Lower(d))
    PROVE  NormalizeHost(d) = Lower(d)
<1>1. Lower(d) \in Seq(Chars) /\ Spells(d, Lower(d))
  BY LowerIsString DEF Spells, Spelled, Bare
<1> QED BY <1>1, NormalizesSpellings

\* What is written like a validated name, in any letter case and with or without
\* a trailing dot, is taken to that name.
LEMMA BareIsServed ==
    ASSUME NEW s \in Seq(Chars), NEW n \in Seq(Chars), IsRouteName(n), Lower(s) \in Bare(n)
    PROVE  NormalizeHost(s) = n
<1>1. Spells(s, n)
  BY DEF Spells, Spelled
<1> QED BY <1>1, NormalizesSpellings

\* A character of a validated name that is neither a dot nor the last one is in a
\* label: i and j are the cuts around it.
LEMMA LabelAround ==
    ASSUME NEW s \in Seq(Chars), IsRouteName(s), NEW p \in 1..Len(s), p # Len(s), s[p] # "."
    PROVE  \E i \in 0 .. p - 1, j \in p + 1 .. Len(s) :
              /\ s[j] = "." /\ \A k \in i + 1 .. j - 1 : s[k] # "."
              /\ j - i - 1 <= MaxLabel /\ s[i + 1] \in Alnum /\ s[j - 1] \in Alnum
<1> DEFINE cuts == {0} \cup {i \in DOMAIN s : s[i] = "."}
<1>1. /\ Len(s) \in Nat /\ MaxLabel \in Nat
      /\ Len(s) > 1 /\ s[Len(s) - 1] = "."
  BY AlphabetIsSound DEF IsRouteName, UnderLocalhost
<1>2. \A c : c \in cuts <=> c = 0 \/ (c \in 1..Len(s) /\ s[c] = ".")
  OBVIOUS
<1>3. \A a, b \in cuts : a < b /\ (\A k \in cuts : ~(a < k /\ k < b))
                              => IsLabel(SubSeq(s, a + 1, b - 1))
  BY DEF IsRouteName
<1> HIDE DEF cuts
<1>4. PICK i \in cuts : i < p /\ \A k \in cuts : k < p => k <= i
  <2> DEFINE T == {p - k : k \in {c \in cuts : c < p}}
  <2>1. T \subseteq Nat /\ T # {}
    <3>1. 0 \in cuts /\ 0 < p /\ cuts \subseteq Nat
      BY <1>1, <1>2
    <3> QED BY <3>1
  <2>2. PICK x \in T : \A y \in T : x <= y
    BY <2>1, LeastExists
  <2>3. PICK k \in cuts : k < p /\ x = p - k
    OBVIOUS
  <2>4. ASSUME NEW c \in cuts, c < p PROVE c <= k
    <3>1. p - c \in T
      BY <2>4
    <3> HIDE DEF T
    <3>2. p - k <= p - c
      BY <2>2, <2>3, <3>1
    <3>3. k \in Nat /\ c \in Nat
      BY <1>1, <1>2, <2>3
    <3> QED BY <3>2, <3>3
  <2> QED BY <2>3, <2>4
<1>5. PICK j \in cuts : p < j /\ \A k \in cuts : p < k => j <= k
  <2> DEFINE T == {c \in cuts : p < c}
  <2>1. T \subseteq Nat /\ T # {}
    <3>1. Len(s) - 1 \in cuts /\ p < Len(s) - 1 /\ cuts \subseteq Nat
      BY <1>1, <1>2
    <3> QED BY <3>1
  <2>2. PICK j \in T : \A y \in T : j <= y
    BY <2>1, LeastExists
  <2> QED BY <2>2
<1>6. i \in 0 .. p - 1 /\ j \in p + 1 .. Len(s) /\ s[j] = "."
  BY <1>1, <1>2, <1>4, <1>5
<1>7. \A k \in cuts : ~(i < k /\ k < j)
  <2> SUFFICES ASSUME NEW k \in cuts, i < k, k < j PROVE FALSE
    OBVIOUS
  <2>1. k \in Nat /\ k # p
    BY <1>1, <1>2
  <2> QED BY <1>4, <1>5, <1>6, <2>1
<1>8. IsLabel(SubSeq(s, i + 1, j - 1))
  BY <1>3, <1>6, <1>7
<1>9. /\ Len(SubSeq(s, i + 1, j - 1)) = j - i - 1
      /\ \A k \in 1 .. j - i - 1 : SubSeq(s, i + 1, j - 1)[k] = s[i + k]
  BY <1>1, <1>6, PartIs
<1>10. j - i - 1 \in 1..MaxLabel /\ s[i + 1] \in Alnum /\ s[j - 1] \in Alnum
  <2> DEFINE l == SubSeq(s, i + 1, j - 1)
  <2>1. Len(l) \in 1..MaxLabel /\ l[1] \in Alnum /\ l[Len(l)] \in Alnum
    BY <1>8 DEF IsLabel
  <2>2. l[1] = s[i + 1] /\ l[Len(l)] = s[i + (j - i - 1)]
    BY <1>6, <1>9
  <2>3. i + (j - i - 1) = j - 1
    BY <1>6
  <2> QED BY <1>9, <2>1, <2>2, <2>3
<1>11. \A k \in i + 1 .. j - 1 : s[k] # "."
  <2> SUFFICES ASSUME NEW k \in i + 1 .. j - 1, s[k] = "." PROVE FALSE
    OBVIOUS
  <2>1. k \in 1..Len(s) /\ i < k /\ k < j
    BY <1>1, <1>6
  <2> QED BY <1>2, <1>7, <2>1
<1> QED BY <1>6, <1>10, <1>11

\* No label of a validated name is empty: no dot comes first, or after a dot.
LEMMA NoEmptyLabel ==
    ASSUME NEW s \in Seq(Chars), IsRouteName(s), NEW p \in 1..Len(s), s[p] = "."
    PROVE  p # 1 /\ p # Len(s) /\ s[p - 1] # "."
<1> DEFINE cuts == {0} \cup {i \in DOMAIN s : s[i] = "."}
<1>1. /\ Len(s) \in Nat /\ s[Len(s)] = "localhost"
      /\ "localhost" # "."
  BY AlphabetIsSound DEF IsRouteName, UnderLocalhost, Special
<1>2. \A c : c \in cuts <=> c = 0 \/ (c \in 1..Len(s) /\ s[c] = ".")
  OBVIOUS
<1>3. \A a, b \in cuts : a < b /\ (\A k \in cuts : ~(a < k /\ k < b))
                              => IsLabel(SubSeq(s, a + 1, b - 1))
  BY DEF IsRouteName
<1> HIDE DEF cuts
<1>4. p - 1 \notin cuts
  <2> SUFFICES ASSUME p - 1 \in cuts PROVE FALSE
    OBVIOUS
  <2>1. p \in cuts /\ p - 1 < p /\ \A k \in cuts : ~(p - 1 < k /\ k < p)
    BY <1>1, <1>2
  <2>2. IsLabel(SubSeq(s, (p - 1) + 1, p - 1))
    BY <1>3, <2>1
  <2>3. Len(SubSeq(s, (p - 1) + 1, p - 1)) = 0
    <3>1. (p - 1) + 1 \in Nat /\ p - 1 \in Nat /\ p - 1 <= Len(s)
      BY <1>1
    <3>2. Len(SubSeq(s, (p - 1) + 1, p - 1)) = (p - 1) - ((p - 1) + 1) + 1
      BY <3>1, PartIs
    <3> QED BY <3>2
  <2> QED BY <2>2, <2>3 DEF IsLabel
<1>5. p # 1 /\ p # Len(s)
  BY <1>1, <1>2, <1>4
<1>6. s[p - 1] # "."
  BY <1>1, <1>2, <1>4, <1>5
<1> QED BY <1>5, <1>6

\* The labels of a validated name are as DNS wants them.
LEMMA RouteNameIsLegal ==
    ASSUME NEW s \in Seq(Chars), IsRouteName(s)
    PROVE  LabelsAreLegal(s)
<1>1. /\ Len(s) \in Nat /\ MaxLabel \in Nat \ {0}
      /\ s[Len(s)] = "localhost" /\ s[Len(s) - 1] = "." /\ Len(s) > 1
      /\ "localhost" \notin {".", "-"} /\ "-" \notin Alnum
  BY AlphabetIsSound DEF IsRouteName, UnderLocalhost, Special
<1>2. ASSUME NEW i \in 1..Len(s), i + MaxLabel \in 1..Len(s)
      PROVE  \E k \in i .. i + MaxLabel : s[k] = "."
  <2>1. CASE s[i] = "."
    BY <1>1, <2>1
  <2>2. CASE i + MaxLabel = Len(s)
    BY <1>1, <1>2, <2>2
  <2>3. CASE s[i] # "." /\ i + MaxLabel # Len(s)
    <3>1. i # Len(s)
      BY <1>1, <1>2
    <3>2. PICK a \in 0 .. i - 1, b \in i + 1 .. Len(s) : s[b] = "." /\ b - a - 1 <= MaxLabel
      BY <2>3, <3>1, LabelAround
    <3> QED BY <1>1, <3>2
  <2> QED BY <2>1, <2>2, <2>3
<1>3. ASSUME NEW i \in 1..Len(s), s[i] \in {".", "-"}
      PROVE  {i - 1, i + 1} \subseteq 1..Len(s) /\ s[i - 1] # "." /\ s[i + 1] # "."
  <2>1. i # Len(s)
    BY <1>1, <1>3
  <2>2. CASE s[i] = "."
    <3>1. i # 1 /\ s[i - 1] # "."
      BY <2>2, NoEmptyLabel
    <3>2. i + 1 \in 1..Len(s)
      BY <1>1, <2>1
    <3>3. s[i + 1] # "."
      <4> SUFFICES ASSUME s[i + 1] = "." PROVE FALSE
        OBVIOUS
      <4>1. s[(i + 1) - 1] # "."
        BY <3>2, NoEmptyLabel
      <4> QED BY <1>1, <2>2, <4>1
    <3> QED BY <1>1, <3>1, <3>2, <3>3
  <2>3. CASE s[i] = "-"
    <3>1. PICK a \in 0 .. i - 1, b \in i + 1 .. Len(s) :
              /\ \A k \in a + 1 .. b - 1 : s[k] # "."
              /\ s[a + 1] \in Alnum /\ s[b - 1] \in Alnum
      BY <1>1, <2>1, <2>3, LabelAround
    <3>2. i # a + 1 /\ i # b - 1
      BY <1>1, <2>3, <3>1
    <3> QED BY <1>1, <3>1, <3>2
  <2> QED BY <1>3, <2>2, <2>3
<1> QED
  <2>1. DOMAIN s = 1..Len(s)
    OBVIOUS
  <2> QED BY <1>2, <1>3, <2>1, Zenon DEF LabelsAreLegal

-----------------------------------------------------------------------------
\* Before `up` has read the file nothing is in the table and nothing answered.
LEMMA InitIndInv == Init => IndInv
BY DEF Init, IndInv, TypeOK, FileIsValid, TableIsFiles, Replies, NoReply

\* Loading the file preserves the inductive invariant.
LEMMA LoadIndInv == ASSUME IndInv, LoadConfig PROVE IndInv'
<1> DEFINE full == ApplyDefaults(cfg)
<1>1. /\ cfg \in Configs /\ DOMAIN table = {} /\ table' = table /\ reply' = reply
      /\ reply = NoReply
  BY DEF IndInv, FileIsValid, TableIsFiles, LoadConfig, Serving
<1>2. full.routes = cfg.routes
  BY <1>1, NamesAreStrings DEF ApplyDefaults
<1>3. CASE loaded' = "loaded" /\ cfg' = full /\ pending' = DOMAIN cfg.routes /\ Valid(full)
  BY <1>1, <1>2, <1>3, NamesAreStrings
     DEF IndInv, TypeOK, FileIsValid, TableIsFiles, Serving, Valid, ValidRoutes, ValidPort
<1>4. CASE loaded' = "refused" /\ UNCHANGED <<cfg, pending>>
  BY <1>1, <1>4 DEF IndInv, TypeOK, FileIsValid, TableIsFiles, Serving
<1> QED BY <1>3, <1>4 DEF LoadConfig

\* Registering the next domain preserves it: the key is the domain in lower case.
LEMMA AddIndInv == ASSUME IndInv, AddRoute PROVE IndInv'
<1>1. /\ loaded = "loaded" /\ reply' = reply /\ cfg' = cfg /\ pending # {}
      /\ reply = NoReply
  BY DEF IndInv, AddRoute, Serving
<1>2. PICK d \in pending :
        IF NormalizeHost(d) = <<>>
          THEN loaded' = "refused" /\ UNCHANGED <<pending, table>>
          ELSE /\ table' = Put(table, NormalizeHost(d), cfg.routes[d])
               /\ pending' = pending \ {d} /\ UNCHANGED loaded
  BY DEF AddRoute
<1>3. /\ d \in DOMAIN cfg.routes /\ d \in Seq(Chars) /\ IsRouteName(Lower(d))
      /\ cfg.routes[d] \in Ports
  BY <1>1, <1>2 DEF IndInv, TypeOK, FileIsValid, ValidPort
<1>4. NormalizeHost(d) = Lower(d)
  BY <1>3, NormalizesToLower
<1>5. Lower(d) \in Seq(Chars) /\ Lower(Lower(d)) = Lower(d)
  BY <1>3, LowerIsString, LowerIdempotent
<1>6. CASE loaded' = "refused" /\ UNCHANGED <<pending, table>>
  BY <1>1, <1>6 DEF IndInv, TypeOK, FileIsValid, TableIsFiles, Serving
<1>7. CASE /\ table' = Put(table, Lower(d), cfg.routes[d])
           /\ pending' = pending \ {d} /\ UNCHANGED loaded
  <2>1. /\ DOMAIN table' = DOMAIN table \cup {Lower(d)}
        /\ table'[Lower(d)] = cfg.routes[d]
        /\ \A n \in DOMAIN table \ {Lower(d)} : table'[n] = table[n]
    BY <1>7 DEF Put
  <2>2. TypeOK'
    BY <1>1, <1>3, <1>5, <1>7, <2>1 DEF IndInv, TypeOK
  <2>3. FileIsValid'
    BY <1>1, <1>7 DEF IndInv, FileIsValid
  <2>4. TableIsFiles'
    BY <1>1, <1>3, <1>5, <1>7, <2>1 DEF IndInv, TableIsFiles
  <2> QED BY <1>1, <2>2, <2>3, <2>4 DEF IndInv
<1> QED BY <1>2, <1>4, <1>6, <1>7

\* An answer, and its end, preserve it.
LEMMA AnswerIndInv ==
    ASSUME IndInv,
           \/ \E h \in Hosts : ServeHTTP(h)
           \/ \E q \in Questions, opcode \in Opcodes, type \in Types : HandleRequest(q, opcode, type)
           \/ Answered
    PROVE  IndInv'
<1>1. UNCHANGED <<loaded, cfg, pending, table>> /\ (reply' # NoReply => Serving)
  BY DEF ServeHTTP, HandleRequest, Answered
<1>2. reply' \in Replies
  <2>1. CASE \E h \in Hosts : ServeHTTP(h)
    BY <2>1 DEF ServeHTTP, Resolves, Replies, IndInv, TypeOK
  <2>2. CASE \E q \in Questions, opcode \in Opcodes, type \in Types : HandleRequest(q, opcode, type)
    BY <2>2 DEF HandleRequest, Replies
  <2>3. CASE Answered
    BY <2>3 DEF Answered, Replies
  <2> QED BY <2>1, <2>2, <2>3
<1> QED BY <1>1, <1>2 DEF IndInv, TypeOK, FileIsValid, TableIsFiles, Serving

\* The inductive invariant holds: a loaded file is valid, and the table holds the
\* registered domains in lower case and nothing else.
THEOREM IndInvHolds == Spec => []IndInv
<1>1. IndInv /\ [Next]_vars => IndInv'
  <2> SUFFICES ASSUME IndInv, [Next]_vars PROVE IndInv'
    OBVIOUS
  <2>1. CASE Next
    BY <2>1, LoadIndInv, AddIndInv, AnswerIndInv DEF Next
  <2>2. CASE UNCHANGED vars
    BY <2>2 DEF vars, IndInv, TypeOK, FileIsValid, TableIsFiles, Serving
  <2> QED BY <2>1, <2>2
<1> QED BY <1>1, InitIndInv, PTL DEF Spec

\* Tables, configurations and answers have their types: no route has a port that
\* no backend can have.
THEOREM TypeCorrect == Spec => []TypeOK
<1>1. IndInv => TypeOK
  BY DEF IndInv
<1> QED BY <1>1, IndInvHolds, PTL

\* No registered route is out of reach: Resolve finds its key by the name that
\* proxy and DNS server normalise, the DNS server does not filter it out, and a
\* question can carry it.
THEOREM RoutesAreReachable == Spec => []KeysAreReachable
<1>1. ASSUME IndInv, NEW n \in DOMAIN table
      PROVE  /\ NormalizeHost(n) = n /\ NormalizeHost(Append(n, ".")) = n
             /\ MatchesTLD(n) /\ LabelsAreLegal(n)
  <2> DEFINE q == Append(n, ".")
  <2>1. n \in Seq(Chars) /\ IsRouteName(n) /\ Lower(n) = n
    BY <1>1 DEF IndInv, TableIsFiles
  <2>2. Len(n) \in Nat /\ "." \in Chars /\ LowerOf["."] = "."
    BY <2>1, AlphabetIsSound DEF Special
  <2>3. /\ q \in Seq(Chars) /\ Len(q) = Len(n) + 1 /\ q[Len(n) + 1] = "."
        /\ \A i \in 1..Len(n) : q[i] = n[i]
    BY <2>1, <2>2
  <2> HIDE DEF q
  <2>4. Lower(q) = q
    <3>1. /\ Lower(q) \in Seq(Chars) /\ Len(Lower(q)) = Len(q)
          /\ \A i \in 1..Len(q) : Lower(q)[i] = LowerOf[q[i]]
      BY <2>3, LowerIsString
    <3>2. \A i \in 1..Len(n) : n[i] = LowerOf[n[i]]
      BY <2>1, LowerIsString
    <3>3. \A i \in 1..Len(q) : Lower(q)[i] = q[i]
      BY <2>2, <2>3, <3>1, <3>2
    <3> QED BY <2>3, <3>1, <3>3
  <2>5. NormalizeHost(n) = n
    BY <2>1, BareIsServed DEF Bare
  <2>6. NormalizeHost(q) = n
    BY <2>1, <2>3, <2>4, BareIsServed DEF Bare, q
  <2>7. LabelsAreLegal(n)
    BY <2>1, RouteNameIsLegal
  <2> QED BY <2>1, <2>5, <2>6, <2>7 DEF IsRouteName, MatchesTLD, q
<1>2. IndInv => KeysAreReachable
  BY <1>1 DEF KeysAreReachable
<1> QED BY <1>2, IndInvHolds, PTL

\* Every configured domain is served by both engines, however it is written.
THEOREM ConfiguredAreServed == Spec => []ConfiguredIsServed
<1>1. Init => ConfiguredIsServed
  BY DEF Init, ConfiguredIsServed
<1>2. IndInv /\ ConfiguredIsServed /\ [Next]_vars => ConfiguredIsServed'
  <2> SUFFICES ASSUME IndInv, ConfiguredIsServed, [Next]_vars PROVE ConfiguredIsServed'
    OBVIOUS
  <2>1. CASE Serving /\ reply' # NoReply /\ cfg' = cfg /\ reply' # reply
    <3> SUFFICES ASSUME NEW d \in DOMAIN cfg.routes, Lower(reply'.name) \in Bare(Lower(d))
                 PROVE  /\ reply'.via = "proxy" => reply'.page = 0
                        /\ reply'.via = "dns" /\ reply'.opcode = "query" =>
                              reply'.rcode = "NOERROR" /\ (reply'.answered <=> reply'.type = "A")
      BY <2>1 DEF ConfiguredIsServed
    <3>1. d \in Seq(Chars) /\ IsRouteName(Lower(d)) /\ Lower(d) \in DOMAIN table
      BY <2>1 DEF IndInv, FileIsValid, TableIsFiles, Serving
    <3>2. MatchesTLD(Lower(d)) /\ Resolves(Lower(d))
      BY <3>1 DEF IsRouteName, MatchesTLD, Resolves
    <3>3. Lower(d) # <<>>
      BY <3>1, LowerIsString DEF IsRouteName, UnderLocalhost
    <3>4. ASSUME NEW s \in Seq(Chars), Lower(s) \in Bare(Lower(d))
          PROVE  NormalizeHost(s) = Lower(d)
      BY <3>1, <3>4, LowerIsString, BareIsServed
    <3>5. CASE \E h \in Hosts : ServeHTTP(h)
      <4>1. PICK h \in Hosts : ServeHTTP(h)
        BY <3>5
      <4>2. NormalizeHost(h) = Lower(d)
        BY <4>1, <3>4, NamesAreStrings DEF ServeHTTP
      <4> QED BY <4>1, <4>2, <3>2, <3>3 DEF ServeHTTP
    <3>6. CASE \E q \in Questions, opcode \in Opcodes, type \in Types : HandleRequest(q, opcode, type)
      <4>1. PICK q \in Questions, opcode \in Opcodes, type \in Types : HandleRequest(q, opcode, type)
        BY <3>6
      <4>2. NormalizeHost(q) = Lower(d)
        BY <4>1, <3>4, NamesAreStrings DEF HandleRequest
      <4> QED BY <4>1, <4>2, <3>2 DEF HandleRequest
    <3> QED BY <2>1, <3>5, <3>6 DEF Next, vars, LoadConfig, AddRoute, Answered
  <2>2. CASE reply' = NoReply
    BY <2>2 DEF ConfiguredIsServed
  <2>3. CASE reply' = reply /\ cfg' = cfg
    BY <2>3 DEF ConfiguredIsServed
  <2> QED BY <2>1, <2>2, <2>3
          DEF IndInv, Next, vars, LoadConfig, AddRoute, ServeHTTP, HandleRequest, Answered, Serving
<1> QED BY <1>1, <1>2, IndInvHolds, PTL DEF Spec

-----------------------------------------------------------------------------
\* In every run of `up` a route has the port of the domain that sorts last among
\* those that are written like it.
THEOREM TableIsSorted == Spec => []TableIsInOrder
<1>1. Init => TableIsInOrder
  BY DEF Init, TableIsInOrder
<1>2. IndInv /\ TableIsInOrder /\ [Next]_vars => TableIsInOrder'
  <2> SUFFICES ASSUME IndInv, TableIsInOrder, [Next]_vars PROVE TableIsInOrder'
    OBVIOUS
  <2>1. CASE LoadConfig
    <3>1. DOMAIN table' = {}
      BY <2>1 DEF LoadConfig, IndInv, TableIsFiles
    <3>2. CASE loaded' = "refused"
      BY <3>2 DEF TableIsInOrder
    <3>3. CASE cfg' = ApplyDefaults(cfg) /\ pending' = DOMAIN cfg.routes
      <4>1. cfg'.routes = cfg.routes
        BY <2>1, <3>3, NamesAreStrings DEF LoadConfig, ApplyDefaults, IndInv, FileIsValid
      <4> QED BY <3>1, <3>3, <4>1 DEF TableIsInOrder
    <3> QED BY <2>1, <3>2, <3>3 DEF LoadConfig
  <2>2. CASE AddRoute
    <3>1. PICK d \in pending :
            /\ \A e \in pending \ {d} : Before(d, e)
            /\ IF NormalizeHost(d) = <<>>
                 THEN loaded' = "refused" /\ UNCHANGED <<pending, table>>
                 ELSE /\ table' = Put(table, NormalizeHost(d), cfg.routes[d])
                      /\ pending' = pending \ {d} /\ UNCHANGED loaded
      BY <2>2 DEF AddRoute
    <3>2. loaded = "loaded" /\ cfg' = cfg /\ pending \subseteq DOMAIN cfg.routes
      BY <2>2 DEF AddRoute, IndInv, TypeOK
    <3>3. d \in Seq(Chars) /\ NormalizeHost(d) = Lower(d)
      BY <3>1, <3>2, NormalizesToLower DEF IndInv, FileIsValid
    <3>4. CASE loaded' = "refused"
      BY <3>4 DEF TableIsInOrder
    <3>5. CASE table' = Put(table, Lower(d), cfg.routes[d]) /\ pending' = pending \ {d}
      <4> DEFINE added == DOMAIN cfg.routes \ pending
      <4>1. DOMAIN cfg'.routes \ pending' = added \cup {d}
        BY <3>1, <3>2, <3>5
      <4>2. /\ DOMAIN table' = DOMAIN table \cup {Lower(d)}
            /\ table'[Lower(d)] = cfg.routes[d]
            /\ \A n \in DOMAIN table \ {Lower(d)} : table'[n] = table[n]
        BY <3>5 DEF Put
      <4>3. \A e \in added, p \in pending : Before(e, p)
        BY <3>2 DEF TableIsInOrder
      <4>4. \A e \in added \cup {d}, p \in pending' : Before(e, p)
        BY <3>1, <3>5, <4>3
      <4>5. ASSUME NEW n \in DOMAIN table'
            PROVE  \E c \in added \cup {d} :
                      /\ Lower(c) = n /\ table'[n] = cfg.routes[c]
                      /\ \A e \in (added \cup {d}) \ {c} : Lower(e) = n => Before(e, c)
        <5>1. CASE n = Lower(d)
          BY <3>1, <4>2, <4>3, <5>1
        <5>2. CASE n # Lower(d)
          <6>1. PICK c \in added : /\ Lower(c) = n /\ table[n] = cfg.routes[c]
                                   /\ \A e \in added \ {c} : Lower(e) = n => Before(e, c)
            BY <3>2, <4>2, <5>2 DEF TableIsInOrder
          <6> QED BY <4>2, <5>2, <6>1
        <5> QED BY <5>1, <5>2
      <4> QED BY <3>2, <4>1, <4>4, <4>5 DEF TableIsInOrder
    <3> QED BY <3>1, <3>3, <3>4, <3>5
  <2>3. CASE UNCHANGED <<loaded, cfg, pending, table>>
    BY <2>3 DEF TableIsInOrder
  <2> QED BY <2>1, <2>2, <2>3 DEF Next, vars, ServeHTTP, HandleRequest, Answered
<1> QED BY <1>1, <1>2, IndInvHolds, PTL DEF Spec

\* While a domain is still to be added, one of them is the next in order: the loop
\* of `up` always comes to its end.
THEOREM LoopNeverSticks == Spec => []LoopHasNext
<1> DEFINE Finite == IsFiniteSet(DOMAIN cfg.routes)
<1>1. Init => Finite
  BY NamesAreStrings DEF Init
<1>2. IndInv /\ Finite /\ [Next]_vars => Finite'
  <2> SUFFICES ASSUME IndInv, Finite, [Next]_vars PROVE DOMAIN cfg'.routes = DOMAIN cfg.routes
    OBVIOUS
  <2>1. CASE LoadConfig
    <3>1. ApplyDefaults(cfg).routes = cfg.routes
      BY <2>1, NamesAreStrings DEF LoadConfig, ApplyDefaults, IndInv, FileIsValid
    <3> QED BY <2>1, <3>1 DEF LoadConfig
  <2>2. CASE cfg' = cfg
    BY <2>2
  <2> QED BY <2>1, <2>2 DEF Next, vars, AddRoute, ServeHTTP, HandleRequest, Answered
<1>3. IndInv /\ Finite => LoopHasNext
  <2> SUFFICES ASSUME IndInv, Finite, loaded = "loaded", pending # {}
               PROVE  \E d \in pending : \A e \in pending \ {d} : Before(d, e)
    BY DEF LoopHasNext
  <2>1. pending \subseteq DOMAIN cfg.routes /\ pending \subseteq Seq(Chars)
    BY DEF IndInv, TypeOK, FileIsValid
  <2>2. IsFiniteSet(pending)
    BY <2>1, FS_Subset
  <2> QED BY <2>1, <2>2, FirstExists
<1> QED BY <1>1, <1>2, <1>3, IndInvHolds, PTL DEF Spec

\* When the table is complete, its port for a configured domain is that of the
\* last of the domains written like it.
LEMMA PortOfLast ==
    ASSUME IndInv, TableIsInOrder, Serving, NEW d \in DOMAIN cfg.routes
    PROVE  Lower(d) \in DOMAIN table /\ table[Lower(d)] = cfg.routes[Last(SameDomain(d))]
<1>1. /\ Lower(d) \in DOMAIN table
      /\ \A e \in DOMAIN cfg.routes : e \in Seq(Chars)
  BY DEF IndInv, FileIsValid, TableIsFiles, Serving
<1>2. PICK c \in DOMAIN cfg.routes :
        /\ Lower(c) = Lower(d) /\ table[Lower(d)] = cfg.routes[c]
        /\ \A e \in DOMAIN cfg.routes \ {c} : Lower(e) = Lower(d) => Before(e, c)
  BY <1>1 DEF TableIsInOrder, Serving
<1> DEFINE S == SameDomain(d)
<1>3. c \in S /\ \A e \in S \ {c} : Before(e, c)
  BY <1>2 DEF SameDomain
<1>4. S \subseteq Seq(Chars)
  BY <1>1 DEF SameDomain
<1> HIDE DEF S
<1>5. Last(S) \in S /\ \A e \in S \ {Last(S)} : Before(e, Last(S))
  BY <1>3 DEF Last
<1>6. Last(S) = c
  <2>1. ASSUME Last(S) # c PROVE Before(Last(S), c) /\ Before(c, Last(S))
    BY <1>3, <1>5, <2>1
  <2> QED BY <1>3, <1>4, <1>5, <2>1, BeforeIsAsymmetric
<1> QED BY <1>1, <1>2, <1>6 DEF S

\* The names that resolve are those of the configured domains, and a string is
\* normalised to one of them if and only if it is a spelling of it.
LEMMA ResolvesSpellings ==
    ASSUME IndInv, Serving, NEW h \in Seq(Chars)
    PROVE  /\ \A d \in DOMAIN cfg.routes : NormalizeHost(h) = Lower(d) <=> Spells(h, Lower(d))
           /\ Resolves(NormalizeHost(h)) <=> \E d \in DOMAIN cfg.routes : Spells(h, Lower(d))
           /\ Resolves(NormalizeHost(h)) => NormalizeHost(h) # <<>>
<1>1. \A d \in DOMAIN cfg.routes : Lower(d) \in Seq(Chars) /\ IsRouteName(Lower(d))
  BY LowerIsString DEF IndInv, FileIsValid, Serving
<1>2. \A d \in DOMAIN cfg.routes : NormalizeHost(h) = Lower(d) <=> Spells(h, Lower(d))
  BY <1>1, NormalizesSpellings
<1>3. DOMAIN table = {Lower(d) : d \in DOMAIN cfg.routes}
  BY DEF IndInv, TableIsFiles, Serving
<1>4. \A d \in DOMAIN cfg.routes : Lower(d) # <<>>
  BY <1>1 DEF IsRouteName, UnderLocalhost
<1> QED BY <1>2, <1>3, <1>4 DEF Resolves

\* The proxy forwards the spellings of configured domains, each to the port of
\* its domain, and no other Host header.
THEOREM SpellingsAreServed == Spec => []ProxyServesSpellings
<1>1. Init => ProxyServesSpellings
  BY DEF Init, ProxyServesSpellings, NoReply
<1>2. IndInv /\ TableIsInOrder /\ ProxyServesSpellings /\ [Next]_vars => ProxyServesSpellings'
  <2> SUFFICES ASSUME IndInv, TableIsInOrder, ProxyServesSpellings, [Next]_vars
               PROVE  ProxyServesSpellings'
    OBVIOUS
  <2>1. ASSUME NEW h \in Hosts, ServeHTTP(h) PROVE ProxyServesSpellings'
    <3> DEFINE host == NormalizeHost(h)
    <3>1. /\ Serving /\ cfg' = cfg /\ h \in Seq(Chars)
          /\ reply'.via = "proxy" /\ reply'.name = h
          /\ reply'.page = IF host = <<>> THEN 400 ELSE IF ~Resolves(host) THEN 404 ELSE 0
          /\ reply'.port = IF Resolves(host) THEN table[host] ELSE 0
      BY <2>1, NamesAreStrings DEF ServeHTTP
    <3>2. /\ \A d \in DOMAIN cfg.routes : host = Lower(d) <=> Spells(h, Lower(d))
          /\ Resolves(host) <=> \E d \in DOMAIN cfg.routes : Spells(h, Lower(d))
          /\ Resolves(host) => host # <<>>
      BY <3>1, ResolvesSpellings
    <3> HIDE DEF host
    <3>3. reply'.page = 0 <=> \E d \in DOMAIN cfg.routes : Spells(h, Lower(d))
      BY <3>1, <3>2
    <3>4. ASSUME NEW d \in DOMAIN cfg.routes, Spells(h, Lower(d))
          PROVE  reply'.port = cfg.routes[Last(SameDomain(d))]
      BY <3>1, <3>2, <3>4, PortOfLast
    <3>5. \A d : Last(SameDomain(d))' = Last(SameDomain(d))
      BY <3>1 DEF SameDomain
    <3> QED BY <3>1, <3>3, <3>4, <3>5 DEF ProxyServesSpellings
  <2>2. CASE reply'.via # "proxy"
    BY <2>2 DEF ProxyServesSpellings
  <2>3. CASE reply' = reply /\ cfg' = cfg
    BY <2>3 DEF ProxyServesSpellings, SameDomain
  <2>4. CASE \E h \in Hosts : ServeHTTP(h)
    BY <2>1, <2>4
  <2>5. \/ reply' = reply /\ (cfg' = cfg \/ reply = NoReply)
        \/ reply'.via # "proxy"
        \/ \E h \in Hosts : ServeHTTP(h)
    BY DEF IndInv, Next, vars, LoadConfig, AddRoute, HandleRequest, Answered, Serving, NoReply
  <2> QED BY <2>2, <2>3, <2>4, <2>5 DEF NoReply
<1> QED BY <1>1, <1>2, IndInvHolds, TableIsSorted, PTL DEF Spec

\* The DNS server answers no question for a name that means no configured domain.
THEOREM UnknownAreRefused == Spec => []UnknownIsNxdomain
<1>1. Init => UnknownIsNxdomain
  BY DEF Init, UnknownIsNxdomain, NoReply
<1>2. IndInv /\ UnknownIsNxdomain /\ [Next]_vars => UnknownIsNxdomain'
  <2> SUFFICES ASSUME IndInv, UnknownIsNxdomain, [Next]_vars PROVE UnknownIsNxdomain'
    OBVIOUS
  <2>1. ASSUME NEW q \in Questions, NEW opcode \in Opcodes, NEW type \in Types,
               HandleRequest(q, opcode, type)
        PROVE  UnknownIsNxdomain'
    <3>1. /\ Serving /\ cfg' = cfg /\ q \in Seq(Chars)
      BY <2>1, NamesAreStrings DEF HandleRequest
    <3>2. Resolves(NormalizeHost(q)) <=> \E d \in DOMAIN cfg.routes : Spells(q, Lower(d))
      BY <3>1, ResolvesSpellings
    <3> QED BY <2>1, <3>1, <3>2 DEF HandleRequest, UnknownIsNxdomain
  <2>2. CASE reply'.via # "dns"
    BY <2>2 DEF UnknownIsNxdomain
  <2>3. CASE reply' = reply /\ cfg' = cfg
    BY <2>3 DEF UnknownIsNxdomain
  <2>4. \/ \E q \in Questions, opcode \in Opcodes, type \in Types : HandleRequest(q, opcode, type)
        \/ reply'.via # "dns"
        \/ reply' = reply /\ (cfg' = cfg \/ reply = NoReply)
    BY DEF IndInv, Next, vars, LoadConfig, AddRoute, ServeHTTP, Answered, Serving, NoReply
  <2> QED BY <2>1, <2>2, <2>3, <2>4 DEF NoReply
<1> QED BY <1>1, <1>2, IndInvHolds, PTL DEF Spec
=============================================================================
