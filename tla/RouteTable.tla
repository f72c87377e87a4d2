----------------------------- MODULE RouteTable -----------------------------
(***************************************************************************)
(* From devtether.yaml to an answer: `up` loads and validates the file     *)
(* (internal/config), registers its routes (cli/up.go, internal/router),   *)
(* and then the proxy looks up Host headers and the DNS server looks up    *)
(* questions.  All of them go through netutil.NormalizeHost, and the       *)
(* validation is what keeps its result the same everywhere.                *)
(*                                                                         *)
(* A string is a sequence of characters; the word "localhost" is one       *)
(* character of it, as nothing in the code looks inside it.                *)
(***************************************************************************)
EXTENDS Integers, Sequences, FiniteSets

CONSTANTS
    Chars,      \* the characters of host names, headers and questions
    Alnum,      \* [a-z0-9], and the word "localhost"
    LowerOf,    \* strings.ToLower, by the character
    Rank,       \* the order of characters that sort.Strings uses
    MaxLabel,   \* characters in a label: 63 in the code
    Configs,    \* the contents of the file
    Hosts,      \* Host headers
    Questions,  \* names in DNS questions, each ends with a dot
    Durations   \* the strings time.ParseDuration accepts

Special == {".", ":", "[", "]", "-"}

ASSUME AlphabetIsSound ==
    /\ Special \cup {"localhost"} \subseteq Chars
    /\ Alnum \subseteq Chars \ Special /\ "localhost" \in Alnum
    /\ LowerOf \in [Chars -> Chars]
    /\ \A c \in Chars : LowerOf[LowerOf[c]] = LowerOf[c]
    /\ \A c \in Chars : c \in Special \/ LowerOf[c] \in Special => LowerOf[c] = c
    /\ Rank \in [Chars -> Int] /\ \A c, d \in Chars : Rank[c] = Rank[d] => c = d
    /\ MaxLabel \in Nat \ {0}
ASSUME NamesAreStrings ==
    /\ Hosts \subseteq Seq(Chars) /\ Questions \subseteq Seq(Chars)
    /\ \A f \in Configs :
          /\ f = [parses |-> f.parses, routes |-> f.routes, port |-> f.port,
                  idle |-> f.idle, engines |-> f.engines]
          /\ DOMAIN f.routes \subseteq Seq(Chars) /\ IsFiniteSet(DOMAIN f.routes)

VARIABLES
    loaded,   \* "file", then "loaded", or "refused" when `up` has given up
    cfg,      \* the Config
    pending,  \* the domains that the loop over the sorted routes has still to add
    table,    \* Engine.routes: normalised domain -> port
    reply     \* the last answer of the proxy or the DNS server

vars == <<loaded, cfg, pending, table, reply>>

Serving == loaded = "loaded" /\ pending = {}

-----------------------------------------------------------------------------
(* netutil *)

Has(s, c) == \E i \in DOMAIN s : s[i] = c
Lower(s) == [i \in DOMAIN s |-> LowerOf[s[i]]]

LastColon(s) == CHOOSE i \in DOMAIN s :
    s[i] = ":" /\ \A j \in DOMAIN s : s[j] = ":" => j <= i
FirstClose(s) == CHOOSE i \in DOMAIN s :
    s[i] = "]" /\ \A j \in DOMAIN s : s[j] = "]" => i <= j

Brackets(s) == {i \in DOMAIN s : s[i] \in {"[", "]"}}

\* net.SplitHostPort. "tolerated" stands for the two errors that NormalizeHost
\* accepts: a missing port, and too many colons.
SplitHostPort(s) ==
    LET tolerated == [err |-> "tolerated", host |-> s]
        malformed == [err |-> "malformed", host |-> s]
        Split(host, own) == IF Brackets(s) = own THEN [err |-> "none", host |-> host]
                                                 ELSE malformed
        last == LastColon(s)
    IN IF ~Has(s, ":") THEN tolerated
       ELSE IF s[1] # "["
         THEN IF Has(SubSeq(s, 1, last - 1), ":") THEN tolerated
              ELSE Split(SubSeq(s, 1, last - 1), {})
       ELSE IF ~Has(s, "]") THEN malformed
       ELSE IF FirstClose(s) # last - 1 THEN tolerated
       ELSE Split(SubSeq(s, 2, last - 2), {1, last - 1})

\* The steps of NormalizeHost, in its order.
StripBrackets(s) ==
    IF Len(s) > 0 /\ s[1] = "[" /\ s[Len(s)] = "]" THEN SubSeq(s, 2, Len(s) - 1) ELSE s
StripPort(s) == LET split == SplitHostPort(s) IN
    IF split.err = "malformed" THEN <<>> ELSE split.host
StripDot(s) == IF Len(s) > 0 /\ s[Len(s)] = "." THEN SubSeq(s, 1, Len(s) - 1) ELSE s

NormalizeHost(host) == Lower(StripDot(StripPort(StripBrackets(host))))

-----------------------------------------------------------------------------
(* config *)

UnderLocalhost(s) == Len(s) > 1 /\ s[Len(s)] = "localhost" /\ s[Len(s) - 1] = "."

\* Defect: any top-level domain passes.
IsAnyName(s) == Len(s) > 0 /\ \A i \in DOMAIN s : s[i] \in Alnum \cup {"-", "."}

\* localhostRouteName: between two dots that follow each other, or the start
\* and a dot, is a label.
IsLabel(s) == Len(s) \in 1..MaxLabel /\ s[1] \in Alnum /\ s[Len(s)] \in Alnum
IsRouteName(s) ==
    /\ UnderLocalhost(s)
    /\ \A i \in DOMAIN s : s[i] \in Alnum \cup {"-", "."}
    /\ LET cuts == {0} \cup {i \in DOMAIN s : s[i] = "."} IN
       \A i, j \in cuts : i < j /\ (\A k \in cuts : ~(i < k /\ k < j))
                            => IsLabel(SubSeq(s, i + 1, j - 1))

Ports == 1..65535

\* Defect: port 0 passes.
ValidPortOrZero(p) == p \in {0} \cup Ports

ValidPort(p) == p \in Ports

ValidRoutes(f) == \A d \in DOMAIN f.routes : IsRouteName(Lower(d)) /\ ValidPort(f.routes[d])

\* applyDefaults: what a file leaves out.
ApplyDefaults(f) ==
    [f EXCEPT !.port = IF @ = 0 THEN 80 ELSE @, !.idle = IF @ = "" THEN "2m0s" ELSE @]

\* validate: routes, engines that are not there yet, proxy.
Valid(f) == ValidRoutes(f) /\ f.engines = {} /\ ValidPort(f.port) /\ f.idle \in Durations

-----------------------------------------------------------------------------
(* The start of `up` *)

NoReply == [via |-> "none"]

Init == /\ loaded = "file"
        /\ cfg \in Configs
        /\ pending = {}
        /\ table = << >>
        /\ reply = NoReply

\* LoadConfig: the legacy schema and a file that does not parse are refused
\* first, then defaults, then validation.
LoadConfig ==
    /\ loaded = "file"
    /\ LET full == ApplyDefaults(cfg) IN
       IF cfg.parses /\ Valid(full)
         THEN loaded' = "loaded" /\ cfg' = full /\ pending' = DOMAIN cfg.routes
         ELSE loaded' = "refused" /\ UNCHANGED <<cfg, pending>>
    /\ UNCHANGED <<table, reply>>

\* s sorts before t.
Before(s, t) ==
    \/ Len(s) < Len(t) /\ s = SubSeq(t, 1, Len(s))
    \/ \E i \in DOMAIN s \cap DOMAIN t :
          /\ SubSeq(s, 1, i - 1) = SubSeq(t, 1, i - 1)
          /\ Rank[s[i]] < Rank[t[i]]

Put(f, k, v) == [x \in DOMAIN f \cup {k} |-> IF x = k THEN v ELSE f[x]]

\* Defect: the loop ranges over the map, in any order.
AddRouteUnsorted ==
    /\ loaded = "loaded"
    /\ \E d \in pending :
          /\ table' = Put(table, NormalizeHost(d), cfg.routes[d])
          /\ pending' = pending \ {d}
    /\ UNCHANGED <<loaded, cfg, reply>>

\* Defect: a domain is registered as it is written.
AddRouteAsWritten ==
    /\ loaded = "loaded"
    /\ \E d \in pending :
          /\ \A e \in pending \ {d} : Before(d, e)
          /\ table' = Put(table, d, cfg.routes[d])
          /\ pending' = pending \ {d}
    /\ UNCHANGED <<loaded, cfg, reply>>

\* Engine.AddRoute for the next of the sorted domains; a domain that comes out
\* empty ends `up`.
AddRoute ==
    /\ loaded = "loaded"
    /\ \E d \in pending :
          /\ \A e \in pending \ {d} : Before(d, e)
          /\ LET domain == NormalizeHost(d) IN
             IF domain = <<>>
               THEN loaded' = "refused" /\ UNCHANGED <<pending, table>>
               ELSE /\ table' = Put(table, domain, cfg.routes[d])
                    /\ pending' = pending \ {d}
                    /\ UNCHANGED loaded
    /\ UNCHANGED <<cfg, reply>>

-----------------------------------------------------------------------------
(* The servers. Nothing changes the table any more. *)

\* Engine.Resolve takes the name as it is given.
Resolves(name) == name \in DOMAIN table

\* Handler.ServeHTTP: a page, or the port of the target.
ServeHTTP(h) ==
    /\ Serving /\ reply = NoReply
    /\ LET host == NormalizeHost(h) IN
       reply' = [via |-> "proxy", name |-> h,
                 page |-> IF host = <<>> THEN 400 ELSE IF ~Resolves(host) THEN 404 ELSE 0,
                 port |-> IF Resolves(host) THEN table[host] ELSE 0]
    /\ UNCHANGED <<loaded, cfg, pending, table>>

MatchesTLD(name) == UnderLocalhost(name) \/ name = <<"localhost">>

\* Defect: the type of the question is looked at before its name.
HandleRequestTypeFirst(q, opcode, type) ==
    /\ Serving /\ reply = NoReply
    /\ LET name    == NormalizeHost(q)
           matched == opcode = "query" /\ type = "A" /\ MatchesTLD(name) /\ Resolves(name)
       IN reply' = [via |-> "dns", name |-> q, opcode |-> opcode, type |-> type,
                    rcode |-> IF opcode = "query" /\ ~matched THEN "NXDOMAIN" ELSE "NOERROR",
                    answered |-> matched]
    /\ UNCHANGED <<loaded, cfg, pending, table>>

\* Defect: every name under .localhost is answered.
HandleRequestAnyRoute(q, opcode, type) ==
    /\ Serving /\ reply = NoReply
    /\ LET matched == opcode = "query" /\ MatchesTLD(NormalizeHost(q))
       IN reply' = [via |-> "dns", name |-> q, opcode |-> opcode, type |-> type,
                    rcode |-> IF opcode = "query" /\ ~matched THEN "NXDOMAIN" ELSE "NOERROR",
                    answered |-> matched /\ type = "A"]
    /\ UNCHANGED <<loaded, cfg, pending, table>>

\* handleRequest. The library passes messages with one question, and SetReply
\* keeps one, so the loop over the questions runs once.
HandleRequest(q, opcode, type) ==
    /\ Serving /\ reply = NoReply
    /\ LET name    == NormalizeHost(q)
           matched == opcode = "query" /\ MatchesTLD(name) /\ Resolves(name)
       IN reply' = [via |-> "dns", name |-> q, opcode |-> opcode, type |-> type,
                    rcode |-> IF opcode = "query" /\ ~matched THEN "NXDOMAIN" ELSE "NOERROR",
                    answered |-> matched /\ type = "A"]
    /\ UNCHANGED <<loaded, cfg, pending, table>>

\* The answer has gone out: the next request finds the servers as this one did.
Answered == reply # NoReply /\ reply' = NoReply /\ UNCHANGED <<loaded, cfg, pending, table>>

Opcodes == {"query", "notify"}
Types == {"A", "AAAA"}

Next == \/ LoadConfig \/ AddRoute \/ Answered
        \/ \E h \in Hosts : ServeHTTP(h)
        \/ \E q \in Questions, opcode \in Opcodes, type \in Types : HandleRequest(q, opcode, type)

Spec == Init /\ [][Next]_vars

-----------------------------------------------------------------------------
(* Properties *)

Replies == {NoReply}
    \cup [via : {"proxy"}, name : Hosts, page : {0, 400, 404}, port : {0} \cup Ports]
    \cup [via : {"dns"}, name : Questions, opcode : Opcodes, type : Types,
          rcode : {"NOERROR", "NXDOMAIN"}, answered : BOOLEAN]

\* A loaded configuration has a port to bind and a duration to parse, and only
\* ports that a backend can have get into the table.
TypeOK ==
    /\ loaded \in {"file", "loaded", "refused"}
    /\ loaded = "loaded" => cfg.port \in Ports /\ cfg.idle \in Durations
    /\ pending \subseteq DOMAIN cfg.routes
    /\ \A n \in DOMAIN table : n \in Seq(Chars) /\ table[n] \in Ports
    /\ reply \in Replies

\* Every label has at most MaxLabel characters, and none is empty or has a hyphen
\* at an end.
LabelsAreLegal(n) ==
    /\ \A i \in DOMAIN n : i + MaxLabel \in DOMAIN n => \E k \in i .. i + MaxLabel : n[k] = "."
    /\ \A i \in DOMAIN n : n[i] \in {".", "-"} =>
          {i - 1, i + 1} \subseteq DOMAIN n /\ n[i - 1] # "." /\ n[i + 1] # "."

\* Resolve does not normalise, so a route is lost unless its key is a name that
\* NormalizeHost can return; no question has a label that is longer than DNS
\* allows; and the DNS server looks up no name outside the domain .localhost.
\* "a typo cannot register a route the DNS engine would never answer for"
\* (config.go:170-175, which also keeps hyphens from the ends of labels).
KeysAreReachable ==
    \A n \in DOMAIN table : /\ NormalizeHost(n) = n
                            /\ NormalizeHost(Append(n, ".")) = n
                            /\ MatchesTLD(n)
                            /\ LabelsAreLegal(n)

\* What makes it so: a loaded file is valid, and the table holds the lower-case
\* form of every domain that was added, with a port of the file, and nothing else.
FileIsValid ==
    /\ loaded = "file" => cfg \in Configs
    /\ loaded = "loaded" => \A d \in DOMAIN cfg.routes :
          d \in Seq(Chars) /\ IsRouteName(Lower(d)) /\ ValidPort(cfg.routes[d])
TableIsFiles ==
    /\ \A n \in DOMAIN table :
          /\ n \in Seq(Chars) /\ IsRouteName(n) /\ Lower(n) = n
          /\ \E d \in DOMAIN cfg.routes : n = Lower(d) /\ table[n] = cfg.routes[d]
    /\ loaded = "file" => DOMAIN table = {}
    /\ loaded = "loaded" => \A d \in DOMAIN cfg.routes \ pending : Lower(d) \in DOMAIN table
IndInv == TypeOK /\ FileIsValid /\ TableIsFiles /\ (reply # NoReply => Serving)

\* The grammar of the Host headers that mean the domain n: bare or fully
\* qualified, in brackets or not, with a port or not, in either letter case.
Bare(n) == {n, Append(n, ".")}
Bracketed(s) == <<"[">> \o s \o <<"]">>
Spelled(n) == Bare(n) \cup {Bracketed(b) : b \in Bare(n)}
WithPort(h, n) ==
    \E i \in DOMAIN h : /\ h[i] = ":" /\ SubSeq(h, 1, i - 1) \in Spelled(n)
                        /\ \A j \in i + 1 .. Len(h) : h[j] \notin {":", "[", "]"}
Spells(h, n) ==
    LET l == Lower(h) IN
    \/ l \in Spelled(n) \/ WithPort(l, n)
    \/ Len(l) > 1 /\ l = Bracketed(SubSeq(l, 2, Len(l) - 1)) /\ WithPort(SubSeq(l, 2, Len(l) - 1), n)

\* The domains of the file that differ from d in the letter case only, and the
\* one of them that is sorted last.
SameDomain(d) == {e \in DOMAIN cfg.routes : Lower(e) = Lower(d)}
Last(S) == CHOOSE d \in S : \A e \in S \ {d} : Before(e, d)

\* What makes it the last one: the loop has added the domains that sort before
\* those it has still to add, and a route has the port of the last of its
\* domains that was added.
TableIsInOrder ==
    loaded = "loaded" =>
        LET added == DOMAIN cfg.routes \ pending IN
        /\ \A e \in added, p \in pending : Before(e, p)
        /\ \A n \in DOMAIN table : \E d \in added :
              /\ Lower(d) = n /\ table[n] = cfg.routes[d]
              /\ \A e \in added \ {d} : Lower(e) = n => Before(e, d)

\* The loop over the sorted domains has a next one until it has had all.
LoopHasNext ==
    loaded = "loaded" /\ pending # {} =>
        \E d \in pending : \A e \in pending \ {d} : Before(d, e)

\* The proxy forwards exactly the spellings of configured domains (ADR-007),
\* each to the port of its domain.  Domains that differ in their letter case are
\* one route, with the port of the one sorted last, in every run of `up`.
ProxyServesSpellings ==
    reply.via = "proxy" =>
        /\ reply.page = 0 <=> \E d \in DOMAIN cfg.routes : Spells(reply.name, Lower(d))
        /\ \A d \in DOMAIN cfg.routes :
              Spells(reply.name, Lower(d)) => reply.port = cfg.routes[Last(SameDomain(d))]

\* Both engines serve every configured domain, in any letter case and with the
\* dot of a fully qualified name or without ("inconsistencies emerged rapidly",
\* ADR-007): the proxy forwards, the DNS server answers with an address, or with
\* no data for another type of record.  So say ADR-002's table and
\* TestNonARecordQuery; the comment on handleRequest says NXDOMAIN for the latter.
ConfiguredIsServed ==
    reply # NoReply =>
        \A d \in DOMAIN cfg.routes : Lower(reply.name) \in Bare(Lower(d)) =>
            /\ reply.via = "proxy" => reply.page = 0
            /\ reply.via = "dns" /\ reply.opcode = "query" =>
                  reply.rcode = "NOERROR" /\ (reply.answered <=> reply.type = "A")

\* A question for a name that means no configured domain gets NXDOMAIN (ADR-002).
\* This leaves open the spellings that only a Host header should have: a
\* question for "app.localhost:80." is answered like one for "app.localhost.",
\* since NormalizeHost serves both engines.
UnknownIsNxdomain ==
    reply.via = "dns" /\ reply.opcode = "query"
    /\ (\A d \in DOMAIN cfg.routes : ~Spells(reply.name, Lower(d)))
        => reply.rcode = "NXDOMAIN" /\ ~reply.answered
=============================================================================
