------------------------ MODULE ProxyRequest_proofs ------------------------
(***************************************************************************)
(* Proofs about ProxyRequest, for any number of connections, any routing   *)
(* table, any limit of the throttle cache and any cooldown: what a client  *)
(* gets is what the backend sent or an error page, and never a mixture.    *)
(***************************************************************************)
EXTENDS ProxyRequest, FiniteSetTheorems, TLAPS

-----------------------------------------------------------------------------
(* The inductive invariant *)

\* Nothing but informational headers has been sent.
Untouched(r) ==
    /\ target[r] \in Ports /\ answer[r] = 0
    /\ resp[r].body = {} /\ resp[r].status = 0 /\ resp[r].end = "open"
    /\ resp[r].wrote => resp[r].info

\* The backend's answer is on its way, or has panicked in its body.
Copied(r) ==
    /\ answer[r] \in BackendCodes
    /\ resp[r].body \subseteq {"backend"} /\ resp[r].wrote /\ resp[r].end = "open"
    /\ ~resp[r].info => resp[r].status = answer[r] /\ resp[r].code = answer[r]

Tunnelled(r) ==
    /\ answer[r] = 0 /\ resp[r].body = {} /\ resp[r].end = "open"
    /\ resp[r].status = SwitchingProtocols

PageIsAlone(r) ==
    "page" \in resp[r].body => resp[r].body = {"page"} /\ resp[r].status \in PageCodes

\* The handler is about to return: what the properties need before net/http
\* ends the response.
Sent(r) ==
    /\ resp[r].end = "open" /\ PageIsAlone(r)
    /\ answer[r] # 0 /\ ~gone[r] => whole[r]
    /\ ~resp[r].info /\ ~gone[r] /\ resp[r].status # SwitchingProtocols
         => /\ resp[r].status # 0 /\ resp[r].code = resp[r].status
            /\ answer[r] # 0 => resp[r].status = answer[r]

\* What the properties say of one request that has ended.
Ended(r) ==
    /\ PageIsAlone(r)
    /\ resp[r].end = "cut" => "page" \notin resp[r].body
    /\ resp[r].end = "complete" /\ answer[r] # 0 /\ ~gone[r] => whole[r]
    /\ resp[r].end = "complete" /\ ~resp[r].info /\ ~gone[r]
         /\ resp[r].status # SwitchingProtocols
         => /\ line[r] = resp[r].status
            /\ answer[r] # 0 => resp[r].status = answer[r]

Served(r) ==
    /\ phase[r] = "idle" => resp[r].body = {} /\ resp[r].end = "open"
    /\ phase[r] \in {"trip", "error", "throttle", "page"} => Untouched(r)
    /\ phase[r] \in {"throttle", "page"} => ~resp[r].wrote
    /\ phase[r] = "copy" => Copied(r)
    /\ phase[r] = "tunnel" => Tunnelled(r)
    /\ phase[r] = "panic" => resp[r].body \subseteq {"backend"} /\ resp[r].end = "open"
    /\ phase[r] = "return" => Sent(r)
    /\ phase[r] = "done" => Ended(r)

\* An entry of the cache is the time of the target's last line; a target that
\* had a line and has no entry was evicted, so the cache was full and stays so
\* but for one entry.
CacheIsRecent ==
    /\ IsFiniteSet(DOMAIN cache) /\ Cardinality(DOMAIN cache) <= LogCacheLimit
    /\ \A p \in DOMAIN cache : cache[p] = lastLine[p]
    /\ \A p \in Ports \ DOMAIN cache :
          lastLine[p] = -Cooldown \/ Cardinality(DOMAIN cache) >= LogCacheLimit - 1

IndInv ==
    /\ TypeOK
    /\ \A r \in Requests : Served(r)
    /\ CacheIsRecent

-----------------------------------------------------------------------------
(* The response writer *)

LEMMA CodesAreCodes ==
    /\ 0 \notin Codes /\ EarlyHints \in Codes /\ SwitchingProtocols \in Codes /\ 200 \in Codes
    /\ BackendCodes \subseteq Codes /\ PageCodes \subseteq Codes
    /\ EarlyHints \notin BackendCodes \cup PageCodes \cup {200}
    /\ SwitchingProtocols \notin BackendCodes \cup PageCodes \cup {200}
    /\ EarlyHints # SwitchingProtocols
  BY BackendCodesAreFinal DEF Codes, EarlyHints, SwitchingProtocols, PageCodes

\* What net/http makes of a header.
LEMMA SendHeaderFields ==
    ASSUME NEW w \in Response, NEW code \in Codes
    PROVE  /\ SendHeader(w, code) \in Response
           /\ SendHeader(w, code).wrote = w.wrote /\ SendHeader(w, code).code = w.code
           /\ SendHeader(w, code).body = w.body /\ SendHeader(w, code).end = w.end
           /\ code = EarlyHints => /\ SendHeader(w, code).info = TRUE
                                   /\ SendHeader(w, code).status = w.status
           /\ code # EarlyHints => /\ SendHeader(w, code).info = w.info
                                   /\ SendHeader(w, code).status = IF w.status = 0 THEN code ELSE w.status
  <1>1. CASE code = EarlyHints
    <2>1. SendHeader(w, code) = [w EXCEPT !.info = TRUE]
      BY <1>1 DEF SendHeader
    <2> QED BY <1>1, <2>1 DEF Response
  <1>2. CASE code # EarlyHints /\ w.status = 0
    <2>1. SendHeader(w, code) = [w EXCEPT !.status = code]
      BY <1>2 DEF SendHeader
    <2> QED BY <1>2, <2>1 DEF Response
  <1>3. CASE code # EarlyHints /\ w.status # 0
    <2>1. SendHeader(w, code) = w
      BY <1>3 DEF SendHeader
    <2> QED BY <1>3, <2>1
  <1> QED BY <1>1, <1>2, <1>3

\* The 200 that net/http sends for a handler that sends nothing.
LEMMA SendOkFields ==
    ASSUME NEW w \in Response
    PROVE  /\ SendHeader(w, 200) \in Response
           /\ SendHeader(w, 200).wrote = w.wrote /\ SendHeader(w, 200).code = w.code
           /\ SendHeader(w, 200).body = w.body /\ SendHeader(w, 200).end = w.end
           /\ SendHeader(w, 200).info = w.info
           /\ SendHeader(w, 200).status = IF w.status = 0 THEN 200 ELSE w.status
  <1>1. 200 \in Codes /\ 200 # EarlyHints
    BY CodesAreCodes
  <1>2. CASE w.status = 0
    <2>1. SendHeader(w, 200) = [w EXCEPT !.status = 200]
      BY <1>1, <1>2 DEF SendHeader
    <2> QED BY <1>1, <1>2, <2>1 DEF Response
  <1>3. CASE w.status # 0
    <2>1. SendHeader(w, 200) = w
      BY <1>1, <1>3 DEF SendHeader
    <2> QED BY <1>3, <2>1
  <1> QED BY <1>2, <1>3

\* A header that is the first: it is passed on and recorded.
LEMMA HeaderFields ==
    ASSUME NEW w \in Response, NEW code \in Codes, ~w.wrote
    PROVE  /\ Header(w, code) \in Response
           /\ Header(w, code).wrote = TRUE /\ Header(w, code).code = code
           /\ Header(w, code).body = w.body /\ Header(w, code).end = w.end
           /\ code = EarlyHints => /\ Header(w, code).info = TRUE
                                   /\ Header(w, code).status = w.status
           /\ code # EarlyHints => /\ Header(w, code).info = w.info
                                   /\ Header(w, code).status = IF w.status = 0 THEN code ELSE w.status
  <1> DEFINE v == SendHeader(w, code)
  <1>1. Header(w, code) = [v EXCEPT !.wrote = TRUE, !.code = code]
    BY DEF Header
  <1>2. /\ v \in Response /\ v.body = w.body /\ v.end = w.end
        /\ code = EarlyHints => v.info = TRUE /\ v.status = w.status
        /\ code # EarlyHints => v.info = w.info /\ v.status = IF w.status = 0 THEN code ELSE w.status
    BY SendHeaderFields
  <1> HIDE DEF v
  <1> QED BY <1>1, <1>2 DEF Response

\* A piece of body, behind a header that is recorded.
LEMMA BodyFields ==
    ASSUME NEW w \in Response, NEW source \in {"backend", "page"}, w.wrote
    PROVE  /\ Body(w, source) \in Response
           /\ Body(w, source).wrote /\ Body(w, source).code = w.code
           /\ Body(w, source).info = w.info /\ Body(w, source).end = w.end
           /\ Body(w, source).body = w.body \cup {source}
           /\ Body(w, source).status = IF w.status = 0 THEN 200 ELSE w.status
  <1> DEFINE v == SendHeader(w, 200)
  <1>1. Body(w, source) = [v EXCEPT !.body = @ \cup {source}]
    BY DEF Body, Header
  <1>2. /\ v \in Response /\ v.code = w.code /\ v.body = w.body /\ v.end = w.end
        /\ v.info = w.info /\ v.status = IF w.status = 0 THEN 200 ELSE w.status
    BY SendOkFields
  <1> HIDE DEF v
  <1>3. [v EXCEPT !.body = @ \cup {source}] \in Response
    BY <1>2 DEF Response
  <1>4. /\ Body(w, source).code = v.code
        /\ Body(w, source).info = v.info /\ Body(w, source).end = v.end
        /\ Body(w, source).body = v.body \cup {source} /\ Body(w, source).status = v.status
    BY <1>1, <1>2 DEF Response
  <1>5. v.wrote = w.wrote
    BY SendOkFields DEF v
  <1>6. Body(w, source).wrote
    BY <1>1, <1>2, <1>5 DEF Response
  <1> QED BY <1>1, <1>2, <1>3, <1>4, <1>6

\* An error page on a response that has not begun.
LEMMA PageFields ==
    ASSUME NEW w \in Response, NEW code \in PageCodes, ~w.wrote, w.status = 0
    PROVE  /\ Page(w, code) \in Response
           /\ Page(w, code).code = code /\ Page(w, code).status = code
           /\ Page(w, code).info = w.info /\ Page(w, code).end = w.end
           /\ Page(w, code).body = w.body \cup {"page"}
  <1> DEFINE v == Header(w, code)
  <1>1. /\ v \in Response /\ v.wrote = TRUE /\ v.code = code /\ v.body = w.body /\ v.end = w.end
        /\ v.info = w.info /\ v.status = code
    <2>1. code \in Codes /\ code # EarlyHints
      BY CodesAreCodes
    <2> QED BY <2>1, HeaderFields
  <1>2. Page(w, code) = Body(v, "page")
    BY DEF Page
  <1>3. v.status # 0
    BY <1>1, CodesAreCodes
  <1> HIDE DEF v
  <1> QED BY <1>1, <1>2, <1>3, BodyFields

\* The end of a response.
LEMMA FinishFields ==
    ASSUME NEW w \in Response
    PROVE  /\ Finish(w) \in Response
           /\ Finish(w).code = w.code /\ Finish(w).body = w.body /\ Finish(w).info = w.info
           /\ Finish(w).end = "complete" /\ Finish(w).status = IF w.status = 0 THEN 200 ELSE w.status
  <1> DEFINE v == SendHeader(w, 200)
  <1>1. Finish(w) = [v EXCEPT !.end = "complete"]
    BY DEF Finish
  <1>2. /\ v \in Response /\ v.code = w.code /\ v.body = w.body
        /\ v.info = w.info /\ v.status = IF w.status = 0 THEN 200 ELSE w.status
    BY SendOkFields
  <1> HIDE DEF v
  <1> QED BY <1>1, <1>2 DEF Response

-----------------------------------------------------------------------------
(* Preservation *)

LEMMA InitHolds == Init => IndInv
  <1> SUFFICES ASSUME Init PROVE IndInv
    OBVIOUS
  <1> USE DEF Init
  <1>1. Blank \in Response
    BY CodesAreCodes DEF Blank, Response
  <1>2. TypeOK
    <2>1. phase \in [Requests -> Phases]
      BY DEF Phases
    <2>2. resp \in [Requests -> Response]
      BY <1>1
    <2>3. lastLine \in [Ports -> (-Cooldown)..MaxTime]
      BY LimitsArePositive
    <2>4. 0 \in 0..MaxTime /\ upload \in [Requests -> BOOLEAN]
      BY LimitsArePositive
    <2> QED BY <2>1, <2>2, <2>3, <2>4 DEF TypeOK
  <1>3. \A r \in Requests : Served(r)
    BY DEF Served, Blank
  <1>4. CacheIsRecent
    <2>1. DOMAIN cache = {}
      OBVIOUS
    <2>2. IsFiniteSet(DOMAIN cache) /\ Cardinality(DOMAIN cache) = 0
      BY <2>1, FS_EmptySet
    <2> QED BY <2>1, <2>2, LimitsArePositive DEF CacheIsRecent
  <1> QED BY <1>2, <1>3, <1>4 DEF IndInv

\* A step of one request leaves the others as they are.
LEMMA OthersStay ==
    ASSUME \A q \in Requests : Served(q), NEW r \in Requests, Served(r)',
           \A q \in Requests \ {r} :
               /\ phase'[q] = phase[q] /\ target'[q] = target[q] /\ gone'[q] = gone[q]
               /\ answer'[q] = answer[q] /\ whole'[q] = whole[q]
               /\ resp'[q] = resp[q] /\ line'[q] = line[q]
    PROVE  \A q \in Requests : Served(q)'
  <1>1. ASSUME NEW q \in Requests \ {r} PROVE Served(q)'
    BY <1>1 DEF Served, Untouched, Copied, Tunnelled, PageIsAlone, Sent, Ended
  <1> QED BY <1>1

LEMMA CacheStays ==
    ASSUME CacheIsRecent, UNCHANGED <<cache, lastLine>>
    PROVE  CacheIsRecent'
  BY DEF CacheIsRecent

LEMMA ServeHTTPHolds ==
    ASSUME IndInv, NEW r \in Requests, NEW h \in Hosts \cup {NoHost}, ServeHTTP(r, h)
    PROVE  IndInv'
  <1> DEFINE port == Resolve(h)
             code == IF h = NoHost THEN 400 ELSE 404
  <1>1. port \in Ports \cup {NoPort}
    BY TableIsRouted DEF Resolve
  <1>2. Blank \in Response /\ ~Blank.wrote /\ Blank.status = 0 /\ Blank.body = {} /\ Blank.end = "open"
        /\ ~Blank.info
    BY CodesAreCodes DEF Blank, Response
  <1>3. code \in PageCodes
    BY DEF PageCodes
  <1>4. /\ Page(Blank, code) \in Response /\ Page(Blank, code).code = code
        /\ Page(Blank, code).status = code /\ Page(Blank, code).end = "open"
        /\ Page(Blank, code).body = {"page"}
    <2>1. {} \cup {"page"} = {"page"}
      OBVIOUS
    <2> QED BY <1>2, <1>3, <2>1, PageFields
  <1> HIDE DEF code
  <1>5. /\ target' = [target EXCEPT ![r] = port] /\ answer' = [answer EXCEPT ![r] = 0]
        /\ whole' = [whole EXCEPT ![r] = FALSE] /\ line' = [line EXCEPT ![r] = 0]
        /\ phase' = [phase EXCEPT ![r] = IF port = NoPort THEN "return" ELSE "trip"]
        /\ resp' = [resp EXCEPT ![r] = IF port # NoPort THEN Blank ELSE Page(Blank, code)]
        /\ \E body \in BOOLEAN : upload' = [upload EXCEPT ![r] = body /\ port # NoPort]
        /\ UNCHANGED <<gone, clock, read, cache, lastLine, logged>>
    BY DEF ServeHTTP, Put, Throttled, code
  <1> HIDE DEF port
  <1>6. TypeOK'
    <2>1. phase' \in [Requests -> Phases]
      BY <1>5 DEF IndInv, TypeOK, Phases
    <2>2. resp' \in [Requests -> Response]
      BY <1>2, <1>4, <1>5 DEF IndInv, TypeOK
    <2>3. upload' \in [Requests -> BOOLEAN]
      <3>1. upload \in [Requests -> BOOLEAN]
        BY DEF IndInv, TypeOK
      <3> QED BY <1>5, <3>1
    <2> QED BY <1>1, <1>5, <2>1, <2>2, <2>3 DEF IndInv, TypeOK
  <1>7. Served(r)'
    <2>1. CASE port = NoPort
      <3>1. phase'[r] = "return" /\ answer'[r] = 0 /\ resp'[r] = Page(Blank, code)
        BY <1>5, <2>1 DEF IndInv, TypeOK
      <3>2. PageIsAlone(r)'
        BY <1>3, <1>4, <3>1 DEF PageIsAlone
      <3>3. code # 0
        BY DEF code
      <3> QED BY <1>4, <3>1, <3>2, <3>3 DEF Served, Sent
    <2>2. CASE port # NoPort
      <3>1. phase'[r] = "trip" /\ answer'[r] = 0 /\ resp'[r] = Blank /\ target'[r] \in Ports
        BY <1>1, <1>5, <2>2 DEF IndInv, TypeOK
      <3> QED BY <1>2, <3>1 DEF Served, Untouched
    <2> QED BY <2>1, <2>2
  <1>8. \A q \in Requests : Served(q)'
    BY <1>5, <1>7, OthersStay DEF IndInv, TypeOK
  <1> QED BY <1>5, <1>6, <1>8, CacheStays DEF IndInv

LEMMA InformHolds ==
    ASSUME IndInv, NEW r \in Requests, Inform(r)
    PROVE  IndInv'
  <1> DEFINE w == resp[r]  v == Header(w, EarlyHints)
  <1>1. /\ phase[r] = "trip" /\ w \in Response /\ Untouched(r) /\ ~w.info
        /\ resp' = [resp EXCEPT ![r] = v]
        /\ UNCHANGED <<upload, phase, target, gone, answer, whole, line, clock, read, cache, lastLine, logged>>
    BY DEF IndInv, TypeOK, Served, Inform, Put, Inputs, Throttled
  <1>2. ~w.wrote
    BY <1>1 DEF Untouched, Response
  <1>3. /\ v \in Response /\ v.info = TRUE /\ v.status = w.status /\ v.body = w.body /\ v.end = w.end
    <2>1. EarlyHints \in Codes
      BY CodesAreCodes
    <2>2. v \in Response
      BY <1>1, <1>2, <2>1, HeaderFields
    <2>3. v.info = TRUE /\ v.status = w.status
      BY <1>1, <1>2, <2>1, HeaderFields
    <2>4. v.body = w.body
      BY <1>1, <1>2, <2>1, HeaderFields
    <2>5. v.end = w.end
      BY <1>1, <1>2, <2>1, HeaderFields
    <2> QED BY <2>2, <2>3, <2>4, <2>5
  <1> HIDE DEF v
  <1>4. TypeOK'
    BY <1>1, <1>3 DEF IndInv, TypeOK
  <1>5. Served(r)'
    <2>1. resp'[r] = v
      BY <1>1 DEF IndInv, TypeOK
    <2> QED BY <1>1, <1>3, <2>1 DEF Served, Untouched
  <1>6. \A q \in Requests : Served(q)'
    BY <1>1, <1>5, OthersStay DEF IndInv, TypeOK
  <1> QED BY <1>1, <1>4, <1>6, CacheStays DEF IndInv

LEMMA RespondHolds ==
    ASSUME IndInv, NEW r \in Requests, Respond(r)
    PROVE  IndInv'
  <1>1. PICK code \in BackendCodes :
            answer' = [answer EXCEPT ![r] = code] /\ resp' = [resp EXCEPT ![r] = Header(resp[r], code)]
    BY DEF Respond, Put
  <1> DEFINE w == resp[r]  v == Header(w, code)
  <1>2. /\ phase[r] = "trip" /\ w \in Response /\ Untouched(r)
        /\ phase' = [phase EXCEPT ![r] = "copy"]
        /\ upload' \in [Requests -> BOOLEAN]
        /\ UNCHANGED <<target, gone, whole, line, clock, read, cache, lastLine, logged>>
    BY DEF IndInv, TypeOK, Served, Respond, LeaveTrip, Go, Throttled
  <1>3. code \in Codes /\ code # EarlyHints
    BY CodesAreCodes
  <1>4. /\ v \in Response /\ v.wrote /\ v.body = {} /\ v.end = "open"
        /\ ~v.info => v.status = code /\ v.code = code
    <2>1. CASE w.wrote
      <3>1. v = w
        BY <2>1 DEF Header
      <3> HIDE DEF v
      <3> QED BY <1>2, <2>1, <3>1 DEF Untouched
    <2>2. CASE ~w.wrote
      <3>1. v \in Response /\ v.wrote = TRUE /\ v.code = code /\ v.body = w.body /\ v.end = w.end
        BY <1>2, <1>3, <2>2, HeaderFields
      <3>2. v.status = IF w.status = 0 THEN code ELSE w.status
        BY <1>2, <1>3, <2>2, HeaderFields
      <3> HIDE DEF v
      <3> QED BY <1>2, <3>1, <3>2 DEF Untouched
    <2> QED BY <2>1, <2>2
  <1>5. resp' = [resp EXCEPT ![r] = v]
    BY <1>1
  <1> HIDE DEF v
  <1>6. TypeOK'
    <2>1. phase' \in [Requests -> Phases]
      BY <1>2 DEF IndInv, TypeOK, Phases
    <2> QED BY <1>1, <1>2, <1>4, <1>5, <2>1 DEF IndInv, TypeOK
  <1>7. Served(r)'
    <2>1. resp'[r] = v /\ phase'[r] = "copy" /\ answer'[r] = code
      BY <1>1, <1>2, <1>5 DEF IndInv, TypeOK
    <2> QED BY <1>4, <2>1 DEF Served, Copied
  <1>8. \A q \in Requests : Served(q)'
    BY <1>1, <1>2, <1>5, <1>7, OthersStay DEF IndInv, TypeOK
  <1> QED BY <1>2, <1>6, <1>8, CacheStays DEF IndInv

LEMMA UpgradeHolds ==
    ASSUME IndInv, NEW r \in Requests, Upgrade(r)
    PROVE  IndInv'
  <1> DEFINE w == resp[r]  v == SendHeader(w, SwitchingProtocols)
  <1>1. /\ phase[r] = "trip" /\ w \in Response /\ Untouched(r)
        /\ phase' = [phase EXCEPT ![r] = "tunnel"] /\ resp' = [resp EXCEPT ![r] = v]
        /\ upload' \in [Requests -> BOOLEAN]
        /\ UNCHANGED <<target, gone, answer, whole, line, clock, read, cache, lastLine, logged>>
    BY DEF IndInv, TypeOK, Served, Upgrade, LeaveTrip, Go, Put, Inputs, Throttled
  <1>2. /\ v \in Response /\ v.body = w.body /\ v.end = w.end
        /\ v.status = IF w.status = 0 THEN SwitchingProtocols ELSE w.status
    <2>1. SwitchingProtocols \in Codes /\ SwitchingProtocols # EarlyHints
      BY CodesAreCodes
    <2>2. v \in Response
      BY <1>1, <2>1, SendHeaderFields
    <2>3. v.body = w.body
      BY <1>1, <2>1, SendHeaderFields
    <2>4. v.end = w.end
      BY <1>1, <2>1, SendHeaderFields
    <2>5. v.status = IF w.status = 0 THEN SwitchingProtocols ELSE w.status
      BY <1>1, <2>1, SendHeaderFields
    <2> QED BY <2>2, <2>3, <2>4, <2>5
  <1> HIDE DEF v
  <1>3. TypeOK'
    <2>1. phase' \in [Requests -> Phases]
      BY <1>1 DEF IndInv, TypeOK, Phases
    <2> QED BY <1>1, <1>2, <2>1 DEF IndInv, TypeOK
  <1>4. Served(r)'
    <2>1. resp'[r] = v /\ phase'[r] = "tunnel"
      BY <1>1 DEF IndInv, TypeOK
    <2> QED BY <1>1, <1>2, <2>1 DEF Served, Untouched, Tunnelled
  <1>5. \A q \in Requests : Served(q)'
    BY <1>1, <1>4, OthersStay DEF IndInv, TypeOK
  <1> QED BY <1>1, <1>3, <1>5, CacheStays DEF IndInv

LEMMA CopyPartHolds ==
    ASSUME IndInv, NEW r \in Requests, CopyPart(r)
    PROVE  IndInv'
  <1> DEFINE w == resp[r]  v == Body(w, "backend")
  <1>1. /\ phase[r] = "copy" /\ w \in Response /\ Copied(r)
        /\ resp' = [resp EXCEPT ![r] = v]
        /\ UNCHANGED <<upload, phase, target, gone, answer, whole, line, clock, read, cache, lastLine, logged>>
    BY DEF IndInv, TypeOK, Served, CopyPart, Put, Inputs, Throttled
  <1>2. /\ v \in Response /\ v.wrote /\ v.code = w.code /\ v.info = w.info /\ v.end = w.end
        /\ v.body = w.body \cup {"backend"} /\ v.status = IF w.status = 0 THEN 200 ELSE w.status
    BY <1>1, BodyFields DEF Copied
  <1> HIDE DEF v
  <1>3. TypeOK'
    BY <1>1, <1>2 DEF IndInv, TypeOK
  <1>4. Served(r)'
    <2>1. resp'[r] = v
      BY <1>1 DEF IndInv, TypeOK
    <2>2. answer[r] # 0
      BY <1>1, CodesAreCodes DEF Copied
    <2> QED BY <1>1, <1>2, <2>1, <2>2 DEF Served, Copied
  <1>5. \A q \in Requests : Served(q)'
    BY <1>1, <1>4, OthersStay DEF IndInv, TypeOK
  <1> QED BY <1>1, <1>3, <1>5, CacheStays DEF IndInv

LEMMA CopyEndsHolds ==
    ASSUME IndInv, NEW r \in Requests, CopyEnds(r)
    PROVE  IndInv'
  <1>1. /\ phase[r] = "copy" /\ Copied(r)
        /\ phase' = [phase EXCEPT ![r] = "return"] /\ whole' = [whole EXCEPT ![r] = TRUE]
        /\ UNCHANGED <<upload, target, gone, answer, resp, line, clock, read, cache, lastLine, logged>>
    BY DEF IndInv, Served, CopyEnds, Go, Throttled
  <1>2. TypeOK'
    BY <1>1 DEF IndInv, TypeOK, Phases
  <1>3. Served(r)'
    <2>1. phase'[r] = "return" /\ whole'[r]
      BY <1>1 DEF IndInv, TypeOK
    <2>2. answer[r] # 0
      BY <1>1, CodesAreCodes DEF Copied
    <2>3. PageIsAlone(r)'
      BY <1>1 DEF Copied, PageIsAlone
    <2> QED BY <1>1, <2>1, <2>2, <2>3 DEF Served, Copied, Sent
  <1>4. \A q \in Requests : Served(q)'
    BY <1>1, <1>3, OthersStay DEF IndInv, TypeOK
  <1> QED BY <1>1, <1>2, <1>4, CacheStays DEF IndInv

\* The steps that change nothing but where the handler is.
LEMMA MoveHolds ==
    ASSUME IndInv, NEW r \in Requests, NEW from, NEW to \in Phases, Go(r, from, to),
           upload' \in [Requests -> BOOLEAN], UNCHANGED <<Inputs, resp, line, Throttled>>,
           phase'[r] = to => Served(r)'
    PROVE  IndInv'
  <1>1. /\ phase' = [phase EXCEPT ![r] = to] /\ Served(r)'
        /\ UNCHANGED <<target, gone, answer, whole, resp, line, clock, read, cache, lastLine, logged>>
    BY DEF Go, Inputs, Throttled, IndInv, TypeOK
  <1>2. TypeOK'
    BY <1>1 DEF IndInv, TypeOK
  <1>3. \A q \in Requests : Served(q)'
    BY <1>1, OthersStay DEF IndInv, TypeOK
  <1> QED BY <1>1, <1>2, <1>3, CacheStays DEF IndInv

LEMMA MovesHold ==
    ASSUME IndInv, NEW r \in Requests,
           \/ TunnelCloses(r) \/ CopyFails(r)
           \/ TripFails(r) \/ TripTimesOut(r) \/ TripCancelled(r)
    PROVE  IndInv'
  <1>1. {"return", "panic", "error"} \subseteq Phases /\ upload \in [Requests -> BOOLEAN]
    BY DEF Phases, IndInv, TypeOK
  <1>2. Served(r)
    BY DEF IndInv
  <1>3. CASE TunnelCloses(r)
    <2>1. Go(r, "tunnel", "return") /\ UNCHANGED <<Inputs, resp, upload, line, Throttled>>
      BY <1>3 DEF TunnelCloses
    <2>2. Tunnelled(r) /\ UNCHANGED <<target, gone, answer, whole, resp, line>>
      BY <1>2, <2>1 DEF Go, Served, Inputs
    <2>3. phase'[r] = "return" => Served(r)'
      BY <2>2 DEF Served, Tunnelled, Sent, PageIsAlone
    <2> QED BY <1>1, <2>1, <2>3, MoveHolds
  <1>4. CASE CopyFails(r)
    <2>1. Go(r, "copy", "panic") /\ UNCHANGED <<Inputs, resp, upload, line, Throttled>>
      BY <1>4 DEF CopyFails
    <2>2. Copied(r) /\ UNCHANGED <<target, gone, answer, whole, resp, line>>
      BY <1>2, <2>1 DEF Go, Served, Inputs
    <2>3. phase'[r] = "panic" => Served(r)'
      BY <2>2 DEF Served, Copied
    <2> QED BY <1>1, <2>1, <2>3, MoveHolds
  <1>5. CASE TripFails(r) \/ TripTimesOut(r)
    <2>1. Go(r, "trip", "error") /\ UNCHANGED <<Inputs, resp, line, Throttled>>
      BY <1>5 DEF TripFails, TripTimesOut, LeaveTrip
    <2>4. upload' \in [Requests -> BOOLEAN]
      BY <1>1, <1>5 DEF TripFails, TripTimesOut, LeaveTrip
    <2>2. Untouched(r) /\ UNCHANGED <<target, gone, answer, whole, resp, line>>
      BY <1>2, <2>1 DEF Go, Served, Inputs
    <2>3. phase'[r] = "error" => Served(r)'
      BY <2>2 DEF Served, Untouched
    <2> QED BY <1>1, <2>1, <2>3, <2>4, MoveHolds
  <1>6. CASE TripCancelled(r)
    <2>1. Go(r, "trip", "return") /\ gone[r] /\ UNCHANGED <<Inputs, resp, line, Throttled>>
      BY <1>6 DEF TripCancelled, LeaveTrip
    <2>4. upload' \in [Requests -> BOOLEAN]
      BY <1>1, <1>6 DEF TripCancelled, LeaveTrip
    <2>2. Untouched(r) /\ UNCHANGED <<target, gone, answer, whole, resp, line>>
      BY <1>2, <2>1 DEF Go, Served, Inputs
    <2>3. phase'[r] = "return" => Served(r)'
      BY <2>1, <2>2 DEF Served, Untouched, Sent, PageIsAlone
    <2> QED BY <1>1, <2>1, <2>3, <2>4, MoveHolds
  <1> QED BY <1>3, <1>4, <1>5, <1>6

LEMMA UploadedHolds ==
    ASSUME IndInv, NEW r \in Requests, Uploaded(r)
    PROVE  IndInv'
  <1>1. /\ upload' \in [Requests -> BOOLEAN] /\ Served(r)
        /\ UNCHANGED <<phase, target, gone, answer, whole, resp, line, clock, read, cache, lastLine, logged>>
    BY DEF IndInv, TypeOK, Uploaded, Inputs, Throttled
  <1>2. TypeOK'
    BY <1>1 DEF IndInv, TypeOK
  <1>3. Served(r)'
    BY <1>1 DEF Served, Untouched, Copied, Tunnelled, PageIsAlone, Sent, Ended
  <1>4. \A q \in Requests : Served(q)'
    BY <1>1, <1>3, OthersStay DEF IndInv, TypeOK
  <1> QED BY <1>1, <1>2, <1>4, CacheStays DEF IndInv

LEMMA ClientLeavesHolds ==
    ASSUME IndInv, NEW r \in Requests, ClientLeaves(r)
    PROVE  IndInv'
  <1>1. /\ phase[r] \notin {"idle", "done"} /\ Served(r)
        /\ gone' = [gone EXCEPT ![r] = TRUE]
        /\ UNCHANGED <<upload, phase, target, answer, whole, resp, line, clock, read, cache, lastLine, logged>>
    BY DEF IndInv, ClientLeaves, Throttled
  <1>2. TypeOK'
    BY <1>1 DEF IndInv, TypeOK
  <1>3. Served(r)'
    <2>1. gone'[r]
      BY <1>1 DEF IndInv, TypeOK
    <2> QED BY <1>1, <2>1 DEF Served, Untouched, Copied, Tunnelled, PageIsAlone, Sent, Ended
  <1>4. \A q \in Requests : Served(q)'
    BY <1>1, <1>3, OthersStay DEF IndInv, TypeOK
  <1> QED BY <1>1, <1>2, <1>4, CacheStays DEF IndInv

LEMMA HandleErrorHolds ==
    ASSUME IndInv, NEW r \in Requests, HandleError(r)
    PROVE  IndInv'
  <1> DEFINE to == IF resp[r].wrote THEN "panic" ELSE "throttle"
  <1>1. /\ phase[r] = "error" /\ Untouched(r)
        /\ phase' = [phase EXCEPT ![r] = to]
        /\ read' = read \/ read' = [read EXCEPT ![r] = clock]
        /\ UNCHANGED <<upload, target, gone, answer, whole, resp, line, clock, cache, lastLine, logged>>
    BY DEF IndInv, Served, HandleError, Go, Inputs
  <1>2. TypeOK'
    <2>1. phase' \in [Requests -> Phases]
      BY <1>1 DEF IndInv, TypeOK, Phases
    <2> QED BY <1>1, <2>1 DEF IndInv, TypeOK
  <1>3. Served(r)'
    <2>1. phase'[r] = to
      BY <1>1 DEF IndInv, TypeOK
    <2> QED BY <1>1, <2>1 DEF Served, Untouched
  <1>4. \A q \in Requests : Served(q)'
    BY <1>1, <1>3, OthersStay DEF IndInv, TypeOK
  <1> QED BY <1>1, <1>2, <1>4, CacheStays DEF IndInv

LEMMA RenderErrorPageHolds ==
    ASSUME IndInv, NEW r \in Requests, RenderErrorPage(r)
    PROVE  IndInv'
  <1> DEFINE w == resp[r]  v == Page(w, 502)
  <1>1. /\ phase[r] = "page" /\ w \in Response /\ Untouched(r) /\ ~w.wrote
        /\ phase' = [phase EXCEPT ![r] = "return"] /\ resp' = [resp EXCEPT ![r] = v]
        /\ logged' \in [Requests -> BOOLEAN]
        /\ UNCHANGED <<target, gone, answer, whole, upload, line, clock, read, cache, lastLine>>
    BY DEF IndInv, TypeOK, Served, RenderErrorPage, Go, Put, Inputs
  <1>2. 502 \in PageCodes
    BY DEF PageCodes
  <1>3. /\ v \in Response /\ v.code = 502 /\ v.status = 502 /\ v.end = "open" /\ v.body = {"page"}
    <2>1. w.body \cup {"page"} = {"page"}
      BY <1>1 DEF Untouched
    <2> QED BY <1>1, <1>2, <2>1, PageFields DEF Untouched
  <1> HIDE DEF v
  <1>4. TypeOK'
    <2>1. phase' \in [Requests -> Phases]
      BY <1>1 DEF IndInv, TypeOK, Phases
    <2> QED BY <1>1, <1>3, <2>1 DEF IndInv, TypeOK
  <1>5. Served(r)'
    <2>1. resp'[r] = v /\ phase'[r] = "return" /\ answer'[r] = 0
      BY <1>1 DEF IndInv, TypeOK, Untouched
    <2>2. PageIsAlone(r)'
      BY <1>2, <1>3, <2>1 DEF PageIsAlone
    <2> QED BY <1>3, <2>1, <2>2 DEF Served, Sent
  <1>6. \A q \in Requests : Served(q)'
    BY <1>1, <1>5, OthersStay DEF IndInv, TypeOK
  <1> QED BY <1>1, <1>4, <1>6, CacheStays DEF IndInv

LEMMA ReturnHolds ==
    ASSUME IndInv, NEW r \in Requests, Return(r)
    PROVE  IndInv'
  <1> DEFINE w == resp[r]  v == Finish(w)
  <1>1. /\ phase[r] = "return" /\ w \in Response /\ Sent(r)
        /\ phase' = [phase EXCEPT ![r] = "done"] /\ resp' = [resp EXCEPT ![r] = v]
        /\ line' = [line EXCEPT ![r] = w.code] /\ target' = [target EXCEPT ![r] = NoPort]
        /\ UNCHANGED <<upload, gone, answer, whole, clock, read, cache, lastLine, logged>>
    BY DEF IndInv, TypeOK, Served, Return, Go, Put, Throttled
  <1>2. /\ v \in Response /\ v.body = w.body /\ v.info = w.info /\ v.end = "complete"
        /\ v.status = IF w.status = 0 THEN 200 ELSE w.status
    BY <1>1, FinishFields
  <1> HIDE DEF v
  <1>3. TypeOK'
    <2>1. phase' \in [Requests -> Phases]
      BY <1>1 DEF IndInv, TypeOK, Phases
    <2>2. w.code \in Codes
      BY <1>1 DEF Response
    <2> QED BY <1>1, <1>2, <2>1, <2>2 DEF IndInv, TypeOK
  <1>4. Served(r)'
    <2>1. resp'[r] = v /\ phase'[r] = "done" /\ line'[r] = w.code
      BY <1>1 DEF IndInv, TypeOK
    <2>2. PageIsAlone(r)'
      <3>1. 0 \notin PageCodes
        BY DEF PageCodes
      <3> QED BY <1>1, <1>2, <2>1, <3>1 DEF PageIsAlone, Sent
    <2>3. w.status = 0 => w.status # SwitchingProtocols
      BY CodesAreCodes
    <2> QED BY <1>1, <1>2, <2>1, <2>2, <2>3 DEF Served, Sent, Ended
  <1>5. \A q \in Requests : Served(q)'
    BY <1>1, <1>4, OthersStay DEF IndInv, TypeOK
  <1> QED BY <1>1, <1>3, <1>5, CacheStays DEF IndInv

LEMMA AbortHolds ==
    ASSUME IndInv, NEW r \in Requests, Abort(r)
    PROVE  IndInv'
  <1> DEFINE w == resp[r]  v == [w EXCEPT !.end = "cut"]
  <1>1. /\ phase[r] = "panic" /\ w \in Response /\ w.body \subseteq {"backend"}
        /\ phase' = [phase EXCEPT ![r] = "done"] /\ resp' = [resp EXCEPT ![r] = v]
        /\ target' = [target EXCEPT ![r] = NoPort]
        /\ UNCHANGED <<gone, answer, whole, upload, line, clock, read, cache, lastLine, logged>>
    BY DEF IndInv, TypeOK, Served, Abort, Go, Put, Throttled
  <1>2. v \in Response /\ v.body = w.body /\ v.end = "cut"
    BY <1>1 DEF Response
  <1> HIDE DEF v
  <1>3. TypeOK'
    <2>1. phase' \in [Requests -> Phases]
      BY <1>1 DEF IndInv, TypeOK, Phases
    <2> QED BY <1>1, <1>2, <2>1 DEF IndInv, TypeOK
  <1>4. Served(r)'
    <2>1. resp'[r] = v /\ phase'[r] = "done"
      BY <1>1 DEF IndInv, TypeOK
    <2> QED BY <1>1, <1>2, <2>1 DEF Served, Ended, PageIsAlone
  <1>5. \A q \in Requests : Served(q)'
    BY <1>1, <1>4, OthersStay DEF IndInv, TypeOK
  <1> QED BY <1>1, <1>3, <1>5, CacheStays DEF IndInv

-----------------------------------------------------------------------------
(* The throttle cache *)

\* Evict makes room for one entry, and drops none unless the cache is full.
LEMMA EvictMakesRoom ==
    ASSUME CacheIsRecent, NEW c \in Evict(cache)
    PROVE  /\ DOMAIN c \subseteq DOMAIN cache /\ \A q \in DOMAIN c : c[q] = cache[q]
           /\ IsFiniteSet(DOMAIN c) /\ Cardinality(DOMAIN c) \in Nat
           /\ Cardinality(DOMAIN c) <= LogCacheLimit - 1
           /\ DOMAIN c = DOMAIN cache \/ Cardinality(DOMAIN c) = LogCacheLimit - 1
  <1>1. /\ IsFiniteSet(DOMAIN cache) /\ Cardinality(DOMAIN cache) \in Nat
        /\ Cardinality(DOMAIN cache) <= LogCacheLimit /\ LogCacheLimit \in Nat \ {0}
    BY FS_CardinalityType, LimitsArePositive DEF CacheIsRecent
  <1>2. CASE Cardinality(DOMAIN cache) < LogCacheLimit
    <2>1. c = cache
      BY <1>2 DEF Evict
    <2> QED BY <1>1, <1>2, <2>1
  <1>3. CASE ~(Cardinality(DOMAIN cache) < LogCacheLimit)
    <2>1. PICK x \in DOMAIN cache : c = [q \in DOMAIN cache \ {x} |-> cache[q]]
      BY <1>3 DEF Evict
    <2>2. DOMAIN c = DOMAIN cache \ {x} /\ \A q \in DOMAIN c : c[q] = cache[q]
      BY <2>1
    <2>3. /\ IsFiniteSet(DOMAIN cache \ {x})
          /\ Cardinality(DOMAIN cache \ {x}) = Cardinality(DOMAIN cache) - 1
      BY <1>1, FS_RemoveElement
    <2> QED BY <1>1, <1>3, <2>2, <2>3
  <1> QED BY <1>2, <1>3

\* What LoggedRecently leaves when it lets a line through.
LEMMA LineLogged ==
    ASSUME CacheIsRecent, NEW p \in Ports, NEW now, NEW c \in Evict(cache),
           lastLine \in [Ports -> (-Cooldown)..MaxTime],
           cache' = [q \in DOMAIN c \cup {p} |-> IF q = p THEN now ELSE c[q]],
           lastLine' = [lastLine EXCEPT ![p] = now]
    PROVE  /\ CacheIsRecent'
           /\ p \notin DOMAIN cache /\ lastLine[p] # -Cooldown
                  => Cardinality(DOMAIN cache') = LogCacheLimit
  <1>1. /\ DOMAIN c \subseteq DOMAIN cache /\ \A q \in DOMAIN c : c[q] = cache[q]
        /\ IsFiniteSet(DOMAIN c) /\ Cardinality(DOMAIN c) \in Nat
        /\ Cardinality(DOMAIN c) <= LogCacheLimit - 1
        /\ DOMAIN c = DOMAIN cache \/ Cardinality(DOMAIN c) = LogCacheLimit - 1
    BY EvictMakesRoom
  <1>2. LogCacheLimit \in Nat \ {0}
    BY LimitsArePositive
  <1>3. DOMAIN cache' = DOMAIN c \cup {p}
    OBVIOUS
  <1>4. /\ IsFiniteSet(DOMAIN cache')
        /\ Cardinality(DOMAIN cache') = IF p \in DOMAIN c THEN Cardinality(DOMAIN c)
                                                          ELSE Cardinality(DOMAIN c) + 1
    BY <1>1, <1>3, FS_AddElement
  <1>5. Cardinality(DOMAIN cache') <= LogCacheLimit
    BY <1>1, <1>2, <1>4
  <1>6. ASSUME NEW q \in DOMAIN cache' PROVE cache'[q] = lastLine'[q]
    <2>1. CASE q = p
      BY <2>1
    <2>2. CASE q # p
      <3>1. q \in DOMAIN c /\ cache'[q] = cache[q]
        BY <1>1, <1>3, <1>6, <2>2
      <3>2. cache[q] = lastLine[q]
        BY <1>1, <3>1 DEF CacheIsRecent
      <3> QED BY <2>2, <3>1, <3>2
    <2> QED BY <2>1, <2>2
  <1>7. ASSUME NEW q \in Ports \ DOMAIN cache'
        PROVE  lastLine'[q] = -Cooldown \/ Cardinality(DOMAIN cache') >= LogCacheLimit - 1
    <2>1. q # p /\ lastLine'[q] = lastLine[q] /\ q \notin DOMAIN c
      BY <1>3, <1>7
    <2>2. CASE Cardinality(DOMAIN c) = LogCacheLimit - 1
      BY <1>1, <1>2, <1>4, <2>2
    <2>3. CASE DOMAIN c = DOMAIN cache
      <3>1. lastLine[q] = -Cooldown \/ Cardinality(DOMAIN c) >= LogCacheLimit - 1
        BY <2>1, <2>3 DEF CacheIsRecent
      <3> QED BY <1>1, <1>2, <1>4, <2>1, <3>1
    <2> QED BY <1>1, <2>2, <2>3
  <1>8. ASSUME p \notin DOMAIN cache, lastLine[p] # -Cooldown
        PROVE  Cardinality(DOMAIN cache') = LogCacheLimit
    <2>1. Cardinality(DOMAIN cache) >= LogCacheLimit - 1
      BY <1>8 DEF CacheIsRecent
    <2>2. p \notin DOMAIN c
      BY <1>1, <1>8
    <2>3. Cardinality(DOMAIN c) = LogCacheLimit - 1
      BY <1>1, <1>2, <2>1
    <2> QED BY <1>2, <1>4, <2>2, <2>3
  <1> QED BY <1>4, <1>5, <1>6, <1>7, <1>8 DEF CacheIsRecent

LEMMA LogThrottledHolds ==
    ASSUME IndInv, NEW r \in Requests, LogThrottled(r)
    PROVE  /\ IndInv'
           /\ logged'[r] /\ read[r] - lastLine[target[r]] < Cooldown
                  => Cardinality(DOMAIN cache') = LogCacheLimit
  <1> DEFINE p == target[r]
  <1>1. /\ phase[r] = "throttle" /\ Untouched(r) /\ ~resp[r].wrote
        /\ phase' = [phase EXCEPT ![r] = "page"] /\ read' = [read EXCEPT ![r] = 0]
        /\ UNCHANGED <<upload, target, gone, answer, whole, resp, line, clock>>
    BY DEF IndInv, Served, LogThrottled, Go, Inputs
  <1>2. p \in Ports /\ read[r] \in 0..MaxTime /\ Cooldown \in Nat \ {0}
    BY <1>1, LimitsArePositive DEF IndInv, TypeOK, Untouched
  <1>3. Served(r)'
    <2>1. phase'[r] = "page"
      BY <1>1 DEF IndInv, TypeOK
    <2> QED BY <1>1, <2>1 DEF Served, Untouched
  <1>4. \A q \in Requests : Served(q)'
    BY <1>1, <1>3, OthersStay DEF IndInv, TypeOK
  <1>5. phase' \in [Requests -> Phases] /\ read' \in [Requests -> 0..MaxTime]
    BY <1>1, LimitsArePositive DEF IndInv, TypeOK, Phases
  <1>6. CASE p \in DOMAIN cache /\ read[r] - cache[p] < Cooldown
    <2>1. /\ logged' \in [Requests -> BOOLEAN] /\ ~logged'[r]
          /\ UNCHANGED <<cache, lastLine>>
      BY <1>6 DEF LogThrottled, IndInv, TypeOK
    <2>2. TypeOK'
      BY <1>1, <1>5, <2>1 DEF IndInv, TypeOK
    <2> QED BY <1>4, <2>1, <2>2, CacheStays DEF IndInv
  <1>7. CASE ~(p \in DOMAIN cache /\ read[r] - cache[p] < Cooldown)
    <2>1. PICK c \in Evict(cache) :
              cache' = [q \in DOMAIN c \cup {p} |-> IF q = p THEN read[r] ELSE c[q]]
      BY <1>7 DEF LogThrottled
    <2>2. lastLine' = [lastLine EXCEPT ![p] = read[r]] /\ logged' \in [Requests -> BOOLEAN]
      BY <1>7 DEF LogThrottled, IndInv, TypeOK
    <2> HIDE DEF p
    <2>3. /\ CacheIsRecent'
          /\ p \notin DOMAIN cache /\ lastLine[p] # -Cooldown
                 => Cardinality(DOMAIN cache') = LogCacheLimit
      BY <1>2, <2>1, <2>2, LineLogged DEF IndInv, TypeOK
    <2>4. TypeOK'
      <3>1. lastLine' \in [Ports -> (-Cooldown)..MaxTime]
        BY <1>2, <2>2 DEF IndInv, TypeOK
      <3>2. DOMAIN cache' \subseteq Ports /\ \A q \in DOMAIN cache' : cache'[q] \in 0..MaxTime
        <4>1. DOMAIN c \subseteq DOMAIN cache /\ \A q \in DOMAIN c : c[q] = cache[q]
          BY EvictMakesRoom DEF IndInv
        <4> QED BY <1>2, <2>1, <4>1 DEF IndInv, TypeOK
      <3> QED BY <1>1, <1>5, <2>2, <3>1, <3>2 DEF IndInv, TypeOK
    <2>5. ASSUME read[r] - lastLine[p] < Cooldown
          PROVE  Cardinality(DOMAIN cache') = LogCacheLimit
      <3>1. lastLine[p] \in (-Cooldown)..MaxTime
        BY <1>2 DEF IndInv, TypeOK
      <3>2. lastLine[p] # -Cooldown
        BY <1>2, <2>5, <3>1
      <3>3. p \notin DOMAIN cache
        <4>1. SUFFICES ASSUME p \in DOMAIN cache PROVE FALSE
          OBVIOUS
        <4>2. cache[p] = lastLine[p]
          BY <4>1 DEF IndInv, CacheIsRecent
        <4> QED BY <1>7, <2>5, <4>1, <4>2
      <3> QED BY <2>3, <3>2, <3>3
    <2> QED BY <1>4, <2>3, <2>4, <2>5 DEF IndInv, p
  <1> QED BY <1>6, <1>7

-----------------------------------------------------------------------------
(* The theorems *)

LEMMA NextHolds == IndInv /\ [Next]_vars => IndInv'
  <1> SUFFICES ASSUME IndInv, [Next]_vars PROVE IndInv'
    OBVIOUS
  <1>1. CASE Tick
    <2>1. /\ clock < MaxTime /\ clock' = clock + 1 /\ clock \in 0..MaxTime /\ MaxTime \in Nat
          /\ UNCHANGED <<upload, phase, target, gone, answer, whole, resp, line, read, cache, lastLine, logged>>
      BY <1>1, LimitsArePositive DEF Tick, reqVars, IndInv, TypeOK
    <2>2. TypeOK'
      BY <2>1 DEF IndInv, TypeOK
    <2>3. \A q \in Requests : Served(q)'
      BY <2>1 DEF IndInv, Served, Untouched, Copied, Tunnelled, PageIsAlone, Sent, Ended
    <2> QED BY <2>1, <2>2, <2>3, CacheStays DEF IndInv
  <1>2. CASE UNCHANGED vars
    <2>1. UNCHANGED <<upload, phase, target, gone, answer, whole, resp, line, clock, read, cache, lastLine, logged>>
      BY <1>2 DEF vars, reqVars
    <2>2. TypeOK'
      BY <2>1 DEF IndInv, TypeOK
    <2>3. \A q \in Requests : Served(q)'
      BY <2>1 DEF IndInv, Served, Untouched, Copied, Tunnelled, PageIsAlone, Sent, Ended
    <2> QED BY <2>1, <2>2, <2>3, CacheStays DEF IndInv
  <1>3. ASSUME NEW r \in Requests, Handle(r) PROVE IndInv'
    BY <1>3, MovesHold, HandleErrorHolds, LogThrottledHolds, RenderErrorPageHolds, ReturnHolds,
       AbortHolds DEF Handle
  <1>4. ASSUME NEW r \in Requests, Backend(r) PROVE IndInv'
    BY <1>4, UploadedHolds, InformHolds, RespondHolds, UpgradeHolds, MovesHold, CopyPartHolds, CopyEndsHolds DEF Backend
  <1>5. ASSUME NEW r \in Requests, Client(r) PROVE IndInv'
    BY <1>5, ServeHTTPHolds, ClientLeavesHolds, MovesHold DEF Client
  <1> QED BY <1>1, <1>2, <1>3, <1>4, <1>5 DEF Next

\* The inductive invariant, from which all that follows is read off.
THEOREM IndInvHolds == Spec => []IndInv
  BY InitHolds, NextHolds, PTL DEF Spec

\* The variables keep their types: no request without a route gets to a backend.
THEOREM TypeCorrect == Spec => []TypeOK
  <1>1. IndInv => TypeOK
    BY DEF IndInv
  <1> QED BY <1>1, IndInvHolds, PTL

\* An error page never mixes with what a backend sent (handler.go:64-66).
THEOREM PayloadsStayIntact == Spec => []PayloadIntact
  <1>1. IndInv => PayloadIntact
    <2>1. ASSUME IndInv, NEW r \in Requests PROVE PageIsAlone(r)
      <3>1. Served(r) /\ phase[r] \in Phases
        BY <2>1 DEF IndInv, TypeOK
      <3> QED BY <3>1 DEF Phases, Served, Untouched, Copied, Tunnelled, Sent, Ended, PageIsAlone
    <2> QED BY <2>1 DEF PayloadIntact, PageIsAlone
  <1> QED BY <1>1, IndInvHolds, PTL

\* A complete response belongs to a request that has ended.
LEMMA CompleteIsDone ==
    ASSUME IndInv, NEW r \in Requests, resp[r].end = "complete"
    PROVE  Ended(r)
  <1>1. Served(r) /\ phase[r] \in Phases
    BY DEF IndInv, TypeOK
  <1>2. phase[r] = "done"
    BY <1>1 DEF Phases, Served, Untouched, Copied, Tunnelled, Sent
  <1> QED BY <1>1, <1>2 DEF Served

\* No client that stayed takes a truncated answer for a complete one
\* (handler.go:66, middleware.go:67-78).
THEOREM TruncationIsVisible == Spec => []TruncationShows
  <1>1. IndInv => TruncationShows
    BY CompleteIsDone DEF TruncationShows, Ended
  <1> QED BY <1>1, IndInvHolds, PTL

\* Without informational headers, client and access log get the backend's
\* status or the page's (middleware.go:26-45).
THEOREM StatusesAreHonest == Spec => []StatusIsHonest
  <1>1. IndInv => StatusIsHonest
    BY CompleteIsDone DEF StatusIsHonest, Ended
  <1> QED BY <1>1, IndInvHolds, PTL

\* Who gets from the throttle to the page has been through LoggedRecently.
LEMMA OnlyLogThrottled ==
    ASSUME IndInv, [Next]_vars, NEW r \in Requests, phase[r] = "throttle", phase'[r] = "page"
    PROVE  LogThrottled(r)
  <1>1. phase \in [Requests -> Phases] /\ phase' # phase
    BY DEF IndInv, TypeOK
  <1>2. PICK q \in Requests : Handle(q) \/ Backend(q) \/ Client(q)
    BY <1>1 DEF Next, Tick, reqVars, vars
  <1>3. CASE Handle(q)
    <2>1. CASE LogThrottled(q)
      <3>1. phase' = [phase EXCEPT ![q] = "page"] /\ q = r
        BY <1>1, <2>1 DEF LogThrottled, Go
      <3> QED BY <2>1, <3>1
    <2>2. CASE ~LogThrottled(q)
      BY <1>1, <1>3, <2>2 DEF Handle, TripTimesOut, LeaveTrip, HandleError, RenderErrorPage, Return, Abort, Go
    <2> QED BY <2>1, <2>2
  <1>4. CASE Backend(q)
    BY <1>1, <1>4 DEF Backend, Uploaded, TripFails, LeaveTrip, Inform, Respond, Upgrade, TunnelCloses, CopyPart, CopyEnds, CopyFails, Go
  <1>5. CASE Client(q)
    BY <1>1, <1>5 DEF Client, ServeHTTP, ClientLeaves, TripCancelled, LeaveTrip, Go
  <1> QED BY <1>2, <1>3, <1>4, <1>5

\* A line that follows another about its target within the cooldown, in whatever
\* order their times were read, means that the cache ran full (handler.go:147-196),
\* for every limit and every cooldown.
THEOREM RepeatsNeedEvictions == Spec => RepeatNeedsEviction
  <1> DEFINE Repeat == \A r \in Requests :
                 (/\ phase[r] = "throttle" /\ phase'[r] = "page" /\ logged'[r]
                  /\ read[r] - lastLine[target[r]] < Cooldown)
                     => Cardinality(DOMAIN cache') = LogCacheLimit
  <1>1. IndInv /\ [Next]_vars => [Repeat]_vars
    <2> SUFFICES ASSUME IndInv, [Next]_vars, NEW r \in Requests,
                        phase[r] = "throttle", phase'[r] = "page", logged'[r],
                        read[r] - lastLine[target[r]] < Cooldown
                 PROVE  Cardinality(DOMAIN cache') = LogCacheLimit
      OBVIOUS
    <2>1. LogThrottled(r)
      BY OnlyLogThrottled
    <2> QED BY <2>1, LogThrottledHolds
  <1> QED BY <1>1, IndInvHolds, PTL DEF Spec, RepeatNeedsEviction

\* The cache is "a bounded cache that prevents memory leaks" (handler.go:158-159),
\* and every entry is the time of the last line about its target, in spite of the
\* time that is read before the lock.
CacheIsBounded ==
    /\ Cardinality(DOMAIN cache) <= LogCacheLimit
    /\ \A p \in DOMAIN cache : cache[p] = lastLine[p]

\* The throttle cache stays within its limit, whatever the number of targets.
THEOREM CacheStaysBounded == Spec => []CacheIsBounded
  <1>1. IndInv => CacheIsBounded
    BY DEF IndInv, CacheIsRecent, CacheIsBounded
  <1> QED BY <1>1, IndInvHolds, PTL

\* No time is from the future.
TimesArePast ==
    /\ \A r \in Requests : read[r] <= clock
    /\ \A p \in Ports : lastLine[p] <= clock

\* No target fails unseen (handler.go:147-196): a request leaves LoggedRecently
\* only with a line about its target on record that is younger than the
\* cooldown, and that was written by then.
NoFailureUnseen ==
    [][\A r \in Requests :
          phase[r] = "throttle" /\ phase'[r] = "page" =>
              /\ target[r] \in Ports
              /\ read[r] - lastLine'[target[r]] < Cooldown
              /\ lastLine'[target[r]] <= clock']_vars

LEMMA TimesArePastHolds == Spec => []TimesArePast
  <1>1. Init => TimesArePast
    BY LimitsArePositive DEF Init, TimesArePast
  <1>2. IndInv /\ TimesArePast /\ [Next]_vars => TimesArePast'
    <2> SUFFICES ASSUME IndInv, TimesArePast, [Next]_vars PROVE TimesArePast'
      OBVIOUS
    <2>1. /\ clock \in 0..MaxTime /\ read \in [Requests -> 0..MaxTime] /\ MaxTime \in Nat
          /\ lastLine \in [Ports -> (-Cooldown)..MaxTime] /\ Cooldown \in Nat
      BY LimitsArePositive DEF IndInv, TypeOK
    <2>2. CASE clock' = clock + 1 /\ UNCHANGED <<read, lastLine>>
      BY <2>1, <2>2 DEF TimesArePast
    <2>3. CASE UNCHANGED <<clock, read, lastLine>>
      BY <2>3 DEF TimesArePast
    <2>4. ASSUME NEW r \in Requests, HandleError(r) PROVE TimesArePast'
      BY <2>1, <2>4 DEF HandleError, TimesArePast
    <2>5. ASSUME NEW r \in Requests, LogThrottled(r) PROVE TimesArePast'
      BY <2>1, <2>5 DEF LogThrottled, TimesArePast
    <2>6. CASE Tick \/ UNCHANGED vars
      BY <2>2, <2>3, <2>6 DEF Tick, vars
    <2>7. ASSUME NEW r \in Requests, Handle(r) PROVE TimesArePast'
      BY <2>3, <2>4, <2>5, <2>7 DEF Handle, TripTimesOut, LeaveTrip, RenderErrorPage, Return, Abort, Throttled
    <2>8. ASSUME NEW r \in Requests, Backend(r) PROVE TimesArePast'
      BY <2>3, <2>8 DEF Backend, Uploaded, TripFails, LeaveTrip, Inform, Respond, Upgrade, TunnelCloses, CopyPart, CopyEnds, CopyFails,
                        Throttled
    <2>9. ASSUME NEW r \in Requests, Client(r) PROVE TimesArePast'
      BY <2>3, <2>9 DEF Client, ServeHTTP, ClientLeaves, TripCancelled, LeaveTrip, Throttled
    <2> QED BY <2>6, <2>7, <2>8, <2>9 DEF Next
  <1> QED BY <1>1, <1>2, IndInvHolds, PTL DEF Spec

\* An error that is not logged has a line in its place, for every limit of the
\* cache, every cooldown and any number of concurrent failures.
THEOREM FailuresAreSeen == Spec => NoFailureUnseen
  <1> DEFINE Seen == \A r \in Requests :
                 phase[r] = "throttle" /\ phase'[r] = "page" =>
                     /\ target[r] \in Ports
                     /\ read[r] - lastLine'[target[r]] < Cooldown
                     /\ lastLine'[target[r]] <= clock'
  <1>1. IndInv /\ TimesArePast /\ TimesArePast' /\ [Next]_vars => [Seen]_vars
    <2> SUFFICES ASSUME IndInv, TimesArePast', [Next]_vars,
                        NEW r \in Requests, phase[r] = "throttle", phase'[r] = "page"
                 PROVE  /\ target[r] \in Ports
                        /\ read[r] - lastLine'[target[r]] < Cooldown
                        /\ lastLine'[target[r]] <= clock'
      OBVIOUS
    <2>1. LogThrottled(r)
      BY OnlyLogThrottled
    <2>2. target[r] \in Ports
      BY DEF IndInv, Served, Untouched
    <2>3. /\ read[r] \in 0..MaxTime /\ Cooldown \in Nat \ {0} /\ MaxTime \in Nat
          /\ lastLine \in [Ports -> (-Cooldown)..MaxTime]
      BY LimitsArePositive DEF IndInv, TypeOK
    <2>4. CASE target[r] \in DOMAIN cache /\ read[r] - cache[target[r]] < Cooldown
      <3>1. lastLine' = lastLine
        BY <2>1, <2>4 DEF LogThrottled
      <3>2. cache[target[r]] = lastLine[target[r]]
        BY <2>4 DEF IndInv, CacheIsRecent
      <3> QED BY <2>2, <2>4, <3>1, <3>2 DEF TimesArePast
    <2>5. CASE ~(target[r] \in DOMAIN cache /\ read[r] - cache[target[r]] < Cooldown)
      <3>1. lastLine' = [lastLine EXCEPT ![target[r]] = read[r]]
        BY <2>1, <2>5 DEF LogThrottled
      <3>2. lastLine'[target[r]] = read[r]
        BY <2>2, <2>3, <3>1
      <3> QED BY <2>2, <2>3, <3>2 DEF TimesArePast
    <2> QED BY <2>4, <2>5
  <1> QED BY <1>1, IndInvHolds, TimesArePastHolds, PTL DEF Spec, NoFailureUnseen

-----------------------------------------------------------------------------
(* What a client has got stays *)

\* The next request comes in on a connection that was not cut.
NextRequest(r) ==
    /\ phase[r] \in {"idle", "done"} /\ resp[r].end # "cut"
    /\ phase'[r] \in {"trip", "return"}

\* A final status is the only one, nothing follows the end of a response, and
\* an error page is all of its response: no backend data comes behind it, and
\* it is never cut off.
Grows(r) ==
    /\ resp[r].status # 0 => resp'[r].status = resp[r].status
    /\ resp[r].body \subseteq resp'[r].body
    /\ resp[r].end # "open" => resp'[r] = resp[r]
    /\ "page" \in resp[r].body => resp'[r].body = resp[r].body /\ resp'[r].end # "cut"

\* No step takes back or rewrites what a client has got, in whatever order the
\* hooks of a handler run and whatever the other requests do
\* (handler.go:62-97, middleware.go:27-42).
ResponsesOnlyGrow == [][\A r \in Requests : NextRequest(r) \/ Grows(r)]_vars

\* A response that a step leaves alone.
LEMMA SameGrows ==
    ASSUME IndInv, NEW r \in Requests, resp'[r] = resp[r]
    PROVE  Grows(r)
  <1>1. "page" \in resp[r].body => resp[r].end # "cut"
    <2>1. Served(r) /\ phase[r] \in Phases
      BY DEF IndInv, TypeOK
    <2> QED BY <2>1 DEF Phases, Served, Untouched, Copied, Tunnelled, Sent, Ended
  <1> QED BY <1>1 DEF Grows

\* The first step that a client notices.
LEMMA FirstGrows ==
    ASSUME IndInv, NEW r \in Requests, Inform(r) \/ Upgrade(r) \/ RenderErrorPage(r) \/ Respond(r)
    PROVE  Grows(r)
  <1>1. phase[r] \in {"trip", "page"}
    BY DEF Inform, Upgrade, RenderErrorPage, Respond, LeaveTrip, Go
  <1>2. Untouched(r)
    BY <1>1 DEF IndInv, Served
  <1> QED BY <1>2 DEF Untouched, Grows

LEMMA CopyGrows ==
    ASSUME IndInv, NEW r \in Requests, CopyPart(r)
    PROVE  Grows(r)
  <1> DEFINE w == resp[r]  v == Body(w, "backend")
  <1>1. w \in Response /\ Copied(r) /\ resp' = [resp EXCEPT ![r] = v]
    BY DEF IndInv, TypeOK, Served, CopyPart, Put
  <1>2. v.body = w.body \cup {"backend"} /\ v.status = IF w.status = 0 THEN 200 ELSE w.status
    <2>1. w.wrote
      BY <1>1 DEF Copied
    <2> QED BY <1>1, <2>1, BodyFields
  <1> HIDE DEF v
  <1>3. resp'[r] = v
    BY <1>1 DEF IndInv, TypeOK
  <1> QED BY <1>1, <1>2, <1>3 DEF Copied, Grows

LEMMA LastGrows ==
    ASSUME IndInv, NEW r \in Requests, Return(r) \/ Abort(r)
    PROVE  Grows(r)
  <1> DEFINE w == resp[r]
  <1>1. w \in Response /\ resp \in [Requests -> Response]
    BY DEF IndInv, TypeOK
  <1>2. CASE Return(r)
    <2>1. Sent(r) /\ resp'[r] = Finish(w)
      BY <1>1, <1>2 DEF IndInv, Served, Return, Go, Put
    <2>2. /\ Finish(w).body = w.body /\ Finish(w).end = "complete"
          /\ Finish(w).status = IF w.status = 0 THEN 200 ELSE w.status
      BY <1>1, FinishFields
    <2> QED BY <2>1, <2>2 DEF Sent, Grows
  <1>3. CASE Abort(r)
    <2>1. w.body \subseteq {"backend"} /\ w.end = "open" /\ resp'[r] = [w EXCEPT !.end = "cut"]
      BY <1>1, <1>3 DEF IndInv, Served, Abort, Go, Put
    <2>2. resp'[r].body = w.body /\ resp'[r].status = w.status
      BY <1>1, <2>1 DEF Response
    <2> QED BY <2>1, <2>2 DEF Grows
  <1> QED BY <1>2, <1>3

LEMMA RequestIsNext ==
    ASSUME IndInv, NEW r \in Requests, NEW h \in Hosts \cup {NoHost}, ServeHTTP(r, h)
    PROVE  NextRequest(r)
  BY DEF IndInv, TypeOK, ServeHTTP, NextRequest

\* A client never loses what it has got, and an error page stays whole, for any
\* number of requests at once.
THEOREM ResponsesAreFinal == Spec => ResponsesOnlyGrow
  <1>1. ASSUME IndInv, [Next]_vars, NEW r \in Requests
        PROVE  NextRequest(r) \/ Grows(r)
    <2>1. CASE resp'[r] = resp[r]
      BY <1>1, <2>1, SameGrows
    <2>2. CASE resp'[r] # resp[r]
      <3>1. PICK q \in Requests : Handle(q) \/ Backend(q) \/ Client(q)
        BY <1>1, <2>2 DEF Next, Tick, reqVars, vars
      <3>2. \/ Inform(q) \/ Upgrade(q) \/ RenderErrorPage(q) \/ Respond(q)
            \/ CopyPart(q) \/ Return(q) \/ Abort(q)
            \/ \E h \in Hosts \cup {NoHost} : ServeHTTP(q, h)
        BY <2>2, <3>1 DEF Handle, TripTimesOut, LeaveTrip, HandleError, LogThrottled, Backend, Uploaded, TripFails, TunnelCloses, CopyEnds,
                          CopyFails, Client, ClientLeaves, TripCancelled
      <3>3. q = r
        <4>1. \E w : resp' = [resp EXCEPT ![q] = w]
          BY <3>2 DEF Inform, Upgrade, RenderErrorPage, Respond, CopyPart, Return, Abort, ServeHTTP, Put
        <4> QED BY <1>1, <2>2, <4>1 DEF IndInv, TypeOK
      <3> QED BY <1>1, <3>2, <3>3, FirstGrows, CopyGrows, LastGrows, RequestIsNext
    <2> QED BY <2>1, <2>2
  <1>2. IndInv /\ [Next]_vars => [\A r \in Requests : NextRequest(r) \/ Grows(r)]_vars
    BY <1>1
  <1> QED BY <1>2, IndInvHolds, PTL DEF Spec, ResponsesOnlyGrow
=============================================================================
