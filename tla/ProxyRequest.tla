---------------------------- MODULE ProxyRequest ----------------------------
(***************************************************************************)
(* The reverse proxy of DevTether: concurrent requests from the accept of  *)
(* the request to the end of its response, as Handler and                  *)
(* LoggingMiddleware of internal/proxy serve them, and the throttle cache  *)
(* they share.  net/http and httputil.ReverseProxy are external: they      *)
(* decide when the handler's hooks run and what the client gets from what  *)
(* is written to the innermost ResponseWriter.                             *)
(***************************************************************************)
EXTENDS Integers, FiniteSets

CONSTANTS
    Requests,       \* the client connections, each with one request at a time
    Hosts,          \* the Host headers after NormalizeHost
    NoHost,         \* ... and the empty one
    Ports,          \* the backend ports
    Route,          \* the routing table: Route[h] is a port, or NoPort
    NoPort,
    BackendCodes,   \* the final statuses of the backends
    Cooldown,       \* errorCooldown
    LogCacheLimit,  \* logCacheLimit
    MaxTime         \* bound on the clock

ASSUME TableIsRouted == NoHost \notin Hosts /\ NoPort \notin Ports
                        /\ Route \in [Hosts -> Ports \cup {NoPort}]
ASSUME LimitsArePositive == Cooldown \in Nat \ {0} /\ LogCacheLimit \in Nat \ {0}
                            /\ MaxTime \in Nat
ASSUME BackendCodesAreFinal == BackendCodes \subseteq 200..999

VARIABLES
    phase,     \* phase[r]: where the handler goroutine of r is
    target,    \* target[r]: the port in the context of r's request
    gone,      \* gone[r]: the client of r has disconnected
    answer,    \* answer[r]: the backend's final status, 0 before it
    whole,     \* whole[r]: the backend's body has arrived to its end
    resp,      \* resp[r]: loggingResponseWriter, and what the client has got
    upload,    \* upload[r]: the transport still writes the body of r's request
    line,      \* line[r]: the status in r's access log line, 0 before it
    clock,     \* time.Now()
    read,      \* read[r]: the time that LoggedRecently read before it locked
    cache,     \* throttleCache.items: port -> time
    lastLine,  \* lastLine[p]: the time of the last error line about port p
    logged     \* logged[r]: LoggedRecently let r's failure through, a line is written

reqVars  == <<phase, target, gone, answer, whole, resp, upload, line>>
vars     == <<reqVars, clock, read, cache, lastLine, logged>>

\* Statuses: an informational one, those of the backends, those of error pages.
EarlyHints == 103
SwitchingProtocols == 101
PageCodes == {400, 404, 502}
Codes == {200, EarlyHints, SwitchingProtocols} \cup BackendCodes \cup PageCodes

Phases == {"idle", "trip", "copy", "tunnel", "error", "throttle",
           "page", "panic", "return", "done"}

\* wrote and code are the fields of loggingResponseWriter; info, status, body
\* and end are what the client sees.
Response == [wrote : BOOLEAN, code : Codes, info : BOOLEAN, status : {0} \cup Codes,
             body : SUBSET {"backend", "page"}, end : {"open", "complete", "cut"}]

\* newLoggingResponseWriter, and a client that has got nothing yet.
Blank == [wrote |-> FALSE, code |-> 200, info |-> FALSE,
          status |-> 0, body |-> {}, end |-> "open"]

TypeOK ==
    /\ phase \in [Requests -> Phases]
    /\ target \in [Requests -> Ports \cup {NoPort}]
    /\ gone \in [Requests -> BOOLEAN]
    /\ answer \in [Requests -> {0} \cup BackendCodes]
    /\ whole \in [Requests -> BOOLEAN]
    /\ resp \in [Requests -> Response]
    /\ upload \in [Requests -> BOOLEAN]
    /\ line \in [Requests -> {0} \cup Codes]
    /\ clock \in 0..MaxTime
    /\ read \in [Requests -> 0..MaxTime]
    /\ DOMAIN cache \subseteq Ports /\ \A p \in DOMAIN cache : cache[p] \in 0..MaxTime
    /\ lastLine \in [Ports -> (-Cooldown)..MaxTime]
    /\ logged \in [Requests -> BOOLEAN]

Init ==
    /\ phase = [r \in Requests |-> "idle"]
    /\ target = [r \in Requests |-> NoPort]
    /\ gone = [r \in Requests |-> FALSE]
    /\ answer = [r \in Requests |-> 0]
    /\ whole = [r \in Requests |-> FALSE]
    /\ resp = [r \in Requests |-> Blank]
    /\ upload = [r \in Requests |-> FALSE]
    /\ line = [r \in Requests |-> 0]
    /\ clock = 0
    /\ read = [r \in Requests |-> 0]
    /\ cache = [p \in {} |-> 0]
    /\ lastLine = [p \in Ports |-> -Cooldown]   \* long ago
    /\ logged = [r \in Requests |-> FALSE]

-----------------------------------------------------------------------------
(* Writing a response *)

\* net/http: an informational header is sent at once and is not the final one;
\* of the final ones the first counts.
SendHeader(w, code) ==
    IF code = EarlyHints THEN [w EXCEPT !.info = TRUE]
    ELSE IF w.status = 0 THEN [w EXCEPT !.status = code] ELSE w

\* Defect: the header is recorded, and not passed on.
HeaderKept(w, code) == IF w.wrote THEN w ELSE [w EXCEPT !.wrote = TRUE, !.code = code]

\* loggingResponseWriter.WriteHeader: the first call only.
Header(w, code) ==
    IF w.wrote THEN w ELSE [SendHeader(w, code) EXCEPT !.wrote = TRUE, !.code = code]

\* loggingResponseWriter.Write, on a net/http writer that sends 200 when no
\* final header came before the body.
Body(w, source) == [SendHeader(Header(w, 200), 200) EXCEPT !.body = @ \cup {source}]

\* renderErrorPage.
Page(w, code) == Body(Header(w, code), "page")

\* The handler returned: net/http ends the response.  One that is shorter than
\* promised is not the handler's to end: its copy panicked.
Finish(w) == [SendHeader(w, 200) EXCEPT !.end = "complete"]

-----------------------------------------------------------------------------
(* One request *)

Go(r, from, to) == phase[r] = from /\ phase' = [phase EXCEPT ![r] = to]
Put(r, w) == resp' = [resp EXCEPT ![r] = w]

\* Variables of r that most steps leave alone.
Inputs == <<target, gone, answer, whole>>
Throttled == <<clock, read, cache, lastLine, logged>>

\* RoundTrip is over for r, and with it the writing of the request.
LeaveTrip(r, to) == Go(r, "trip", to) /\ upload' = [upload EXCEPT ![r] = FALSE]

\* router.Engine.Resolve: no change of the table after the start.
Resolve(h) == IF h = NoHost THEN NoPort ELSE Route[h]

\* Defect: a host without a route is proxied to port 0.
ServeUnresolved(r, h) ==
    LET port == Resolve(h) IN
    /\ phase[r] \in {"idle", "done"} /\ ~gone[r]
    /\ target' = [target EXCEPT ![r] = port]
    /\ phase' = [phase EXCEPT ![r] = "trip"]
    /\ Put(r, Blank)
    /\ UNCHANGED <<gone, answer, whole, upload, line, Throttled>>

\* A request, the first or the next, comes in on connection r with host h, and
\* Handler.ServeHTTP starts: a page for an empty host and for one without a
\* route; else the target goes into the request's context, once, and the
\* transport writes the request, with a body that takes its time or without.
ServeHTTP(r, h) ==
    LET port == Resolve(h) IN
    /\ phase[r] \in {"idle", "done"} /\ ~gone[r]
    /\ resp[r].end # "cut" /\ resp[r].status # SwitchingProtocols
    /\ target' = [target EXCEPT ![r] = port]
    /\ answer' = [answer EXCEPT ![r] = 0]
    /\ whole' = [whole EXCEPT ![r] = FALSE]
    /\ line' = [line EXCEPT ![r] = 0]
    /\ phase' = [phase EXCEPT ![r] = IF port = NoPort THEN "return" ELSE "trip"]
    /\ \E body \in BOOLEAN : upload' = [upload EXCEPT ![r] = body /\ port # NoPort]
    /\ Put(r, IF port # NoPort THEN Blank ELSE Page(Blank, IF h = NoHost THEN 400 ELSE 404))
    /\ UNCHANGED <<gone, Throttled>>

\* The backend has read the whole body of the request.
Uploaded(r) ==
    /\ phase[r] = "trip" /\ upload[r]
    /\ upload' = [upload EXCEPT ![r] = FALSE]
    /\ UNCHANGED <<phase, Inputs, resp, line, Throttled>>

\* The backend sends 100 Continue or 103 Early Hints, which ReverseProxy
\* passes on through WriteHeader.
Inform(r) ==
    /\ phase[r] = "trip" /\ ~resp[r].info
    /\ Put(r, Header(resp[r], EarlyHints))
    /\ UNCHANGED <<phase, Inputs, upload, line, Throttled>>

\* The backend's final header arrives, also before it has read the whole request.
Respond(r) ==
    /\ LeaveTrip(r, "copy")
    /\ \E code \in BackendCodes :
          answer' = [answer EXCEPT ![r] = code] /\ Put(r, Header(resp[r], code))
    /\ UNCHANGED <<target, gone, whole, line, Throttled>>

\* The backend switches protocols: ReverseProxy hijacks the connection through
\* Unwrap, past the loggingResponseWriter.
Upgrade(r) ==
    /\ LeaveTrip(r, "tunnel")
    /\ Put(r, SendHeader(resp[r], SwitchingProtocols))
    /\ UNCHANGED <<Inputs, line, Throttled>>

TunnelCloses(r) == Go(r, "tunnel", "return") /\ UNCHANGED <<Inputs, resp, upload, line, Throttled>>

CopyPart(r) ==
    /\ phase[r] = "copy"
    /\ Put(r, Body(resp[r], "backend"))
    /\ UNCHANGED <<phase, Inputs, upload, line, Throttled>>

CopyEnds(r) ==
    /\ Go(r, "copy", "return")
    /\ whole' = [whole EXCEPT ![r] = TRUE]
    /\ UNCHANGED <<target, gone, answer, resp, upload, line, Throttled>>

\* The backend or the client is lost in the body: ReverseProxy panics.
CopyFails(r) == Go(r, "copy", "panic") /\ UNCHANGED <<Inputs, resp, upload, line, Throttled>>

ClientLeaves(r) ==
    /\ phase[r] \notin {"idle", "done"} /\ ~gone[r]
    /\ gone' = [gone EXCEPT ![r] = TRUE]
    /\ UNCHANGED <<phase, target, answer, whole, resp, upload, line, Throttled>>

\* The dial is refused or times out, or a connection breaks, at any moment: that
\* of the backend, or that of the client while it uploads.
TripFails(r) == LeaveTrip(r, "error") /\ UNCHANGED <<Inputs, resp, line, Throttled>>

\* Defect: no ResponseHeaderTimeout; the wait ends when the client gives up.
TripTimesOutOnLeave(r) ==
    /\ gone[r] /\ ~upload[r]
    /\ LeaveTrip(r, "error")
    /\ UNCHANGED <<Inputs, resp, line, Throttled>>

\* ResponseHeaderTimeout passes.  The transport starts it only when the whole
\* request is written; no timeout limits the writing.
TripTimesOut(r) ==
    /\ ~upload[r]
    /\ LeaveTrip(r, "error")
    /\ UNCHANGED <<Inputs, resp, line, Throttled>>

\* ErrorHandler on context.Canceled: nothing is written.
TripCancelled(r) ==
    gone[r] /\ LeaveTrip(r, "return") /\ UNCHANGED <<Inputs, resp, line, Throttled>>

\* Defect: HeadersSent is not asked.
AlwaysRender(r) ==
    /\ Go(r, "error", "throttle")
    /\ read' = [read EXCEPT ![r] = clock]
    /\ UNCHANGED <<Inputs, resp, upload, line, clock, cache, lastLine, logged>>

\* ErrorHandler on any other error: when headers were sent it aborts, else it
\* enters LoggedRecently, which reads the time before it locks.
HandleError(r) ==
    /\ IF resp[r].wrote
       THEN Go(r, "error", "panic") /\ UNCHANGED read
       ELSE Go(r, "error", "throttle") /\ read' = [read EXCEPT ![r] = clock]
    /\ UNCHANGED <<Inputs, resp, upload, line, clock, cache, lastLine, logged>>

\* Evict(c): c when it has room, else c without one entry, any entry.
Evict(c) == IF Cardinality(DOMAIN c) < LogCacheLimit THEN {c}
            ELSE {[q \in DOMAIN c \ {p} |-> c[q]] : p \in DOMAIN c}

\* Defect: an entry is not looked at before it is replaced.
AlwaysLog(r) ==
    LET p == target[r] IN
    /\ Go(r, "throttle", "page")
    /\ \E c \in Evict(cache) :
          cache' = [q \in DOMAIN c \cup {p} |-> IF q = p THEN read[r] ELSE c[q]]
    /\ lastLine' = [lastLine EXCEPT ![p] = read[r]] /\ logged' = [logged EXCEPT ![r] = TRUE]
    /\ read' = [read EXCEPT ![r] = 0]   \* out of scope
    /\ UNCHANGED <<Inputs, resp, upload, line, clock>>

\* LoggedRecently under its mutex, and the line that logErrorThrottled writes.
LogThrottled(r) ==
    LET p == target[r] IN
    /\ Go(r, "throttle", "page")
    /\ IF p \in DOMAIN cache /\ read[r] - cache[p] < Cooldown
       THEN logged' = [logged EXCEPT ![r] = FALSE] /\ UNCHANGED <<cache, lastLine>>
       ELSE /\ \E c \in Evict(cache) :
                  cache' = [q \in DOMAIN c \cup {p} |-> IF q = p THEN read[r] ELSE c[q]]
            /\ lastLine' = [lastLine EXCEPT ![p] = read[r]] /\ logged' = [logged EXCEPT ![r] = TRUE]
    /\ read' = [read EXCEPT ![r] = 0]   \* out of scope
    /\ UNCHANGED <<Inputs, resp, upload, line, clock>>

RenderErrorPage(r) ==
    /\ Go(r, "page", "return")
    /\ Put(r, Page(resp[r], 502))
    /\ logged' = [logged EXCEPT ![r] = FALSE]
    /\ UNCHANGED <<Inputs, upload, line, clock, read, cache, lastLine>>

\* The handler returns: LoggingMiddleware writes the access line.
Return(r) ==
    /\ Go(r, "return", "done")
    /\ line' = [line EXCEPT ![r] = resp[r].code]
    /\ Put(r, Finish(resp[r]))
    /\ target' = [target EXCEPT ![r] = NoPort]
    /\ UNCHANGED <<gone, answer, whole, upload, Throttled>>

\* Defect: the middleware recovers the panic and returns.
Recovered(r) ==
    /\ Go(r, "panic", "done")
    /\ line' = [line EXCEPT ![r] = resp[r].code]
    /\ Put(r, Finish(resp[r]))
    /\ target' = [target EXCEPT ![r] = NoPort]
    /\ UNCHANGED <<gone, answer, whole, upload, Throttled>>

\* ErrAbortHandler passes through LoggingMiddleware, which writes no line, and
\* net/http cuts the connection.
Abort(r) ==
    /\ Go(r, "panic", "done")
    /\ Put(r, [resp[r] EXCEPT !.end = "cut"])
    /\ target' = [target EXCEPT ![r] = NoPort]
    /\ UNCHANGED <<gone, answer, whole, upload, line, Throttled>>

Tick ==
    /\ clock < MaxTime
    /\ clock' = clock + 1
    /\ UNCHANGED <<reqVars, read, cache, lastLine, logged>>

-----------------------------------------------------------------------------
Handle(r) == \/ TripTimesOut(r)
             \/ HandleError(r) \/ LogThrottled(r) \/ RenderErrorPage(r)
             \/ Return(r) \/ Abort(r)
Backend(r) == \/ Uploaded(r) \/ TripFails(r)
              \/ Inform(r) \/ Respond(r) \/ Upgrade(r) \/ TunnelCloses(r)
              \/ CopyPart(r) \/ CopyEnds(r) \/ CopyFails(r)
Client(r) == (\E h \in Hosts \cup {NoHost} : ServeHTTP(r, h)) \/ ClientLeaves(r) \/ TripCancelled(r)

Next == Tick \/ \E r \in Requests : Handle(r) \/ Backend(r) \/ Client(r)

Spec == Init /\ [][Next]_vars

\* A handler that can run runs, and ResponseHeaderTimeout fires once it is armed;
\* no backend has to read a request, to answer, or to end what it sends, and no
\* dial or connection has to fail.
FairSpec == Spec /\ \A r \in Requests : WF_vars(Handle(r))

-----------------------------------------------------------------------------
(* Properties *)

\* "Never corrupt the payload" (ADR-008, handler.go:64-66): an error page is
\* never added to what a backend sent, and never goes out under a status that
\* is not an error's.
PayloadIntact ==
    \A r \in Requests : "page" \in resp[r].body =>
        resp[r].body = {"page"} /\ resp[r].status \in PageCodes

\* A client that stayed never takes a truncated backend answer for a complete
\* one, whatever failed and wherever (handler.go:66, middleware.go:67-78).
TruncationShows ==
    \A r \in Requests :
        resp[r].end = "complete" /\ answer[r] # 0 /\ ~gone[r] => whole[r]

\* Without informational answers the client gets the backend's status and the
\* access log names the status the client got; tunnels are logged as 200.
StatusIsHonest ==
    \A r \in Requests :
        resp[r].end = "complete" /\ ~resp[r].info /\ ~gone[r] /\ resp[r].status # SwitchingProtocols
            => /\ line[r] = resp[r].status
               /\ answer[r] # 0 => resp[r].status = answer[r]

\* Errors of one target are logged "at most once per cooldown period"
\* (handler.go:147), in spite of the time that is read before the lock: a line
\* that follows another about its target within the cooldown, at the same instant
\* or out of order, is written only when the cache has run full and evicted the
\* target.
RepeatNeedsEviction ==
    [][\A r \in Requests :
          (/\ phase[r] = "throttle" /\ phase'[r] = "page" /\ logged'[r]
           /\ read[r] - lastLine[target[r]] < Cooldown)
              => Cardinality(DOMAIN cache') = LogCacheLimit]_vars

\* A request that is written and whose backend stays silent gets an answer or a
\* cut connection: ResponseHeaderTimeout (handler.go:48) leads through the error
\* handler, its throttle and the page to the end of the response, also behind
\* informational answers.  An upload that the backend does not read may last.
SilentBackendAnswered ==
    \A r \in Requests :
        phase[r] = "trip" /\ ~upload[r] ~>
            answer[r] # 0 \/ resp[r].status = SwitchingProtocols \/ resp[r].end # "open"

-----------------------------------------------------------------------------
(* What a comment says and the code does not keep *)

\* loggingResponseWriter wraps a ResponseWriter "to capture the HTTP status
\* code" (middleware.go:12-13) of the response.  An informational header takes
\* the place of the final one, which is then dropped.
StatusIsCaptured ==
    \A r \in Requests :
        resp[r].end = "complete" /\ ~gone[r] /\ answer[r] # 0 => line[r] = resp[r].status
=============================================================================
