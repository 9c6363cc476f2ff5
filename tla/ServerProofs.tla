----------------------------- MODULE ServerProofs ------------------------------
(***************************************************************************)
(* The life of the process, for any number of clients and any pool: no     *)
(* signal ends an announced server, and the pool outlives the requests.    *)
(* Then the public origin it is configured with, for any hosts and ports.  *)
(***************************************************************************)
EXTENDS Server, Origin, TLAPS

\* What main has done by each of its phases.
PhasesInOrder ==
    /\ phase \in {"serve", "drain"} => announced
    /\ phase \in {"configure", "connect", "register", "bind"} => ~announced
    /\ phase = "bind" => registered
    /\ announced => registered /\ phase # "killed"

\* The phases in which a request may be in flight: from serve to the end of the drain.
FlightsInTime ==
    /\ phase \notin {"serve", "drain"} => \A c \in Clients : req[c] \notin InFlight
    /\ pool = "closed" => phase \in {"closing"} \cup Over

ServerInvariant == ServerTypeOK /\ PhasesInOrder /\ FlightsInTime

\* Before the start nothing is announced, in flight or open.
LEMMA ServerStarts == ServerInit => ServerInvariant
<1> SUFFICES ASSUME ServerInit PROVE ServerInvariant
    OBVIOUS
<1>1. MaxBegins \in 0..MaxBegins
    BY PoolAssumption
<1>2. ServerTypeOK
    BY <1>1, Zenon DEF ServerInit, ServerTypeOK, Phases, InFlight
<1>3. PhasesInOrder /\ FlightsInTime
    BY DEF ServerInit, PhasesInOrder, FlightsInTime, InFlight
<1> QED
    BY <1>2, <1>3 DEF ServerInvariant

\* main's own steps keep the order of the phases, and drain before they close.
LEMMA ServerStepKeeps ==
    ASSUME ServerInvariant, ServerStep \/ Signal
    PROVE  ServerInvariant'
<1> USE DEF ServerInvariant, ServerTypeOK, PhasesInOrder, FlightsInTime, Phases,
    InFlight, Over
<1>1. CASE Configure
    BY <1>1 DEF Configure
<1>2. CASE Connect
    BY <1>2 DEF Connect
<1>3. CASE Register
    BY <1>3 DEF Register
<1>4. CASE Bind
    BY <1>4 DEF Bind
<1>5. CASE StopListening
    BY <1>5 DEF StopListening
<1>6. CASE Drained
    BY <1>6 DEF Drained
<1>7. CASE ClosePool
    BY <1>7 DEF ClosePool
<1>8. CASE Exit
    BY <1>8 DEF Exit
<1>9. CASE Signal
    BY <1>9 DEF Signal
<1> QED
    BY <1>1, <1>2, <1>3, <1>4, <1>5, <1>6, <1>7, <1>8, <1>9 DEF ServerStep

\* A request moves within the states of a request and leaves the process alone;
\* it enters flight only while the server serves.
LEMMA MoveKeeps ==
    ASSUME ServerInvariant, NEW c \in Clients,
           NEW from \in SUBSET ({"unsent"} \cup InFlight),
           NEW to \in {"answered", "failed", "gone"} \cup InFlight,
           Move(c, from, to), begins' \in [Clients -> 0..MaxBegins],
           phase = "serve" \/ from \subseteq InFlight
    PROVE  ServerInvariant'
<1> USE DEF ServerInvariant, Move, process
<1>1. ServerTypeOK'
    BY DEF ServerTypeOK, InFlight
<1>2. PhasesInOrder'
    BY DEF PhasesInOrder
<1>3. FlightsInTime'
    <2>1. phase \in {"serve", "drain"}
        BY DEF FlightsInTime
    <2> QED
        BY <2>1 DEF FlightsInTime, Over
<1> QED
    BY <1>1, <1>2, <1>3

\* What a client and its handler do.
LEMMA RequestKeeps ==
    ASSUME ServerInvariant, NEW c \in Clients,
           Accept(c) \/ RequestStep(c) \/ HangUp(c)
    PROVE  ServerInvariant'
<1> USE DEF InFlight
<1>0. begins \in [Clients -> 0..MaxBegins]
    BY DEF ServerInvariant, ServerTypeOK
<1>1. CASE Accept(c)
    BY <1>0, <1>1, MoveKeeps DEF Accept
<1>2. CASE AnswerRequest(c)
    BY <1>0, <1>2, MoveKeeps DEF AnswerRequest
<1>3. CASE WantConnection(c)
    <2>1. begins' \in [Clients -> 0..MaxBegins]
        BY <1>0, <1>3, PoolAssumption DEF WantConnection
    <2> QED
        BY <1>3, <2>1, MoveKeeps DEF WantConnection
<1>4. CASE AcquireConnection(c)
    BY <1>0, <1>4, MoveKeeps DEF AcquireConnection
<1>5. CASE AcquireTimeout(c)
    BY <1>0, <1>5, MoveKeeps DEF AcquireTimeout
<1>6. CASE Release(c)
    BY <1>0, <1>6, MoveKeeps DEF Release
<1>7. CASE HangUp(c)
    BY <1>0, <1>7, MoveKeeps DEF HangUp
<1> QED
    BY <1>1, <1>2, <1>3, <1>4, <1>5, <1>6, <1>7 DEF RequestStep

\* The invariant is inductive.
LEMMA ServerInvariantHolds == ServerSpec => []ServerInvariant
<1>1. ServerInvariant /\ [ServerNext]_svars => ServerInvariant'
    <2> SUFFICES ASSUME ServerInvariant, [ServerNext]_svars
                 PROVE  ServerInvariant'
        OBVIOUS
    <2>1. CASE ServerStep \/ Signal
        BY <2>1, ServerStepKeeps
    <2>2. CASE \E c \in Clients : Accept(c) \/ RequestStep(c) \/ HangUp(c)
        BY <2>2, RequestKeeps
    <2>3. CASE UNCHANGED svars
        BY <2>3 DEF svars, process, ServerInvariant, ServerTypeOK, PhasesInOrder,
           FlightsInTime
    <2> QED
        BY <2>1, <2>2, <2>3 DEF ServerNext
<1> QED
    BY <1>1, ServerStarts, PTL DEF ServerSpec

\* http::run registers the signals before it announces the listener: for any number
\* of clients, a server that said it listens is never ended by a signal.
THEOREM SignalsAreHandled == ServerSpec => []AnnouncedSurvivesSignals
<1>1. ServerInvariant => AnnouncedSurvivesSignals
    BY DEF ServerInvariant, PhasesInOrder, AnnouncedSurvivesSignals
<1> QED
    BY <1>1, ServerInvariantHolds, PTL

\* main closes the pool after run has drained: for any number of clients and any
\* pool, no request in flight meets a closed pool or the exit of the process.
THEOREM PoolIsClosedLast == ServerSpec => []PoolOutlivesRequests
<1>1. ServerInvariant => PoolOutlivesRequests
    BY DEF ServerInvariant, FlightsInTime, PoolOutlivesRequests, Over
<1> QED
    BY <1>1, ServerInvariantHolds, PTL

\* For any number of clients and any pool, the process and its requests stay in their
\* states, and no handler begins more transactions than it may.
THEOREM ServerTypeCorrect == ServerSpec => []ServerTypeOK
<1>1. ServerInvariant => ServerTypeOK
    BY DEF ServerInvariant
<1> QED
    BY <1>1, ServerInvariantHolds, PTL

----------------------------------------------------------------------------
(* The public origin.                                                      *)

\* A server serves what validation accepted, refuses what it did not, and answered each
\* request as protect decides for its headers.
OriginInvariant ==
    /\ value \in Values
    /\ up \in {"starting", "refused", "serving"}
    /\ up = "refused" => ~validate_public_origin(value)
    /\ answered # {} => validate_public_origin(value)
    /\ up = "serving" => validate_public_origin(value)
    /\ \A r \in answered : r.headers \in Headers /\ r.admitted = admitted(r.headers)

\* The parts of a text are of their kinds.
LEMMA TextParts ==
    ASSUME NEW v \in Texts
    PROVE  /\ v = [separated |-> v.separated, scheme |-> v.scheme, upper |-> v.upper,
                   host |-> v.host, port |-> v.port, zeros |-> v.zeros, extra |-> v.extra]
           /\ v.separated \in BOOLEAN /\ v.upper \in BOOLEAN /\ v.zeros \in BOOLEAN
           /\ v.scheme \in Schemes /\ v.host \in Hosts /\ v.port \in Ports \cup {NoPort}
           /\ v.extra \in Extras
    BY DEF Texts

\* A text is its seven parts.
IsText(v) ==
    v = [separated |-> v.separated, scheme |-> v.scheme, upper |-> v.upper,
         host |-> v.host, port |-> v.port, zeros |-> v.zeros, extra |-> v.extra]

\* Texts are the same bytes when their parts are, and their hosts' names.
LEMMA SameTextParts ==
    ASSUME NEW v, NEW w, IsText(v), IsText(w)
    PROVE  SameText(v, w) <=>
               /\ v.separated = w.separated /\ v.scheme = w.scheme /\ v.upper = w.upper
               /\ v.host.name = w.host.name /\ v.port = w.port /\ v.zeros = w.zeros
               /\ v.extra = w.extra
<1> DEFINE named(x) ==
        [separated |-> x.separated, scheme |-> x.scheme, upper |-> x.upper,
         host |-> x.host.name, port |-> x.port, zeros |-> x.zeros, extra |-> x.extra]
<1>1. [v EXCEPT !.host = v.host.name] = named(v)
    BY DEF IsText
<1>2. [w EXCEPT !.host = w.host.name] = named(w)
    BY DEF IsText
<1>3. SameText(v, w) <=> named(v) = named(w)
    BY <1>1, <1>2 DEF SameText
<1>4. ASSUME NEW x
      PROVE  /\ named(x).separated = x.separated /\ named(x).scheme = x.scheme
             /\ named(x).upper = x.upper /\ named(x).host = x.host.name
             /\ named(x).port = x.port /\ named(x).zeros = x.zeros /\ named(x).extra = x.extra
    OBVIOUS
<1>5. ASSUME v.separated = w.separated, v.scheme = w.scheme, v.upper = w.upper,
             v.host.name = w.host.name, v.port = w.port, v.zeros = w.zeros,
             v.extra = w.extra
      PROVE  named(v) = named(w)
    BY <1>5
<1> HIDE DEF named
<1> QED
    BY <1>3, <1>4, <1>5

\* What a browser sends, part by part.
LEMMA BrowserParts ==
    ASSUME NEW v \in Texts
    PROVE  BrowserSends(v) =
               [separated |-> v.separated, scheme |-> v.scheme, upper |-> FALSE,
                host |-> [name |-> v.host.sent, sent |-> v.host.sent],
                port |-> IF v.port = default_port(v.scheme) THEN NoPort ELSE v.port,
                zeros |-> FALSE, extra |-> "none"]
<1> DEFINE port == IF v.port = default_port(v.scheme) THEN NoPort ELSE v.port
           host == [name |-> v.host.sent, sent |-> v.host.sent]
<1>1. BrowserSends(v) = [v EXCEPT !.upper = FALSE, !.zeros = FALSE, !.extra = "none",
                                  !.host = host, !.port = port]
    BY TextParts DEF BrowserSends
<1> HIDE DEF port, host
<1>2. BrowserSends(v) = [separated |-> v.separated, scheme |-> v.scheme, upper |-> FALSE,
                         host |-> host, port |-> port, zeros |-> FALSE, extra |-> "none"]
    BY <1>1, TextParts
<1> QED
    BY <1>2 DEF port, host

\* The invariant is inductive.
LEMMA OriginInvariantHolds == OriginSpec => []OriginInvariant
<1>1. OriginInit => OriginInvariant
    BY DEF OriginInit, OriginInvariant
<1>2. OriginInvariant /\ [OriginNext]_ovars => OriginInvariant'
    <2> SUFFICES ASSUME OriginInvariant, [OriginNext]_ovars
                 PROVE  OriginInvariant'
        OBVIOUS
    <2>1. CASE Start
        BY <2>1 DEF Start, OriginInvariant, Headers, admitted
    <2>2. CASE Ask
        <3>1. PICK h \in Headers :
                  answered' = answered \cup {[headers |-> h, admitted |-> admitted(h)]}
            BY <2>2 DEF Ask
        <3>2. UNCHANGED <<value, up>> /\ Headers' = Headers
            BY <2>2 DEF Ask, Headers
        <3>3. \A x : admitted(x)' = admitted(x)
            BY <3>2 DEF admitted
        <3>4. \A r \in answered' : r.headers \in Headers' /\ r.admitted = admitted(r.headers)'
            BY <3>1, <3>2, <3>3 DEF OriginInvariant
        <3> QED
            BY <2>2, <3>2, <3>4 DEF Ask, OriginInvariant
    <2>3. CASE UNCHANGED ovars
        BY <2>3 DEF ovars, OriginInvariant, Headers, admitted
    <2> QED
        BY <2>1, <2>2, <2>3 DEF OriginNext
<1> QED
    BY <1>1, <1>2, PTL DEF OriginSpec

\* What a browser sends differs from the text only where validation looks.
LEMMA AcceptedAsSent ==
    ASSUME NEW v \in Values, validate_public_origin(v), v.host.sent = v.host.name
    PROVE  SameText(BrowserSends(v), v)
<1>1. v \in Texts /\ (v.port = NoPort => ~v.zeros)
    BY DEF Values
<1>2. v.host \in [name : STRING, sent : STRING]
    BY <1>1, TextParts, OriginAssumption
<1>3. v.upper = FALSE /\ v.zeros = FALSE /\ v.extra = "none"
    BY <1>1, TextParts DEF validate_public_origin, port_is_plain
<1>4. v.port # default_port(v.scheme) \/ v.port = NoPort
    BY DEF validate_public_origin
<1>5. IsText(v) /\ IsText(BrowserSends(v))
    BY <1>1, TextParts, BrowserParts DEF IsText
<1> DEFINE own == BrowserSends(v)
<1>6. /\ own.separated = v.separated /\ own.scheme = v.scheme /\ own.upper = v.upper
      /\ own.host.name = v.host.name /\ own.port = v.port /\ own.zeros = v.zeros
      /\ own.extra = v.extra
    <2>1. own.host = [name |-> v.host.sent, sent |-> v.host.sent]
        BY <1>1, BrowserParts
    <2>2. own.port = IF v.port = default_port(v.scheme) THEN NoPort ELSE v.port
        BY <1>1, BrowserParts
    <2>3. /\ own.separated = v.separated /\ own.scheme = v.scheme /\ own.upper = FALSE
          /\ own.zeros = FALSE /\ own.extra = "none"
        BY <1>1, BrowserParts
    <2> HIDE DEF own
    <2>4. own.host.name = v.host.name
        BY <2>1
    <2>5. own.port = v.port
        BY <1>4, <2>2
    <2> QED
        BY <1>3, <2>3, <2>4, <2>5
<1> QED
    BY <1>5, <1>6, SameTextParts

\* README: no server starts and then refuses its own pages, for any host a browser
\* writes as it is configured, and any port.
THEOREM OwnPagesGetThrough == OriginSpec => []OwnPagesAreAdmitted
<1>1. OriginInvariant => OwnPagesAreAdmitted
    <2> SUFFICES ASSUME OriginInvariant, NEW r \in answered,
                        r.headers = <<BrowserSends(value)>>, value.host.sent = value.host.name
                 PROVE  r.admitted
        BY DEF OwnPagesAreAdmitted
    <2>1. SameText(BrowserSends(value), value)
        BY AcceptedAsSent DEF OriginInvariant
    <2>2. admitted(r.headers)
        BY <2>1 DEF admitted
    <2> QED
        BY <2>2 DEF OriginInvariant
<1> QED
    BY <1>1, OriginInvariantHolds, PTL

\* HTTP.md: missing, duplicate or unequal origins are refused, whatever was configured:
\* a page of the other scheme is never taken for one of the server's.
THEOREM OthersAreRefused == OriginSpec => []OnlyOwnPagesAreAdmitted
<1>1. OriginInvariant => OnlyOwnPagesAreAdmitted
    <2> SUFFICES ASSUME OriginInvariant, NEW r \in answered, r.admitted
                 PROVE  r.headers = <<BrowserSends(value)>>
        BY DEF OnlyOwnPagesAreAdmitted
    <2> DEFINE own == BrowserSends(value)
               other == [own EXCEPT !.scheme = IF @ = "https" THEN "http" ELSE "https"]
    <2>1. value \in Texts
        BY DEF OriginInvariant, Values
    <2>2. own.scheme = value.scheme /\ value.scheme \in Schemes
        BY <2>1, TextParts DEF BrowserSends
    <2>3. other.scheme # value.scheme
        BY <2>1, <2>2, TextParts DEF BrowserSends
    <2>4. ~SameText(other, value)
        <3>1. IsText(value) /\ IsText(other)
            BY <2>1, TextParts, BrowserParts DEF IsText
        <3> HIDE DEF other
        <3> QED
            BY <2>3, <3>1, SameTextParts
    <2>5. r.headers \in {<<>>, <<own>>, <<other>>, <<own, other>>, <<other, own>>, <<own, own>>}
        BY DEF OriginInvariant, Headers
    <2>6. Len(r.headers) = 1 /\ SameText(r.headers[1], value)
        BY DEF OriginInvariant, admitted
    <2> HIDE DEF own, other
    <2>7. r.headers = <<own>> \/ r.headers = <<other>>
        BY <2>5, <2>6
    <2> QED
        BY <2>4, <2>6, <2>7 DEF own
<1> QED
    BY <1>1, OriginInvariantHolds, PTL

\* config.rs refuses nothing that a browser on HTTPS or on a loopback host would send,
\* whatever the host and up to the last port.
THEOREM BrowserFormsStart == OriginSpec => []SerializedOriginsStart
<1>1. OriginInvariant => SerializedOriginsStart
    <2> SUFFICES ASSUME OriginInvariant, up = "refused", value.separated, value.port < 2^16,
                        \/ value.scheme = "https"
                        \/ value.scheme = "http" /\ value.host.name \in LoopbackNames,
                        SameText(BrowserSends(value), value)
                 PROVE  FALSE
        BY DEF SerializedOriginsStart
    <2>1. value \in Texts
        BY DEF OriginInvariant, Values
    <2> DEFINE own == BrowserSends(value)
    <2>2. /\ own.upper = value.upper /\ own.zeros = value.zeros /\ own.extra = value.extra
          /\ own.port = value.port
        <3>1. IsText(value) /\ IsText(own)
            BY <2>1, TextParts, BrowserParts DEF IsText
        <3> HIDE DEF own
        <3>2. SameText(own, value)
            BY DEF own
        <3> QED
            BY <3>1, <3>2, SameTextParts
    <2>3. /\ own.upper = FALSE /\ own.zeros = FALSE /\ own.extra = "none"
          /\ own.port = IF value.port = default_port(value.scheme) THEN NoPort ELSE value.port
        BY <2>1, TextParts DEF BrowserSends
    <2>4. validate_public_origin(value)
        BY <2>2, <2>3 DEF validate_public_origin, port_is_plain
    <2> QED
        BY <2>4 DEF OriginInvariant
<1> QED
    BY <1>1, OriginInvariantHolds, PTL
===============================================================================
