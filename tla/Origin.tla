-------------------------------- MODULE Origin ---------------------------------
(***************************************************************************)
(* config::validate_public_origin and the Origin check of http::protect.   *)
(* The server keeps the configured value as it was written and compares    *)
(* it byte by byte with the one Origin header a changing request carries;  *)
(* a browser writes that header in a form of its own.                      *)
(*                                                                         *)
(* Texts are records of what validation and browsers tell apart: letters   *)
(* in upper case, zeros before the port, and what follows or precedes the  *)
(* host and the port.                                                      *)
(***************************************************************************)
EXTENDS Integers, Sequences

CONSTANTS
    Hosts,  \* records: name, and the name a browser writes for it
    Ports   \* explicit port numbers

ASSUME OriginAssumption == Hosts \subseteq [name : STRING, sent : STRING] /\ Ports \subseteq Nat

Schemes == {"https", "http", "ftp"}
NoPort == -1
Extras == {"none", "credentials", "path", "query", "fragment"}
LoopbackNames == {"localhost", "127.0.0.1", "[::1]"}

\* Values that may be configured: "not-an-origin" has no "://" and no authority.
Texts ==
    [separated : BOOLEAN, scheme : Schemes, upper : BOOLEAN, host : Hosts,
     port : Ports \cup {NoPort}, zeros : BOOLEAN, extra : Extras]

Values == {v \in Texts : v.port = NoPort => ~v.zeros}

VARIABLES
    value,      \* FUKULOW_PUBLIC_ORIGIN
    up,         \* "starting", "refused" or "serving"
    answered    \* the requests answered: the headers each carried, and its answer

ovars == <<value, up, answered>>

default_port(scheme) ==
    CASE scheme = "https" -> 443 [] scheme = "http" -> 80 [] OTHER -> NoPort

\* Mutant of port_is_plain: the last port is left out.
port_is_below(v) == v.port = NoPort \/ (v.port < 2^16 - 1 /\ ~v.zeros)

\* The port reads back as it was written: a u16 without zeros in front
port_is_plain(v) == v.port = NoPort \/ (v.port < 2^16 /\ ~v.zeros)

\* Mutant of validate_public_origin: the scheme's own port may be written.
validate_default_port(v) ==
    /\ v.separated /\ v.extra = "none" /\ port_is_plain(v) /\ ~v.upper
    /\ v.scheme = "https" \/ (v.scheme = "http" /\ v.host.name \in LoopbackNames)

validate_public_origin(v) ==
    /\ v.separated /\ v.extra = "none" /\ port_is_plain(v)
    /\ ~v.upper /\ (v.port = NoPort \/ v.port # default_port(v.scheme))
    /\ v.scheme = "https" \/ (v.scheme = "http" /\ v.host.name \in LoopbackNames)

\* What a browser sends from a page at v (the URL standard's serialized origin).
BrowserSends(v) ==
    [v EXCEPT !.upper = FALSE, !.zeros = FALSE, !.extra = "none",
              !.host = [name |-> v.host.sent, sent |-> v.host.sent],
              !.port = IF @ = default_port(v.scheme) THEN NoPort ELSE @]

\* Two texts are the same bytes.
SameText(v, w) == [v EXCEPT !.host = v.host.name] = [w EXCEPT !.host = w.host.name]

----------------------------------------------------------------------------
OriginInit == value \in Values /\ up = "starting" /\ answered = {}

Start ==
    /\ up = "starting"
    /\ up' = IF validate_public_origin(value) THEN "serving" ELSE "refused"
    /\ UNCHANGED <<value, answered>>

\* Mutant of admitted: the first header decides.
admitted_first(headers) == headers # <<>> /\ SameText(headers[1], value)

\* protect: one Origin header, equal to the configured value
admitted(headers) == Len(headers) = 1 /\ SameText(headers[1], value)

\* The headers of a request: a page of this origin or of another sends one; other
\* clients send none, or several.
Headers ==
    LET own == BrowserSends(value)
        other == [own EXCEPT !.scheme = IF @ = "https" THEN "http" ELSE "https"]
    IN { <<>>, <<own>>, <<other>>, <<own, other>>, <<other, own>>, <<own, own>> }

Ask ==
    /\ up = "serving"
    /\ \E h \in Headers : answered' = answered \cup {[headers |-> h, admitted |-> admitted(h)]}
    /\ UNCHANGED <<value, up>>

OriginNext == Start \/ Ask

OriginSpec == OriginInit /\ [][OriginNext]_ovars

----------------------------------------------------------------------------
(***************************************************************************)
(* README: refused is "any form a browser does not send", so that no       *)
(* server starts and "then refuse[s] every same-origin request that        *)
(* changes state" (config.rs).  It holds for hosts browsers keep as they   *)
(* are written: an address that is not in its shortest form is accepted.   *)
(***************************************************************************)
OwnPagesAreAdmitted ==
    \A r \in answered :
        r.headers = <<BrowserSends(value)>> /\ value.host.sent = value.host.name => r.admitted

\* HTTP.md: "Missing, duplicate or unequal origins return 403": whatever was
\* configured, only the one header of the server's own pages gets through.
OnlyOwnPagesAreAdmitted ==
    \A r \in answered : r.admitted => r.headers = <<BrowserSends(value)>>

\* The validation refuses nothing a browser on HTTPS or on a loopback host would send.
SerializedOriginsStart ==
    /\ up = "refused" /\ value.separated /\ value.port < 2^16
    /\ value.scheme = "https" \/ (value.scheme = "http" /\ value.host.name \in LoopbackNames)
    => ~SameText(BrowserSends(value), value)
===============================================================================
