----------------------------- MODULE MCRequests -----------------------------
(***************************************************************************)
(* Requests for TLC.                                                       *)
(***************************************************************************)
EXTENDS Requests, TLC

CONSTANTS r1, r2, k1, k2, s1

\* A request with nothing special about it, to be changed where needed.
Plain(route) == [route |-> route, method |-> "other", origin |-> Absent,
                 forwarded |-> Absent, forwardedFor |-> Absent, realIP |-> Absent,
                 protocol |-> "connect", token |-> Absent, id |-> Absent]

\* Two callers that are sanitised to one key, by two headers and in two
\* protocols, and one whose address is empty.
GRPCLogin == [Plain("Login") EXCEPT !.forwarded = "A", !.protocol = "grpc"]

Logins == {[Plain("Login") EXCEPT !.forwarded = "", !.forwardedFor = "a", !.realIP = "b"],
           [Plain("Login") EXCEPT !.realIP = ""]}

Others == {[Plain("/healthz") EXCEPT !.id = "x"],
           Plain("/readyz"), Plain("/metrics"), Plain("/unmounted"), Plain("Ping"),
           [Plain("Ping") EXCEPT !.origin = "elsewhere"],
           [Plain("Login") EXCEPT !.origin = "web", !.method = "OPTIONS"],
           [Plain("ListGameServers") EXCEPT !.origin = "web", !.token = s1],
           [Plain("ListGameServers") EXCEPT !.protocol = "grpc-web"]}

Mix == r1 :> {GRPCLogin} @@ r2 :> Logins \cup Others

Callers == {Client(q) : q \in {GRPCLogin} \cup Logins \cup Others}

Sanitized == [c \in Callers |-> IF c[2] \in {"a", "A"} THEN k1 ELSE k2]
=============================================================================
