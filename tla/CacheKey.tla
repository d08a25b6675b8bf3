------------------------------ MODULE CacheKey ------------------------------
(***************************************************************************)
(* Which requests share a cache key: GenerateCacheKey, normalizeHost       *)
(* (internal/orchestrator/utils.go) and authParams (params.go), and the    *)
(* TTL of a host (orchestrator.go).                                        *)
(*                                                                         *)
(* A text is the sequence of its tokens: "/", ":", "?", "+" and "%20" are  *)
(* tokens, and so is what stands between two of them (an address in        *)
(* brackets is not cut).  A text is cut in one way only, and every joint   *)
(* of the text that is hashed is at one of the signs, so that two texts    *)
(* are equal when their tokens are.  What url.Parse returns is a record:   *)
(*                                                                         *)
(*   scheme  in lower case                                                 *)
(*   opaque  what follows a scheme without a slash                         *)
(*   host    its name and its port                                         *)
(*   path    the escaped path                                              *)
(*   query   the pairs, in their order, and whether each is well formed    *)
(*                                                                         *)
(* A scheme, an opaque text, a name or a port that is not there is "none". *)
(* The user and the fragment are not read.  Left out are a host with a     *)
(* colon and no port after it, and a colon in a name outside brackets.     *)
(* SHA-256 is taken to be injective, so that a key is the text that is     *)
(* hashed, and so is url.Values.Encode, which sorts and escapes.           *)
(***************************************************************************)
EXTENDS Integers, Sequences

Piece == STRING \ {"/", ":", "?"}

\* A name, in lower case and as it is written.
Spelled(S) == [lower : S, spelling : STRING]

Host == [name : Spelled(Piece), port : Piece]

Pair == [name : Spelled(STRING), value : STRING, formed : BOOLEAN]

\* After a host, and after a scheme that is not followed by an opaque text, a path
\* begins with a slash.
URL == {u \in [scheme : Piece, opaque : STRING, host : Host,
               path : Seq(Piece \cup {"/", ":"}), query : Seq(Pair)] :
          /\ u.scheme # "none" \/ u.host.name.lower # "none" \/ u.host.port # "none"
               => u.path = <<>> \/ u.path[1] = "/"
          /\ u.opaque # "none" => u.scheme # "none" /\ u.host.name.lower = "none" /\ u.path = <<>>}

\* The scheme tells whether a port is the default one.
Redundant(scheme, port) == \/ scheme = "http" /\ port = "80"
                           \/ scheme = "https" /\ port = "443"

HostText(name, port) == (IF name = "none" THEN <<>> ELSE <<name>>)
                          \o (IF port = "none" THEN <<>> ELSE <<":", port>>)

normalizeHost(scheme, host) ==
    HostText(host.name.lower, IF Redundant(scheme, host.port) THEN "none" ELSE host.port)

\* Spaces are written one way, an empty path is the root, and of another path
\* one slash is cut off at the end.
Spaced(p) == [i \in DOMAIN p |-> IF p[i] = "+" THEN "%20" ELSE p[i]]

Trimmed(p) == IF p[Len(p)] = "/" THEN SubSeq(p, 1, Len(p) - 1) ELSE p

normalizePath(p) == IF Spaced(p) \in {<<>>, <<"/">>} THEN <<"/">> ELSE Trimmed(Spaced(p))

authParams ==
    {"token", "access_token", "api_key", "apikey", "signature", "sig", "expires", "state",
     "x-amz-algorithm", "x-amz-credential", "x-amz-date", "x-amz-expires",
     "x-amz-signedheaders", "x-amz-signature", "x-amz-security-token",
     "x-goog-algorithm", "goog-hash", "x-goog-credential", "x-goog-date", "x-goog-expires",
     "x-goog-signedheaders", "x-goog-signature", "authuser", "key",
     "se", "sp", "st", "sr", "srt", "ss", "sv", "cf_token", "fastly_hash"}

\* u.Query(): the values of a parameter, in their order.  A pair that is not well
\* formed (a semicolon, a bad escape) is dropped, and its error with it.
Given(query, n) ==
    LET own == SelectSeq(query, LAMBDA pair : pair.formed /\ pair.name = n)
    IN  [i \in DOMAIN own |-> own[i].value]

\* A parameter is looked up among the credentials in lower case.
Values(query) == [n \in {m \in Spelled(STRING) : m.lower \notin authParams /\ Given(query, m) # <<>>}
                    |-> Given(query, n)]

\* "%s://%s%s?%s"; the opaque text is not in it.
GenerateCacheKey(u) ==
    (IF u.scheme = "none" THEN <<>> ELSE <<u.scheme>>) \o <<":", "/", "/">>
      \o normalizeHost(u.scheme, u.host) \o normalizePath(u.path) \o <<"?", Values(u.query)>>
-----------------------------------------------------------------------------
(* The TTL of a host: the map is written with the host as it was given, in *)
(* lower case, and read with the normalised one.                           *)

SetDomainTTL(ttls, host, ttl) ==
    LET h == HostText(host.name.lower, host.port)
    IN  [g \in DOMAIN ttls \cup {h} |-> IF g = h THEN ttl ELSE ttls[g]]

getTTLForURL(ttls, default, u) ==
    LET h == normalizeHost(u.scheme, u.host)
    IN  IF h \in DOMAIN ttls THEN ttls[h] ELSE default
-----------------------------------------------------------------------------
(* What the fetch of a URL asks for, said without the code's own           *)
(* normalisation.                                                          *)

\* net/http's client sends no other request.
Fetchable(u) == u.scheme \in {"http", "https"} /\ u.host.name.lower # "none"

\* The port the client connects to.
DefaultPort(scheme) == CASE scheme = "http" -> "80" [] scheme = "https" -> "443"
                         [] OTHER -> "none"

PortOf(u) == IF u.host.port = "none" THEN DefaultPort(u.scheme) ELSE u.host.port

\* The path in the request line.
Asked(u) == IF u.path = <<>> THEN <<"/">> ELSE u.path

\* Paths that differ at most in "+" for an escaped space.
SameSpelling(p, q) ==
    DOMAIN p = DOMAIN q /\ \A i \in DOMAIN p : p[i] = q[i] \/ {p[i], q[i]} \subseteq {"+", "%20"}

SameUpToSlash(p, q) == \/ SameSpelling(p, q)
                       \/ SameSpelling(Append(p, "/"), q)
                       \/ SameSpelling(p, Append(q, "/"))

SameServer(u, v) == /\ u.scheme = v.scheme
                    /\ u.host.name.lower = v.host.name.lower
                    /\ PortOf(u) = PortOf(v)

SameParameters(u, v) ==
    \A n \in Spelled(STRING) : n.lower \notin authParams => Given(u.query, n) = Given(v.query, n)
=============================================================================
