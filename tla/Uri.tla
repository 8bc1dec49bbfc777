--------------------------------- MODULE Uri ---------------------------------
(***************************************************************************)
(* The value of a request URI (uri/request.rs): the asterisk, or a scheme, *)
(* an authority, a path and a query; its conversions and its normal form.  *)
(*                                                                         *)
(* The parts come from the crate uriparse: an authority is a host and a    *)
(* port, a path a sequence of segments that is absolute or not.  The host  *)
(* "HOST", the segment "." and the query "Q" are the ones that are not in  *)
(* normal form.                                                            *)
(***************************************************************************)
EXTENDS Integers, Sequences

CONSTANT Absent     \* Option::None

RTSPSchemes == {"rtsp", "rtsps", "rtspu"}

Asterisk == [asterisk |-> TRUE]
Components(scheme, authority, path, query) ==
    [asterisk |-> FALSE, scheme |-> scheme, authority |-> authority,
     path |-> path, query |-> query]

SentinelAuthority == [host |-> "", port |-> Absent]
SentinelPath == [absolute |-> FALSE, segments |-> <<>>]
AsteriskPath == [absolute |-> FALSE, segments |-> <<"*">>]

-----------------------------------------------------------------------------
(* RTSP_DEFAULT_PORT, RTSPS_DEFAULT_PORT and RTSPU_DEFAULT_PORT.           *)
DefaultPorts == [scheme \in RTSPSchemes |-> IF scheme = "rtsps" THEN 332 ELSE 554]
DefaultPort(u) == IF u.asterisk THEN Absent ELSE DefaultPorts[u.scheme]

(* The accessors.                                                          *)
SchemeOf(u) == IF u.asterisk THEN Absent ELSE u.scheme
AuthorityOf(u) == IF u.asterisk THEN Absent ELSE u.authority
HostOf(u) == IF u.asterisk THEN Absent ELSE u.authority.host
PortOf(u) == IF u.asterisk THEN Absent ELSE u.authority.port
PathOf(u) == IF u.asterisk THEN AsteriskPath ELSE u.path
QueryOf(u) == IF u.asterisk THEN Absent ELSE u.query

(* uriparse: Path::set_absolute, and normalize with is_normalized of each  *)
(* part.                                                                   *)
MakeAbsolute(path) == [absolute |-> TRUE, segments |-> path.segments]
NormalHost(host) == IF host = "HOST" THEN "host" ELSE host
NormalAuthority(a) == [host |-> NormalHost(a.host), port |-> a.port]
NormalSegments(segments) == SelectSeq(segments, LAMBDA s : s # ".")
NormalPath(p) == [absolute |-> p.absolute, segments |-> NormalSegments(p.segments)]
NormalQuery(q) == IF q = "Q" THEN "q" ELSE q

(* is_normalized.                                                          *)
IsNormalized(u) ==
    u.asterisk \/ (/\ PortOf(u) = Absent \/ PortOf(u) # DefaultPort(u)
                   /\ QueryOf(u) = NormalQuery(QueryOf(u))
                   /\ AuthorityOf(u) = NormalAuthority(AuthorityOf(u))
                   /\ PathOf(u) = NormalPath(PathOf(u)))

(* normalize.                                                              *)
Normalized(u) ==
    IF u.asterisk THEN u
    ELSE Components(u.scheme,
                    [host |-> NormalHost(u.authority.host),
                     port |-> IF PortOf(u) = DefaultPort(u) THEN Absent ELSE PortOf(u)],
                    NormalPath(u.path),
                    NormalQuery(u.query))

-----------------------------------------------------------------------------
(* A URI reference: its parts, or Absent, and whether it has a fragment.   *)
Reference(scheme, authority, path, query, fragment) ==
    [scheme |-> scheme, authority |-> authority, path |-> path,
     query |-> query, fragment |-> fragment]

Valid(u) == [tag |-> "Ok", uri |-> u]
Invalid(error) == [tag |-> error]

(* TryFrom<URIReference>: the checks, in their order.                      *)
TryFromReference(r) ==
    CASE r.fragment -> Invalid("FragmentNotAllowed")
      [] ~r.fragment /\ r.scheme # Absent /\ r.authority = Absent -> Invalid("MissingAuthority")
      [] ~r.fragment /\ r.scheme = Absent /\ r.authority # Absent -> Invalid("MissingScheme")
      [] ~r.fragment /\ r.scheme = Absent /\ r.authority = Absent ->
            IF r.path.segments # <<"*">> \/ r.query # Absent
            THEN Invalid("InvalidRelativeReference") ELSE Valid(Asterisk)
      [] OTHER ->
            IF r.scheme \notin RTSPSchemes THEN Invalid("NonRTSPScheme")
            ELSE IF r.authority.host = "" THEN Invalid("EmptyHost")
            ELSE Valid(Components(r.scheme, r.authority, r.path, r.query))

(* URIReference::from_parts: a path that follows an authority is absolute. *)
FromParts(scheme, authority, path, query) ==
    Reference(scheme, authority, MakeAbsolute(path), query, FALSE)

(* From<URI> for URIReference.                                             *)
ToReference(u) ==
    IF u.asterisk THEN Reference(Absent, Absent, AsteriskPath, Absent, FALSE)
    ELSE FromParts(u.scheme, u.authority, u.path, u.query)

(* Display, then the parser of uriparse: the text after the host up to the *)
(* first slash belongs to the authority.                                   *)
DisplayedAndParsed(u) ==
    IF u.asterisk THEN Reference(Absent, Absent, AsteriskPath, Absent, FALSE)
    ELSE IF u.path.absolute
    THEN Reference(u.scheme, u.authority, u.path, u.query, FALSE)
    ELSE Reference(u.scheme,
                   [u.authority EXCEPT !.host = <<@, u.authority.port, u.path.segments>>],
                   [absolute |-> TRUE, segments |-> <<>>], u.query, FALSE)

-----------------------------------------------------------------------------
EmptyBuilder ==
    [scheme |-> Absent, authority |-> Absent, path |-> Absent, query |-> Absent]

(* Builder::build.                                                         *)
Build(b) ==
    CASE b.scheme = Absent -> Invalid("MissingScheme")
      [] b.scheme # Absent /\ b.authority = Absent -> Invalid("MissingAuthority")
      [] b.scheme # Absent /\ b.authority # Absent /\ b.path = Absent -> Invalid("MissingPath")
      [] OTHER -> TryFromReference(FromParts(b.scheme, b.authority, b.path, b.query))

\* Mutant: the query is forgotten.
IntoPartsNoQuery(u) == <<u.scheme, u.authority, u.path, Absent>>

(* into_parts and into_builder.                                            *)
IntoParts(u) == <<u.scheme, u.authority, u.path, u.query>>
IntoBuilder(u) ==
    LET parts == IntoParts(u)
    IN  [scheme |-> parts[1], authority |-> parts[2], path |-> parts[3], query |-> parts[4]]

(* URI::from_parts: a builder with all four parts.                         *)
URIFromParts(scheme, authority, path, query) ==
    Build([scheme |-> scheme, authority |-> authority, path |-> path, query |-> query])
=============================================================================
