----------------------------- MODULE RequestUri -----------------------------
(***************************************************************************)
(* A request URI and its builder under every sequence of the operations of *)
(* uri/request.rs, which change one part at a time.  A caller that catches *)
(* a panic of one of the map functions keeps the URI as it was left.       *)
(* There is one URI at a time: either its builder is at work or it is      *)
(* built.                                                                  *)
(***************************************************************************)
EXTENDS Uri

CONSTANTS
    Schemes,        \* schemes, some of them not of RTSP
    Authorities,    \* [host, port] records
    Paths,          \* [absolute, segments] records
    Queries         \* queries

VARIABLES
    uri,            \* the URI: Asterisk or its components
    builder,        \* a builder
    panicked        \* a map function panicked, and the panic was caught

uriVars == <<uri, builder, panicked>>

(* What the operations make of the given authorities and paths; the empty  *)
(* ones are the sentinels of the map functions.                            *)
AuthorityForms ==
    {SentinelAuthority} \cup
    UNION {{[host |-> h, port |-> p] : h \in {a.host, NormalHost(a.host)}, p \in {a.port, Absent}}
           : a \in Authorities}
GivenSegments == {p.segments : p \in Paths} \cup {<<>>}
SegmentForms == GivenSegments \cup {NormalSegments(s) : s \in GivenSegments}
PathForms == {[absolute |-> b, segments |-> s] : b \in BOOLEAN, s \in SegmentForms}

(* Authorities and paths are records, None is not one of the values, and   *)
(* uriparse normalizes the segments of a path in one pass.                 *)
ASSUME RequestUriAssumption ==
    /\ \A a \in Authorities : a = [host |-> a.host, port |-> a.port]
    /\ \A p \in Paths : p = [absolute |-> p.absolute, segments |-> p.segments]
    /\ \A p \in Paths : p.absolute \in BOOLEAN
    /\ Absent \notin Schemes /\ Absent \notin RTSPSchemes
    /\ Absent \notin Authorities /\ Absent \notin AuthorityForms
    /\ Absent \notin Paths /\ Absent \notin PathForms
    /\ Absent \notin Queries
    /\ \A s \in GivenSegments : NormalSegments(NormalSegments(s)) = NormalSegments(s)

-----------------------------------------------------------------------------
UriInit == uri = Asterisk /\ builder = EmptyBuilder /\ panicked = FALSE

(* There is no URI but the asterisk and no builder at work.                *)
Fresh == uri = Asterisk /\ builder = EmptyBuilder

(* A URI is made, if the conversion succeeds.                              *)
Adopt(conversion) ==
    uri' = (IF conversion.tag = "Ok" THEN conversion.uri ELSE uri) /\ UNCHANGED panicked

(* TryFrom<&str>; what follows an authority starts with a slash.           *)
ParseURI(scheme, authority, path, query, fragment) ==
    /\ Fresh /\ (authority # Absent => path.absolute)
    /\ Adopt(TryFromReference(Reference(scheme, authority, path, query, fragment)))
    /\ UNCHANGED builder

MakeFromParts(scheme, authority, path, query) ==
    /\ Fresh
    /\ Adopt(URIFromParts(scheme, authority, path, query))
    /\ UNCHANGED builder

(* build consumes the builder, also when it fails.                         *)
BuildURI ==
    /\ uri = Asterisk
    /\ Adopt(Build(builder))
    /\ builder' = EmptyBuilder

(* into_builder consumes the URI; the asterisk has no builder.             *)
TakeBuilder ==
    /\ ~uri.asterisk
    /\ builder' = IntoBuilder(uri)
    /\ uri' = Asterisk /\ panicked' = FALSE

ChangeBuilder(b) == uri = Asterisk /\ builder' = b /\ UNCHANGED <<uri, panicked>>
BuilderAuthority(authority) == ChangeBuilder([builder EXCEPT !.authority = authority])
BuilderPath(path) == ChangeBuilder([builder EXCEPT !.path = path])
BuilderQuery(query) == ChangeBuilder([builder EXCEPT !.query = query])
BuilderScheme(scheme) == ChangeBuilder([builder EXCEPT !.scheme = scheme])

-----------------------------------------------------------------------------
(* The setters leave the asterisk alone; one that refuses its argument     *)
(* changes nothing.                                                        *)
SetComponent(u) ==
    uri' = (IF uri.asterisk THEN uri ELSE u) /\ UNCHANGED <<builder, panicked>>

SetAuthority(authority) ==
    /\ authority.host # ""
    /\ SetComponent(Components(uri.scheme, authority, uri.path, uri.query))
\* Mutant: the path is taken as it is.
SetPathAsGiven(path) == SetComponent(Components(uri.scheme, uri.authority, path, uri.query))
SetPath(path) == SetComponent(Components(uri.scheme, uri.authority, MakeAbsolute(path), uri.query))
SetQuery(query) == SetComponent(Components(uri.scheme, uri.authority, uri.path, query))
SetScheme(scheme) ==
    /\ scheme \in RTSPSchemes
    /\ SetComponent(Components(scheme, uri.authority, uri.path, uri.query))

(* map_authority: the old authority is moved out before the mapper runs; a *)
(* new one without a host is a panic, and the sentinel stays.              *)
MapAuthority(authority) ==
    /\ ~uri.asterisk
    /\ IF authority.host = ""
       THEN /\ uri' = Components(uri.scheme, SentinelAuthority, uri.path, uri.query)
            /\ panicked' = TRUE
       ELSE /\ uri' = Components(uri.scheme, authority, uri.path, uri.query)
            /\ UNCHANGED panicked
    /\ UNCHANGED builder

MapPath(path) ==
    /\ ~uri.asterisk
    /\ uri' = Components(uri.scheme, uri.authority, MakeAbsolute(path), uri.query)
    /\ UNCHANGED <<builder, panicked>>

MapQuery(query) ==
    /\ ~uri.asterisk
    /\ uri' = Components(uri.scheme, uri.authority, uri.path, query)
    /\ UNCHANGED <<builder, panicked>>

(* map_scheme clones: a panic leaves the URI as it was.                    *)
MapScheme(scheme) ==
    /\ ~uri.asterisk
    /\ uri' = IF scheme \in RTSPSchemes
              THEN Components(scheme, uri.authority, uri.path, uri.query)
              ELSE uri
    /\ UNCHANGED <<builder, panicked>>

(* The mapper itself panics: what was moved out is gone.                   *)
MapperPanics(part) ==
    /\ ~uri.asterisk
    /\ uri' = CASE part = "authority" ->
                     Components(uri.scheme, SentinelAuthority, uri.path, uri.query)
                [] part = "path" ->
                     Components(uri.scheme, uri.authority, SentinelPath, uri.query)
                [] part = "query" ->
                     Components(uri.scheme, uri.authority, uri.path, Absent)
    /\ panicked' = TRUE
    /\ UNCHANGED builder

Normalize == uri' = Normalized(uri) /\ UNCHANGED <<builder, panicked>>

UriNext ==
    \/ \E s \in Schemes \cup {Absent}, a \in Authorities \cup {Absent}, p \in Paths,
          q \in Queries \cup {Absent}, f \in BOOLEAN : ParseURI(s, a, p, q, f)
    \/ \E s \in Schemes, a \in Authorities, p \in Paths, q \in Queries \cup {Absent} :
          MakeFromParts(s, a, p, q)
    \/ BuildURI \/ TakeBuilder \/ Normalize
    \/ \E a \in Authorities : BuilderAuthority(a) \/ SetAuthority(a) \/ MapAuthority(a)
    \/ \E p \in Paths : BuilderPath(p) \/ SetPath(p) \/ MapPath(p)
    \/ \E q \in Queries \cup {Absent} : BuilderQuery(q) \/ SetQuery(q) \/ MapQuery(q)
    \/ \E s \in Schemes : BuilderScheme(s) \/ SetScheme(s) \/ MapScheme(s)
    \/ \E part \in {"authority", "path", "query"} : MapperPanics(part)

UriSpec == UriInit /\ [][UriNext]_uriVars

-----------------------------------------------------------------------------
(* The inductive invariant: the shape of the URI, a scheme that no panic   *)
(* takes away, and the host and the path unless one did.                   *)
UriInv ==
    \/ uri = Asterisk
    \/ /\ uri = Components(uri.scheme, uri.authority, uri.path, uri.query)
       /\ uri.scheme \in RTSPSchemes
       /\ ~panicked => uri.authority.host # "" /\ uri.path.absolute = TRUE

(* The parts of a URI and of its builder are forms of the given ones.      *)
PartsInv ==
    /\ uri # Asterisk => uri.authority \in AuthorityForms /\ uri.path \in PathForms
    /\ builder = [scheme |-> builder.scheme, authority |-> builder.authority,
                  path |-> builder.path, query |-> builder.query]
    /\ builder.authority \in AuthorityForms \cup {Absent}
    /\ builder.path \in PathForms \cup {Absent}

(* Whatever sequence of operations made it, a URI that is not the asterisk *)
(* has an RTSP scheme, a host and an absolute path, unless a panic of a    *)
(* map function was caught (uri/request.rs: the expects of default_port,   *)
(* normalize and From<URI> for URIReference rely on it).                   *)
AbsoluteWithHost ==
    (~uri.asterisk /\ ~panicked) =>
        /\ SchemeOf(uri) \in RTSPSchemes
        /\ HostOf(uri) # ""
        /\ PathOf(uri).absolute

(* Normalizing gives what is_normalized accepts, once is enough, and the   *)
(* port that a connection is made to stays (normalize, is_normalized).     *)
EffectivePort(u) == IF PortOf(u) = Absent THEN DefaultPort(u) ELSE PortOf(u)
NormalFormReached ==
    /\ IsNormalized(Normalized(uri))
    /\ Normalized(Normalized(uri)) = Normalized(uri)
    /\ EffectivePort(Normalized(uri)) = EffectivePort(uri)
    /\ IsNormalized(uri) <=> Normalized(uri) = uri

(* A URI survives the way over the wire, over a URI reference and over a   *)
(* builder (Display and TryFrom, From<URI> for URIReference, into_builder  *)
(* and build), and normalizing it keeps its port and comes to an end.      *)
ConversionsAgree ==
    /\ NormalFormReached
    /\ ~panicked =>
          /\ TryFromReference(DisplayedAndParsed(uri)) = Valid(uri)
          /\ TryFromReference(ToReference(uri)) = Valid(uri)
          /\ ~uri.asterisk => Build(IntoBuilder(uri)) = Valid(uri)
=============================================================================
