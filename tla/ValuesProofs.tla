----------------------------- MODULE ValuesProofs ----------------------------
(***************************************************************************)
(* Proofs about the parts of the library that MCValues puts side by side:  *)
(*                                                                         *)
(*   - whatever schemes, authorities, paths and queries its operations are *)
(*     called with, a URI is the asterisk or absolute and with a host, and *)
(*     its conversions agree;                                              *)
(*   - whatever they are made of, requests and responses can be taken      *)
(*     apart and put together again, and have the typed header that they   *)
(*     were given;                                                         *)
(*   - whatever the number of messages and the capacity of the sink, the   *)
(*     sender keeps their order, ends flushed and misses no wakeup.        *)
(***************************************************************************)
EXTENDS RequestUri, Server, Sender, HeadersProofs

-----------------------------------------------------------------------------
(* The URI (RequestUri).                                                   *)

(* A URI with an RTSP scheme, a host and an absolute path will do.         *)
LEMMA MadeOfComponents ==
    ASSUME NEW s \in RTSPSchemes, NEW a, NEW p, NEW q, uri' = Components(s, a, p, q),
           ~panicked' => a.host # "" /\ p.absolute = TRUE
    PROVE  UriInv'
<1>1. /\ (uri').scheme = s /\ (uri').authority = a
      /\ (uri').path = p /\ (uri').query = q
  BY DEF Components
<1> QED
  BY <1>1 DEF UriInv

(* A reference as the parser and from_parts make it: the path after an     *)
(* authority is absolute.                                                  *)
ProperReference(r) ==
    /\ r.fragment \in BOOLEAN
    /\ r.authority # Absent => r.path.absolute = TRUE

(* A reference that is accepted gives a URI of the right shape             *)
(* (TryFrom<URIReference>).                                                *)
LEMMA AcceptedReference ==
    ASSUME NEW r, TryFromReference(r).tag = "Ok", NEW u, u = TryFromReference(r).uri,
           ProperReference(r)
    PROVE  \/ u = Asterisk
           \/ /\ u = Components(r.scheme, r.authority, r.path, r.query)
              /\ r.scheme \in RTSPSchemes
              /\ r.authority # Absent
              /\ r.authority.host # ""
              /\ r.path.absolute = TRUE
<1> USE DEF ProperReference
<1>1. CASE r.fragment
  BY <1>1 DEF TryFromReference, Invalid
<1>2. CASE ~r.fragment /\ r.scheme # Absent /\ r.authority = Absent
  BY <1>2 DEF TryFromReference, Invalid
<1>3. CASE ~r.fragment /\ r.scheme = Absent /\ r.authority # Absent
  BY <1>3 DEF TryFromReference, Invalid
<1>4. CASE ~r.fragment /\ r.scheme = Absent /\ r.authority = Absent
  BY <1>4 DEF TryFromReference, Invalid, Valid
<1>5. CASE ~r.fragment /\ r.scheme # Absent /\ r.authority # Absent
  BY <1>5 DEF TryFromReference, Invalid, Valid
<1> QED
  BY <1>1, <1>2, <1>3, <1>4, <1>5

(* A conversion that is adopted keeps the invariant.                       *)
LEMMA AdoptedReference ==
    ASSUME NEW r, ProperReference(r),
           TryFromReference(r).tag = "Ok", uri' = TryFromReference(r).uri
    PROVE  UriInv'
<1> DEFINE u == TryFromReference(r).uri
<1>1. \/ u = Asterisk
      \/ /\ u = Components(r.scheme, r.authority, r.path, r.query)
         /\ r.scheme \in RTSPSchemes
         /\ r.authority # Absent
         /\ r.authority.host # ""
         /\ r.path.absolute = TRUE
  BY AcceptedReference
<1> HIDE DEF u
<1>2. CASE u = Asterisk
  <2>1. uri' = Asterisk
    BY <1>2 DEF u
  <2> QED
    BY <2>1 DEF UriInv
<1>3. CASE u # Asterisk
  <2>1. uri' = u
    BY DEF u
  <2> QED
    BY <1>1, <1>3, <2>1, MadeOfComponents
<1> QED
  BY <1>2, <1>3

(* build gives the builder's parts to TryFrom<URIReference>.               *)
LEMMA AdoptedBuild ==
    ASSUME NEW b, UriInv, Adopt(Build(b))
    PROVE  UriInv'
<1>1. CASE b.scheme = Absent \/ b.authority = Absent \/ b.path = Absent
  <2>1. Build(b).tag # "Ok"
    BY <1>1 DEF Build, Invalid
  <2> QED
    BY <2>1 DEF Adopt, UriInv
<1>2. CASE b.scheme # Absent /\ b.authority # Absent /\ b.path # Absent
  <2> DEFINE ref == FromParts(b.scheme, b.authority, b.path, b.query)
  <2>1. Build(b) = TryFromReference(ref)
    BY <1>2 DEF Build
  <2>2. ProperReference(ref)
    BY DEF FromParts, Reference, MakeAbsolute, ProperReference
  <2>3. /\ uri' = IF TryFromReference(ref).tag = "Ok" THEN TryFromReference(ref).uri ELSE uri
        /\ panicked' = panicked
    BY <2>1 DEF Adopt
  <2> HIDE DEF ref
  <2>4. CASE TryFromReference(ref).tag = "Ok"
    BY <2>2, <2>3, <2>4, AdoptedReference
  <2>5. CASE TryFromReference(ref).tag # "Ok"
    BY <2>3, <2>5 DEF UriInv
  <2> QED
    BY <2>4, <2>5
<1> QED
  BY <1>1, <1>2

(* What the invariant says of a URI that is not the asterisk.              *)
LEMMA NotAsterisk ==
    ASSUME UriInv, uri # Asterisk
    PROVE  /\ uri.asterisk = FALSE
           /\ uri.scheme \in RTSPSchemes
           /\ ~panicked => uri.authority.host # "" /\ uri.path.absolute = TRUE
<1>1. uri = Components(uri.scheme, uri.authority, uri.path, uri.query)
  BY DEF UriInv
<1>2. uri.asterisk = FALSE
  BY <1>1 DEF Components
<1> QED
  BY <1>2 DEF UriInv

(* The setters and the builder's setters leave the asterisk as it is.      *)
LEMMA AsteriskStays ==
    /\ Asterisk.asterisk = TRUE
    /\ \A u : uri = Asterisk /\ SetComponent(u) => UriInv'
    /\ uri = Asterisk /\ UNCHANGED uri => UriInv'
<1>1. Asterisk.asterisk = TRUE
  BY DEF Asterisk
<1> QED
  BY <1>1 DEF SetComponent, UriInv

(* normalize keeps the scheme, a host and an absolute path.                *)
LEMMA NormalizedInv ==
    ASSUME UriInv, Normalize
    PROVE  UriInv'
<1>1. CASE uri = Asterisk
  BY <1>1, AsteriskStays DEF Normalize, Normalized, UriInv
<1>2. CASE uri # Asterisk
  <2> DEFINE a == [host |-> NormalHost(uri.authority.host),
                   port |-> IF PortOf(uri) = DefaultPort(uri) THEN Absent ELSE PortOf(uri)]
             p == NormalPath(uri.path)
  <2>1. /\ uri' = Components(uri.scheme, a, p, NormalQuery(uri.query))
        /\ panicked' = panicked
    BY <1>2, NotAsterisk DEF Normalize, Normalized
  <2>2. ~panicked => a.host # "" /\ p.absolute = TRUE
    BY <1>2, NotAsterisk DEF NormalHost, NormalPath
  <2> HIDE DEF a, p
  <2> QED
    BY <1>2, <2>1, <2>2, NotAsterisk, MadeOfComponents
<1> QED
  BY <1>1, <1>2

(* One step of any operation keeps the invariant.                          *)
LEMMA UriStepInv == UriInv /\ [UriNext]_uriVars => UriInv'
<1> SUFFICES ASSUME UriInv, [UriNext]_uriVars PROVE UriInv'
  OBVIOUS
<1>1. ASSUME NEW s \in Schemes \cup {Absent}, NEW a \in Authorities \cup {Absent},
             NEW p \in Paths, NEW q \in Queries \cup {Absent}, NEW f \in BOOLEAN,
             ParseURI(s, a, p, q, f)
      PROVE  UriInv'
  <2> DEFINE ref == Reference(s, a, p, q, f)
  <2>1. a # Absent => p.absolute
    BY <1>1 DEF ParseURI
  <2>2. ProperReference(ref)
    BY <2>1, RequestUriAssumption DEF Reference, ProperReference
  <2>3. /\ uri' = IF TryFromReference(ref).tag = "Ok" THEN TryFromReference(ref).uri ELSE uri
        /\ panicked' = panicked
    BY <1>1 DEF ParseURI, Adopt
  <2> HIDE DEF ref
  <2>4. CASE TryFromReference(ref).tag = "Ok"
    BY <2>2, <2>3, <2>4, AdoptedReference
  <2>5. CASE TryFromReference(ref).tag # "Ok"
    BY <2>3, <2>5 DEF UriInv
  <2> QED
    BY <2>4, <2>5
<1>2. ASSUME NEW s, NEW a, NEW p, NEW q, MakeFromParts(s, a, p, q)
      PROVE  UriInv'
  BY <1>2, AdoptedBuild DEF MakeFromParts, URIFromParts
<1>3. CASE BuildURI
  BY <1>3, AdoptedBuild DEF BuildURI
<1>4. CASE TakeBuilder
  BY <1>4 DEF TakeBuilder, UriInv
<1>5. CASE Normalize
  BY <1>5, NormalizedInv
<1>6. ASSUME NEW a \in Authorities, BuilderAuthority(a) \/ SetAuthority(a) \/ MapAuthority(a)
      PROVE  UriInv'
  <2>1. CASE uri = Asterisk
    BY <1>6, <2>1, AsteriskStays DEF BuilderAuthority, ChangeBuilder, SetAuthority, MapAuthority
  <2>2. CASE uri # Asterisk
    <3>1. \/ uri' = Components(uri.scheme, a, uri.path, uri.query)
             /\ a.host # "" /\ panicked' = panicked
          \/ uri' = Components(uri.scheme, SentinelAuthority, uri.path, uri.query)
             /\ panicked' = TRUE
      BY <1>6, <2>2, NotAsterisk DEF BuilderAuthority, ChangeBuilder, SetAuthority,
                                     SetComponent, MapAuthority
    <3>2. CASE panicked' = TRUE
      BY <2>2, <3>1, <3>2, NotAsterisk, MadeOfComponents
    <3>3. CASE panicked' = panicked /\ a.host # ""
               /\ uri' = Components(uri.scheme, a, uri.path, uri.query)
      BY <2>2, <3>3, NotAsterisk, MadeOfComponents
    <3> QED
      BY <3>1, <3>2, <3>3
  <2> QED
    BY <2>1, <2>2
<1>7. ASSUME NEW p \in Paths, BuilderPath(p) \/ SetPath(p) \/ MapPath(p)
      PROVE  UriInv'
  <2>1. CASE uri = Asterisk
    BY <1>7, <2>1, AsteriskStays DEF BuilderPath, ChangeBuilder, SetPath, MapPath
  <2>2. CASE uri # Asterisk
    <3>1. /\ uri' = Components(uri.scheme, uri.authority, MakeAbsolute(p), uri.query)
          /\ panicked' = panicked
      BY <1>7, <2>2, NotAsterisk DEF BuilderPath, ChangeBuilder, SetPath, SetComponent, MapPath
    <3>2. MakeAbsolute(p).absolute = TRUE
      BY DEF MakeAbsolute
    <3> QED
      BY <2>2, <3>1, <3>2, NotAsterisk, MadeOfComponents
  <2> QED
    BY <2>1, <2>2
<1>8. ASSUME NEW q \in Queries \cup {Absent}, BuilderQuery(q) \/ SetQuery(q) \/ MapQuery(q)
      PROVE  UriInv'
  <2>1. CASE uri = Asterisk
    BY <1>8, <2>1, AsteriskStays DEF BuilderQuery, ChangeBuilder, SetQuery, MapQuery
  <2>2. CASE uri # Asterisk
    <3>1. /\ uri' = Components(uri.scheme, uri.authority, uri.path, q)
          /\ panicked' = panicked
      BY <1>8, <2>2, NotAsterisk DEF BuilderQuery, ChangeBuilder, SetQuery, SetComponent, MapQuery
    <3> QED
      BY <2>2, <3>1, NotAsterisk, MadeOfComponents
  <2> QED
    BY <2>1, <2>2
<1>9. ASSUME NEW s \in Schemes, BuilderScheme(s) \/ SetScheme(s) \/ MapScheme(s)
      PROVE  UriInv'
  <2>1. CASE uri = Asterisk
    BY <1>9, <2>1, AsteriskStays DEF BuilderScheme, ChangeBuilder, SetScheme, MapScheme
  <2>2. CASE uri # Asterisk /\ s \in RTSPSchemes
    <3>1. /\ uri' = Components(s, uri.authority, uri.path, uri.query)
          /\ panicked' = panicked
      BY <1>9, <2>2, NotAsterisk DEF BuilderScheme, ChangeBuilder, SetScheme, SetComponent, MapScheme
    <3> QED
      BY <2>2, <3>1, NotAsterisk, MadeOfComponents
  <2>3. CASE uri # Asterisk /\ s \notin RTSPSchemes
    BY <1>9, <2>3 DEF BuilderScheme, ChangeBuilder, SetScheme, MapScheme, UriInv
  <2> QED
    BY <2>1, <2>2, <2>3
<1>10. ASSUME NEW part \in {"authority", "path", "query"}, MapperPanics(part)
       PROVE  UriInv'
  <2>1. uri # Asterisk /\ panicked' = TRUE
    BY <1>10 DEF MapperPanics, Asterisk
  <2>2. \E a, p, q : uri' = Components(uri.scheme, a, p, q)
    BY <1>10 DEF MapperPanics
  <2> QED
    BY <2>1, <2>2, NotAsterisk, MadeOfComponents
<1>11. CASE UNCHANGED uriVars
  BY <1>11 DEF uriVars, UriInv
<1>12. CASE UriNext
  <2> HIDE DEF UriInv
  <2> QED
    BY <1>1, <1>2, <1>3, <1>4, <1>5, <1>6, <1>7, <1>8, <1>9, <1>10, <1>12 DEF UriNext
<1> QED
  BY <1>11, <1>12

(* A URI made by any sequence of operations is the asterisk or has an RTSP *)
(* scheme, a host and an absolute path, unless a panic of a map function   *)
(* was caught (uri/request.rs).                                            *)
THEOREM UriIsAbsoluteWithHost == UriSpec => []AbsoluteWithHost
<1>1. UriInit => UriInv
  BY DEF UriInit, UriInv
<1>2. UriInv => AbsoluteWithHost
  <2>1. CASE uri = Asterisk
    BY <2>1 DEF AbsoluteWithHost, Asterisk
  <2>2. CASE uri # Asterisk
    BY <2>2, NotAsterisk DEF AbsoluteWithHost, SchemeOf, HostOf, PathOf
  <2> QED
    BY <2>1, <2>2
<1> QED
  BY <1>1, <1>2, UriStepInv, PTL DEF UriSpec

-----------------------------------------------------------------------------
(* The given paths are forms of themselves, an absolute path and a         *)
(* normalized one are forms again, and normalizing twice is normalizing    *)
(* once.                                                                   *)
LEMMA PathFormsClosed ==
    /\ SentinelPath \in PathForms
    /\ \A p \in Paths : p \in PathForms
    /\ \A p \in PathForms : /\ p = [absolute |-> p.absolute, segments |-> p.segments]
                           /\ p.absolute \in BOOLEAN
                           /\ MakeAbsolute(p) \in PathForms
                           /\ NormalPath(p) \in PathForms
                           /\ NormalPath(NormalPath(p)) = NormalPath(p)
<1>1. \A b \in BOOLEAN, s \in SegmentForms : [absolute |-> b, segments |-> s] \in PathForms
  BY DEF PathForms
<1>2. SentinelPath \in PathForms
  BY <1>1 DEF SentinelPath, SegmentForms, GivenSegments
<1>3. ASSUME NEW p \in Paths PROVE p \in PathForms
  <2>1. p.segments \in SegmentForms
    BY DEF SegmentForms, GivenSegments
  <2> QED
    BY <1>1, <2>1, RequestUriAssumption
<1>4. ASSUME NEW p \in PathForms
      PROVE  /\ p = [absolute |-> p.absolute, segments |-> p.segments]
             /\ p.absolute \in BOOLEAN
             /\ MakeAbsolute(p) \in PathForms
             /\ NormalPath(p) \in PathForms
             /\ NormalPath(NormalPath(p)) = NormalPath(p)
  <2>1. PICK b \in BOOLEAN, s \in SegmentForms : p = [absolute |-> b, segments |-> s]
    BY DEF PathForms
  <2>2. p.absolute = b /\ p.segments = s
    BY <2>1
  <2>3. NormalSegments(s) \in SegmentForms /\ NormalSegments(NormalSegments(s)) = NormalSegments(s)
    BY RequestUriAssumption DEF SegmentForms
  <2>4. MakeAbsolute(p) \in PathForms
    BY <1>1, <2>2 DEF MakeAbsolute
  <2>5. NormalPath(p) = [absolute |-> b, segments |-> NormalSegments(s)]
    BY <2>2 DEF NormalPath
  <2>6. NormalPath(NormalPath(p)) = NormalPath(p)
    BY <2>3, <2>5 DEF NormalPath
  <2> QED
    BY <1>1, <2>1, <2>2, <2>3, <2>4, <2>5, <2>6
<1> QED
  BY <1>2, <1>3, <1>4

(* The given authorities are forms of themselves, and a form with its host *)
(* normalized, with its port or without, is one again.                     *)
LEMMA AuthorityFormsClosed ==
    /\ SentinelAuthority \in AuthorityForms
    /\ \A a \in Authorities : a \in AuthorityForms
    /\ \A a \in AuthorityForms : /\ a = [host |-> a.host, port |-> a.port]
                                /\ \A p \in {a.port, Absent} :
                                      [host |-> NormalHost(a.host), port |-> p] \in AuthorityForms
<1>1. ASSUME NEW a \in Authorities, NEW h \in {a.host, NormalHost(a.host)}, NEW p \in {a.port, Absent}
      PROVE  [host |-> h, port |-> p] \in AuthorityForms
  <2> DEFINE Forms(g) == {[host |-> x, port |-> y] : x \in {g.host, NormalHost(g.host)},
                                                    y \in {g.port, Absent}}
  <2>1. [host |-> h, port |-> p] \in Forms(a)
    OBVIOUS
  <2>2. AuthorityForms = {SentinelAuthority} \cup UNION {Forms(g) : g \in Authorities}
    BY DEF AuthorityForms
  <2> HIDE DEF Forms
  <2> QED
    BY <2>1, <2>2
<1>2. SentinelAuthority \in AuthorityForms
  BY DEF AuthorityForms
<1>3. ASSUME NEW a \in Authorities PROVE a \in AuthorityForms
  BY <1>1, RequestUriAssumption
<1>4. ASSUME NEW a \in AuthorityForms
      PROVE  /\ a = [host |-> a.host, port |-> a.port]
             /\ \A p \in {a.port, Absent} :
                   [host |-> NormalHost(a.host), port |-> p] \in AuthorityForms
  <2>1. CASE a = SentinelAuthority
    BY <1>2, <2>1 DEF SentinelAuthority, NormalHost
  <2>2. CASE a # SentinelAuthority
    <3>1. PICK g \in Authorities :
              \E h \in {g.host, NormalHost(g.host)}, p \in {g.port, Absent} :
                  a = [host |-> h, port |-> p]
      BY <2>2 DEF AuthorityForms
    <3>2. PICK h \in {g.host, NormalHost(g.host)}, p \in {g.port, Absent} :
              a = [host |-> h, port |-> p]
      BY <3>1
    <3>3. a.host = h /\ a.port = p
      BY <3>2
    <3>4. NormalHost(h) \in {g.host, NormalHost(g.host)}
      BY DEF NormalHost
    <3> QED
      BY <1>1, <3>2, <3>3, <3>4
  <2> QED
    BY <2>1, <2>2
<1> QED
  BY <1>2, <1>3, <1>4

(* A URI of such parts, with the builder as it was or emptied.             *)
LEMMA PartsOfComponents ==
    ASSUME NEW s, NEW a \in AuthorityForms, NEW p \in PathForms, NEW q,
           PartsInv, uri' = Components(s, a, p, q),
           builder' \in {builder, EmptyBuilder}
    PROVE  PartsInv'
<1>1. (uri').authority = a /\ (uri').path = p
  BY DEF Components
<1>2. CASE builder' = builder
  BY <1>1, <1>2 DEF PartsInv
<1>3. CASE builder' = EmptyBuilder
  BY <1>1, <1>3 DEF PartsInv, EmptyBuilder
<1> QED
  BY <1>2, <1>3

LEMMA PartsOfAsterisk ==
    ASSUME PartsInv, uri' \in {uri, Asterisk}, builder' \in {builder, EmptyBuilder}
    PROVE  PartsInv'
<1>1. CASE builder' = builder
  BY <1>1 DEF PartsInv
<1>2. CASE builder' = EmptyBuilder
  BY <1>2 DEF PartsInv, EmptyBuilder
<1> QED
  BY <1>1, <1>2

(* A reference with such parts gives a URI with such parts.                *)
LEMMA AdoptedParts ==
    ASSUME NEW r, ProperReference(r), PartsInv, Adopt(TryFromReference(r)),
           r.authority \in AuthorityForms \cup {Absent}, r.path \in PathForms,
           builder' \in {builder, EmptyBuilder}
    PROVE  PartsInv'
<1> DEFINE u == TryFromReference(r).uri
<1>1. uri' = IF TryFromReference(r).tag = "Ok" THEN u ELSE uri
  BY DEF Adopt
<1>2. CASE TryFromReference(r).tag = "Ok"
  <2>1. \/ u = Asterisk
        \/ u = Components(r.scheme, r.authority, r.path, r.query) /\ r.authority # Absent
    BY <1>2, AcceptedReference
  <2>2. uri' = u
    BY <1>1, <1>2
  <2> HIDE DEF u
  <2> QED
    BY <2>1, <2>2, PartsOfComponents, PartsOfAsterisk
<1>3. CASE TryFromReference(r).tag # "Ok"
  BY <1>1, <1>3, PartsOfAsterisk
<1> QED
  BY <1>2, <1>3

(* The same for a builder with such parts (build).                         *)
LEMMA BuiltParts ==
    ASSUME NEW b, PartsInv, Adopt(Build(b)),
           b.authority \in AuthorityForms \cup {Absent}, b.path \in PathForms \cup {Absent},
           builder' \in {builder, EmptyBuilder}
    PROVE  PartsInv'
<1>1. CASE b.scheme = Absent \/ b.authority = Absent \/ b.path = Absent
  <2>1. Build(b).tag # "Ok"
    BY <1>1 DEF Build, Invalid
  <2> QED
    BY <2>1, PartsOfAsterisk DEF Adopt
<1>2. CASE b.scheme # Absent /\ b.authority # Absent /\ b.path # Absent
  <2> DEFINE ref == FromParts(b.scheme, b.authority, b.path, b.query)
  <2>1. Adopt(TryFromReference(ref))
    BY <1>2 DEF Build
  <2>2. ProperReference(ref)
    BY DEF FromParts, Reference, MakeAbsolute, ProperReference
  <2>3. ref.authority = b.authority /\ ref.path = MakeAbsolute(b.path)
    BY DEF FromParts, Reference
  <2>4. MakeAbsolute(b.path) \in PathForms
    BY <1>2, PathFormsClosed
  <2> HIDE DEF ref
  <2> QED
    BY <1>2, <2>1, <2>2, <2>3, <2>4, AdoptedParts
<1> QED
  BY <1>1, <1>2

(* One step of any operation keeps the parts among the forms.              *)
LEMMA PartsStepInv == UriInv /\ PartsInv /\ [UriNext]_uriVars => PartsInv'
<1> SUFFICES ASSUME UriInv, PartsInv, [UriNext]_uriVars PROVE PartsInv'
  OBVIOUS
<1>a. uri # Asterisk => /\ uri.authority \in AuthorityForms /\ uri.path \in PathForms
                        /\ uri.asterisk = FALSE
  BY NotAsterisk DEF PartsInv
<1>1. ASSUME NEW s \in Schemes \cup {Absent}, NEW a \in Authorities \cup {Absent},
             NEW p \in Paths, NEW q \in Queries \cup {Absent}, NEW f \in BOOLEAN,
             ParseURI(s, a, p, q, f)
      PROVE  PartsInv'
  <2> DEFINE ref == Reference(s, a, p, q, f)
  <2>1. a # Absent => p.absolute
    BY <1>1 DEF ParseURI
  <2>2. ProperReference(ref)
    BY <2>1, RequestUriAssumption DEF Reference, ProperReference
  <2>3. ref.authority = a /\ ref.path = p
    BY DEF Reference
  <2>4. Adopt(TryFromReference(ref)) /\ builder' = builder
    BY <1>1 DEF ParseURI
  <2>5. a \in AuthorityForms \cup {Absent} /\ p \in PathForms
    BY PathFormsClosed, AuthorityFormsClosed
  <2> HIDE DEF ref
  <2> QED
    BY <2>2, <2>3, <2>4, <2>5, AdoptedParts
<1>2. ASSUME NEW s \in Schemes, NEW a \in Authorities, NEW p \in Paths,
             NEW q \in Queries \cup {Absent}, MakeFromParts(s, a, p, q)
      PROVE  PartsInv'
  <2> DEFINE b == [scheme |-> s, authority |-> a, path |-> p, query |-> q]
  <2>1. Adopt(Build(b)) /\ builder' = builder
    BY <1>2 DEF MakeFromParts, URIFromParts
  <2>2. b.authority \in AuthorityForms /\ b.path \in PathForms
    BY PathFormsClosed, AuthorityFormsClosed
  <2> HIDE DEF b
  <2> QED
    BY <2>1, <2>2, BuiltParts
<1>3. CASE BuildURI
  BY <1>3, BuiltParts DEF BuildURI, PartsInv
<1>4. CASE TakeBuilder
  <2>1. uri # Asterisk /\ uri' = Asterisk
    BY <1>4 DEF TakeBuilder, Asterisk
  <2>2. builder' = [scheme |-> uri.scheme, authority |-> uri.authority,
                    path |-> uri.path, query |-> uri.query]
    BY <1>4 DEF TakeBuilder, IntoBuilder, IntoParts
  <2> QED
    BY <1>a, <2>1, <2>2 DEF PartsInv
<1>5. CASE Normalize
  <2>1. CASE uri = Asterisk
    BY <1>5, <2>1, AsteriskStays, PartsOfAsterisk DEF Normalize, Normalized
  <2>2. CASE uri # Asterisk
    <3> DEFINE a == [host |-> NormalHost(uri.authority.host),
                     port |-> IF PortOf(uri) = DefaultPort(uri) THEN Absent ELSE PortOf(uri)]
               p == NormalPath(uri.path)
    <3>1. uri' = Components(uri.scheme, a, p, NormalQuery(uri.query)) /\ builder' = builder
      BY <1>5, <1>a, <2>2 DEF Normalize, Normalized
    <3>2. PortOf(uri) = uri.authority.port
      BY <1>a, <2>2 DEF PortOf
    <3>3. a \in AuthorityForms
      BY <1>a, <2>2, <3>2, AuthorityFormsClosed
    <3>4. p \in PathForms
      BY <1>a, <2>2, PathFormsClosed
    <3> HIDE DEF a, p
    <3> QED
      BY <3>1, <3>3, <3>4, PartsOfComponents
  <2> QED
    BY <2>1, <2>2
<1>6. ASSUME NEW a \in Authorities, BuilderAuthority(a) \/ SetAuthority(a) \/ MapAuthority(a)
      PROVE  PartsInv'
  <2>1. a \in AuthorityForms /\ SentinelAuthority \in AuthorityForms
    BY AuthorityFormsClosed
  <2>2. CASE BuilderAuthority(a)
    <3>1. uri' = uri /\ builder' = [builder EXCEPT !.authority = a]
      BY <2>2 DEF BuilderAuthority, ChangeBuilder
    <3> QED
      BY <2>1, <3>1 DEF PartsInv
  <2>3. CASE ~BuilderAuthority(a) /\ uri = Asterisk
    BY <1>6, <2>3, AsteriskStays, PartsOfAsterisk DEF SetAuthority, SetComponent, MapAuthority
  <2>4. CASE ~BuilderAuthority(a) /\ uri # Asterisk
    <3>1. /\ builder' = builder
          /\ \E x \in {a, SentinelAuthority} :
                uri' = Components(uri.scheme, x, uri.path, uri.query)
      BY <1>6, <1>a, <2>4 DEF SetAuthority, SetComponent, MapAuthority
    <3> QED
      BY <1>a, <2>1, <2>4, <3>1, PartsOfComponents
  <2> QED
    BY <2>2, <2>3, <2>4
<1>7. ASSUME NEW p \in Paths, BuilderPath(p) \/ SetPath(p) \/ MapPath(p)
      PROVE  PartsInv'
  <2>1. p \in PathForms /\ MakeAbsolute(p) \in PathForms
    BY PathFormsClosed
  <2>2. CASE BuilderPath(p)
    <3>1. uri' = uri /\ builder' = [builder EXCEPT !.path = p]
      BY <2>2 DEF BuilderPath, ChangeBuilder
    <3> QED
      BY <2>1, <3>1 DEF PartsInv
  <2>3. CASE ~BuilderPath(p) /\ uri = Asterisk
    BY <1>7, <2>3, AsteriskStays, PartsOfAsterisk DEF SetPath, SetComponent, MapPath
  <2>4. CASE ~BuilderPath(p) /\ uri # Asterisk
    <3>1. /\ builder' = builder
          /\ uri' = Components(uri.scheme, uri.authority, MakeAbsolute(p), uri.query)
      BY <1>7, <1>a, <2>4 DEF SetPath, SetComponent, MapPath
    <3> QED
      BY <1>a, <2>1, <2>4, <3>1, PartsOfComponents
  <2> QED
    BY <2>2, <2>3, <2>4
<1>8. ASSUME NEW q \in Queries \cup {Absent}, BuilderQuery(q) \/ SetQuery(q) \/ MapQuery(q)
      PROVE  PartsInv'
  <2>2. CASE BuilderQuery(q)
    <3>1. uri' = uri /\ builder' = [builder EXCEPT !.query = q]
      BY <2>2 DEF BuilderQuery, ChangeBuilder
    <3> QED
      BY <3>1 DEF PartsInv
  <2>3. CASE ~BuilderQuery(q) /\ uri = Asterisk
    BY <1>8, <2>3, AsteriskStays, PartsOfAsterisk DEF SetQuery, SetComponent, MapQuery
  <2>4. CASE ~BuilderQuery(q) /\ uri # Asterisk
    <3>1. /\ builder' = builder
          /\ uri' = Components(uri.scheme, uri.authority, uri.path, q)
      BY <1>8, <1>a, <2>4 DEF SetQuery, SetComponent, MapQuery
    <3> QED
      BY <1>a, <2>4, <3>1, PartsOfComponents
  <2> QED
    BY <2>2, <2>3, <2>4
<1>9. ASSUME NEW s \in Schemes, BuilderScheme(s) \/ SetScheme(s) \/ MapScheme(s)
      PROVE  PartsInv'
  <2>2. CASE BuilderScheme(s)
    <3>1. uri' = uri /\ builder' = [builder EXCEPT !.scheme = s]
      BY <2>2 DEF BuilderScheme, ChangeBuilder
    <3> QED
      BY <3>1 DEF PartsInv
  <2>3. CASE ~BuilderScheme(s) /\ uri = Asterisk
    BY <1>9, <2>3, AsteriskStays, PartsOfAsterisk DEF SetScheme, SetComponent, MapScheme
  <2>4. CASE ~BuilderScheme(s) /\ uri # Asterisk
    <3>1. /\ builder' = builder
          /\ \/ uri' = uri
             \/ uri' = Components(s, uri.authority, uri.path, uri.query)
      BY <1>9, <1>a, <2>4 DEF SetScheme, SetComponent, MapScheme
    <3> QED
      BY <1>a, <2>4, <3>1, PartsOfComponents, PartsOfAsterisk
  <2> QED
    BY <2>2, <2>3, <2>4
<1>10. ASSUME NEW part \in {"authority", "path", "query"}, MapperPanics(part)
       PROVE  PartsInv'
  <2>1. uri # Asterisk /\ builder' = builder
    BY <1>10 DEF MapperPanics, Asterisk
  <2>2. \E a \in AuthorityForms, p \in PathForms : \E q : uri' = Components(uri.scheme, a, p, q)
    BY <1>10, <1>a, <2>1, AuthorityFormsClosed, PathFormsClosed DEF MapperPanics
  <2> QED
    BY <2>1, <2>2, PartsOfComponents
<1>11. CASE UNCHANGED uriVars
  BY <1>11, PartsOfAsterisk DEF uriVars
<1>12. CASE UriNext
  <2> HIDE DEF PartsInv
  <2> QED
    BY <1>1, <1>2, <1>3, <1>4, <1>5, <1>6, <1>7, <1>8, <1>9, <1>10, <1>12 DEF UriNext
<1> QED
  BY <1>11, <1>12

(* The authority of the normal form: without the port that is the default. *)
PlainAuthority(s, a) ==
    [host |-> NormalHost(a.host), port |-> IF a.port = DefaultPorts[s] THEN Absent ELSE a.port]

(* The normal form of a URI that is not the asterisk, part by part.  Its   *)
(* scheme, and so its default port, is the one of the URI.                 *)
LEMMA NormalParts ==
    ASSUME NEW a \in AuthorityForms, NEW p \in PathForms, NEW s, NEW q
    PROVE  /\ Normalized(Components(s, a, p, q))
                  = Components(s, PlainAuthority(s, a), NormalPath(p), NormalQuery(q))
           /\ PlainAuthority(s, a) \in AuthorityForms
           /\ NormalPath(p) \in PathForms
<1> DEFINE u == Components(s, a, p, q)
           port == IF a.port = DefaultPorts[s] THEN Absent ELSE a.port
<1>1. /\ u.asterisk = FALSE /\ u.scheme = s /\ u.authority = a
      /\ u.path = p /\ u.query = q
  BY DEF Components
<1> HIDE DEF u
<1>2. PortOf(u) = a.port /\ DefaultPort(u) = DefaultPorts[s]
  BY <1>1 DEF PortOf, DefaultPort
<1>3. Normalized(u) = Components(s, PlainAuthority(s, a), NormalPath(p), NormalQuery(q))
  BY <1>1, <1>2 DEF Normalized, PlainAuthority
<1>4. port \in {a.port, Absent} /\ PlainAuthority(s, a) = [host |-> NormalHost(a.host), port |-> port]
  BY DEF PlainAuthority
<1> HIDE DEF port
<1>5. PlainAuthority(s, a) \in AuthorityForms
  BY <1>4, AuthorityFormsClosed
<1> QED
  BY <1>3, <1>5, PathFormsClosed DEF u

(* When a URI of such parts is in normal form.                             *)
LEMMA NormalMeans ==
    ASSUME NEW a \in AuthorityForms, NEW p \in PathForms, NEW s, NEW q
    PROVE  /\ IsNormalized(Components(s, a, p, q))
                  <=> /\ a.port = Absent \/ a.port # DefaultPorts[s]
                      /\ q = NormalQuery(q)
                      /\ a.host = NormalHost(a.host)
                      /\ p = NormalPath(p)
           /\ EffectivePort(Components(s, a, p, q))
                  = IF a.port = Absent THEN DefaultPorts[s] ELSE a.port
<1> DEFINE u == Components(s, a, p, q)
<1>1. /\ u.asterisk = FALSE /\ u.scheme = s /\ u.authority = a
      /\ u.path = p /\ u.query = q
  BY DEF Components
<1>2. /\ PortOf(u) = a.port /\ DefaultPort(u) = DefaultPorts[s]
      /\ AuthorityOf(u) = a /\ PathOf(u) = p /\ QueryOf(u) = q
  BY <1>1 DEF PortOf, DefaultPort, AuthorityOf, PathOf, QueryOf
<1>3. a = NormalAuthority(a) <=> a.host = NormalHost(a.host)
  <2>1. a = [host |-> a.host, port |-> a.port]
    BY AuthorityFormsClosed
  <2>2. a.host = NormalHost(a.host) => a = NormalAuthority(a)
    BY <2>1 DEF NormalAuthority
  <2>3. NormalAuthority(a).host = NormalHost(a.host)
    BY DEF NormalAuthority
  <2> QED
    BY <2>2, <2>3
<1> QED
  <2> HIDE DEF u
  <2>1. /\ IsNormalized(u) <=> /\ a.port = Absent \/ a.port # DefaultPorts[s]
                               /\ q = NormalQuery(q)
                               /\ a = NormalAuthority(a)
                               /\ p = NormalPath(p)
        /\ EffectivePort(u) = IF a.port = Absent THEN DefaultPorts[s] ELSE a.port
    BY <1>1, <1>2 DEF IsNormalized, EffectivePort
  <2> QED
    BY <1>3, <2>1 DEF u

(* Normalizing gives a normal form with the same port to connect to.       *)
LEMMA NormalForm ==
    ASSUME UriInv, PartsInv
    PROVE  NormalFormReached
<1>1. CASE uri = Asterisk
  BY <1>1, AsteriskStays DEF NormalFormReached, Normalized, IsNormalized
<1>2. CASE uri # Asterisk
  <2> DEFINE s == uri.scheme
             a == uri.authority
             p == uri.path
             q == uri.query
             port == IF a.port = DefaultPorts[s] THEN Absent ELSE a.port
             b == PlainAuthority(s, a)
  <2>1. uri = Components(s, a, p, q) /\ a \in AuthorityForms /\ p \in PathForms
    BY <1>2 DEF UriInv, PartsInv
  <2>2. /\ Normalized(uri) = Components(s, b, NormalPath(p), NormalQuery(q))
        /\ b \in AuthorityForms /\ NormalPath(p) \in PathForms
    <3> HIDE DEF s, a, p, q
    <3> QED
      BY <2>1, NormalParts
  <2>3. b = [host |-> NormalHost(a.host), port |-> port]
        /\ b.host = NormalHost(a.host) /\ b.port = port
    BY DEF PlainAuthority
  <2>4. /\ NormalHost(NormalHost(a.host)) = NormalHost(a.host)
        /\ NormalQuery(NormalQuery(q)) = NormalQuery(q)
        /\ NormalPath(NormalPath(p)) = NormalPath(p)
    BY <2>1, PathFormsClosed DEF NormalHost, NormalQuery
  <2>5. port = Absent \/ port # DefaultPorts[s]
    OBVIOUS
  <2>6. (IF port = DefaultPorts[s] THEN Absent ELSE port) = port
    OBVIOUS
  <2>7. /\ EffectivePort(uri) = IF a.port = Absent THEN DefaultPorts[s] ELSE a.port
        /\ IsNormalized(uri) <=> /\ a.port = Absent \/ a.port # DefaultPorts[s]
                                 /\ q = NormalQuery(q)
                                 /\ a.host = NormalHost(a.host)
                                 /\ p = NormalPath(p)
    BY <2>1, NormalMeans
  <2>8. (IF port = Absent THEN DefaultPorts[s] ELSE port)
            = (IF a.port = Absent THEN DefaultPorts[s] ELSE a.port)
    OBVIOUS
  <2>9. a = b <=> a.host = NormalHost(a.host) /\ a.port = port
    <3>1. a = [host |-> a.host, port |-> a.port]
      BY <2>1, AuthorityFormsClosed
    <3> QED
      BY <2>3, <3>1
  <2>10. a.port = port <=> a.port = Absent \/ a.port # DefaultPorts[s]
    OBVIOUS
  <2> HIDE DEF s, a, p, q, port
  <2>11. IsNormalized(Normalized(uri))
    <3>1. b.port = Absent \/ b.port # DefaultPorts[s]
      BY <2>3, <2>5
    <3> HIDE DEF b
    <3> QED
      BY <2>2, <2>3, <2>4, <3>1, NormalMeans
  <2>12. Normalized(Normalized(uri)) = Normalized(uri)
    <3>1. Normalized(Normalized(uri))
              = Components(s, PlainAuthority(s, b), NormalPath(NormalPath(p)),
                           NormalQuery(NormalQuery(q)))
      <4> HIDE DEF b
      <4> QED
        BY <2>2, NormalParts
    <3>2. PlainAuthority(s, b) = b
      <4> HIDE DEF b
      <4> QED
        BY <2>3, <2>4, <2>6 DEF PlainAuthority
    <3> QED
      BY <2>2, <2>4, <3>1, <3>2
  <2>13. EffectivePort(Normalized(uri)) = EffectivePort(uri)
    <3>1. EffectivePort(Normalized(uri)) = IF b.port = Absent THEN DefaultPorts[s] ELSE b.port
      <4> HIDE DEF b
      <4> QED
        BY <2>2, NormalMeans
    <3> QED
      BY <2>3, <2>7, <2>8, <3>1
  <2>14. IsNormalized(uri) <=> Normalized(uri) = uri
    <3>1. Normalized(uri) = uri <=> a = b /\ p = NormalPath(p) /\ q = NormalQuery(q)
      <4> HIDE DEF b
      <4>1. ASSUME NEW x, NEW y, NEW z
            PROVE  /\ Components(s, x, y, z).authority = x
                   /\ Components(s, x, y, z).path = y
                   /\ Components(s, x, y, z).query = z
        BY DEF Components
      <4> QED
        BY <2>1, <2>2, <4>1
    <3> HIDE DEF b
    <3> QED
      BY <2>7, <2>9, <2>10, <3>1
  <2> QED
    BY <2>11, <2>12, <2>13, <2>14 DEF NormalFormReached
<1> QED
  BY <1>1, <1>2

(* A reference to a URI of the right shape is taken back as that URI.      *)
LEMMA ReferenceTaken ==
    ASSUME NEW s \in RTSPSchemes, NEW a \in AuthorityForms, a.host # "", NEW p, NEW q
    PROVE  TryFromReference(Reference(s, a, p, q, FALSE)) = Valid(Components(s, a, p, q))
<1> DEFINE r == Reference(s, a, p, q, FALSE)
<1>1. /\ r.fragment = FALSE /\ r.scheme = s /\ r.authority = a
      /\ r.path = p /\ r.query = q
  BY DEF Reference
<1>2. s # Absent /\ a # Absent
  BY RequestUriAssumption
<1> HIDE DEF r
<1>3. TryFromReference(r) = Valid(Components(s, a, p, q))
  BY <1>1, <1>2 DEF TryFromReference
<1> QED
  BY <1>3 DEF r

(* Over the wire, over a reference and over a builder, a URI comes back.   *)
LEMMA RoundTrips ==
    ASSUME UriInv, PartsInv, ~panicked
    PROVE  /\ TryFromReference(DisplayedAndParsed(uri)) = Valid(uri)
           /\ TryFromReference(ToReference(uri)) = Valid(uri)
           /\ ~uri.asterisk => Build(IntoBuilder(uri)) = Valid(uri)
<1>1. CASE uri = Asterisk
  <2> DEFINE r == Reference(Absent, Absent, AsteriskPath, Absent, FALSE)
  <2>1. DisplayedAndParsed(uri) = r /\ ToReference(uri) = r
    BY <1>1, AsteriskStays DEF DisplayedAndParsed, ToReference
  <2>2. /\ r.fragment = FALSE /\ r.scheme = Absent /\ r.authority = Absent
        /\ r.path.segments = <<"*">> /\ r.query = Absent
    BY DEF Reference, AsteriskPath
  <2> HIDE DEF r
  <2>3. TryFromReference(r) = Valid(Asterisk)
    BY <2>2 DEF TryFromReference
  <2> QED
    BY <1>1, <2>1, <2>3, AsteriskStays
<1>2. CASE uri # Asterisk
  <2> DEFINE s == uri.scheme
             a == uri.authority
             p == uri.path
             q == uri.query
  <2>1. /\ uri = Components(s, a, p, q) /\ a \in AuthorityForms /\ p \in PathForms
        /\ s \in RTSPSchemes /\ a.host # "" /\ p.absolute = TRUE
        /\ uri.asterisk = FALSE
    BY <1>2, NotAsterisk DEF UriInv, PartsInv
  <2>2. TryFromReference(Reference(s, a, p, q, FALSE)) = Valid(uri)
    <3> HIDE DEF s, a, p, q
    <3> QED
      BY <2>1, ReferenceTaken
  <2>3. MakeAbsolute(p) = p
    BY <2>1, PathFormsClosed DEF MakeAbsolute
  <2>4. DisplayedAndParsed(uri) = Reference(s, a, p, q, FALSE)
    BY <2>1 DEF DisplayedAndParsed
  <2>5. FromParts(s, a, p, q) = Reference(s, a, p, q, FALSE)
    BY <2>3 DEF FromParts
  <2>6. ToReference(uri) = FromParts(s, a, p, q)
    BY <2>1 DEF ToReference
  <2>7. Build(IntoBuilder(uri)) = TryFromReference(FromParts(s, a, p, q))
    <3> DEFINE b == [scheme |-> s, authority |-> a, path |-> p, query |-> q]
    <3>1. IntoBuilder(uri) = b
      BY DEF IntoBuilder, IntoParts
    <3>2. b.scheme = s /\ b.authority = a /\ b.path = p /\ b.query = q
      OBVIOUS
    <3>3. s # Absent /\ a # Absent /\ p # Absent
      BY <2>1, RequestUriAssumption
    <3> HIDE DEF b, s, a, p, q
    <3>4. Build(b) = TryFromReference(FromParts(s, a, p, q))
      BY <3>2, <3>3 DEF Build
    <3> QED
      BY <3>1, <3>4
  <2> QED
    BY <2>2, <2>4, <2>5, <2>6, <2>7
<1> QED
  BY <1>1, <1>2

(* A URI made by any sequence of operations survives the way over the      *)
(* wire, over a reference and over a builder, and has a normal form that   *)
(* is_normalized accepts, reached in one step, with the port that a        *)
(* connection is made to (uri/request.rs: Display, TryFrom, into_builder,  *)
(* normalize, is_normalized).                                              *)
THEOREM UriConversionsAgree == UriSpec => []ConversionsAgree
<1>1. UriInit => UriInv /\ PartsInv
  BY DEF UriInit, UriInv, PartsInv, EmptyBuilder
<1>2. UriInv /\ PartsInv => ConversionsAgree
  BY NormalForm, RoundTrips DEF ConversionsAgree
<1> QED
  BY <1>1, <1>2, UriStepInv, PartsStepInv, PTL DEF UriSpec

-----------------------------------------------------------------------------
(* Requests and responses (Messages).                                      *)

(* build of a request succeeds on all its parts and changes nothing.       *)
LEMMA RequestBuilt ==
    ASSUME NEW b
    PROVE  /\ RequestBuild(b).tag = "Ok" =>
                 /\ RequestBuild(b).message = b
                 /\ b.method # Absent /\ b.uri # Absent /\ b.body # Absent /\ b.version = "2.0"
           /\ b.method # Absent /\ b.uri # Absent /\ b.body # Absent /\ b.version = "2.0"
                 => RequestBuild(b) = Built(b)
<1>1. CASE b.method = Absent
  BY <1>1 DEF RequestBuild, NotBuilt
<1>2. CASE b.method # Absent /\ b.uri = Absent
  BY <1>2 DEF RequestBuild, NotBuilt
<1>3. CASE b.method # Absent /\ b.uri # Absent /\ b.body = Absent
  BY <1>3 DEF RequestBuild, NotBuilt
<1>4. CASE b.method # Absent /\ b.uri # Absent /\ b.body # Absent
  BY <1>4 DEF RequestBuild, NotBuilt, Built
<1> QED
  BY <1>1, <1>2, <1>3, <1>4

(* The phrase that build gives a response.                                 *)
PhraseOf(b) == IF b.status.tag = "Extension" THEN b.phrase ELSE CanonicalReason(b.status)

(* build of a response puts in the phrase and changes nothing else.        *)
LEMMA ResponseBuilt ==
    ASSUME NEW b
    PROVE  /\ ResponseBuild(b).tag = "Ok" =>
                 /\ ResponseBuild(b).message = [b EXCEPT !.phrase = PhraseOf(b)]
                 /\ PhraseOf(b) # Absent /\ b.body # Absent /\ b.version = "2.0"
           /\ PhraseOf(b) # Absent /\ b.body # Absent /\ b.version = "2.0"
                 => ResponseBuild(b) = Built([b EXCEPT !.phrase = PhraseOf(b)])
<1> DEFINE m == [b EXCEPT !.phrase = PhraseOf(b)]
<1>0. ResponseBuild(b) =
          CASE PhraseOf(b) = Absent -> NotBuilt("MissingReasonPhrase")
            [] PhraseOf(b) # Absent /\ b.body = Absent -> NotBuilt("MissingBody")
            [] OTHER -> IF b.version # "2.0" THEN NotBuilt("UnsupportedVersion") ELSE Built(m)
  BY DEF ResponseBuild, PhraseOf
<1> HIDE DEF m
<1>1. CASE PhraseOf(b) = Absent
  BY <1>0, <1>1 DEF NotBuilt
<1>2. CASE PhraseOf(b) # Absent /\ b.body = Absent
  BY <1>0, <1>2 DEF NotBuilt
<1>3. CASE PhraseOf(b) # Absent /\ b.body # Absent
  <2>1. ResponseBuild(b) = IF b.version # "2.0" THEN NotBuilt("UnsupportedVersion") ELSE Built(m)
    BY <1>0, <1>3
  <2>2. /\ ResponseBuild(b).tag = "Ok" => ResponseBuild(b).message = m /\ b.version = "2.0"
        /\ b.version = "2.0" => ResponseBuild(b) = Built(m)
    BY <2>1 DEF NotBuilt, Built
  <2> QED
    BY <1>3, <2>2 DEF m
<1> QED
  BY <1>1, <1>2, <1>3

-----------------------------------------------------------------------------
(* A request is only changed to one with all its parts.                    *)
LEMMA RequestStepInv == RequestInv /\ [RequestNext \/ ResponseNext]_messageVars => RequestInv'
<1> SUFFICES ASSUME RequestInv, [RequestNext \/ ResponseNext]_messageVars PROVE RequestInv'
  OBVIOUS
<1>a. ASSUME NEW b, SetRequestPart(b), RequestRecord(b), b.uri \in URIForms \cup {Absent}
      PROVE  RequestInv'
  BY <1>a DEF SetRequestPart, RequestInv
<1>b. ASSUME NEW r, ChangeRequest(r), RequestRecord(r), r.uri \in URIForms,
             r.method # Absent, r.body # Absent, r.version = "2.0"
      PROVE  RequestInv'
  BY <1>b DEF ChangeRequest, RequestInv
<1>c. RequestRecord(requestBuilder) /\ requestBuilder.uri \in URIForms \cup {Absent}
  BY DEF RequestInv
<1>d. request # Absent =>
          /\ RequestRecord(request) /\ request.uri \in URIForms
          /\ request.method # Absent /\ request.body # Absent /\ request.version = "2.0"
  BY DEF RequestInv
<1>1. ASSUME NEW m \in Methods, SetMethod(m) PROVE RequestInv'
  <2> DEFINE b == [requestBuilder EXCEPT !.method = m]
  <2>1. SetRequestPart(b)
    BY <1>1 DEF SetMethod
  <2>2. RequestRecord(b) /\ b.uri = requestBuilder.uri
    BY <1>c DEF RequestRecord
  <2> HIDE DEF b
  <2> QED
    BY <1>a, <1>c, <2>1, <2>2
<1>2. ASSUME NEW m \in Methods, MethodMut(m) PROVE RequestInv'
  <2> DEFINE r == [request EXCEPT !.method = m]
  <2>1. ChangeRequest(r) /\ request # Absent
    BY <1>2 DEF MethodMut, ChangeRequest
  <2>2. /\ RequestRecord(r) /\ r.uri = request.uri /\ r.method = m
        /\ r.body = request.body /\ r.version = request.version
    BY <1>d, <2>1 DEF RequestRecord
  <2>3. m # Absent
    BY MessagesAssumption
  <2> HIDE DEF r
  <2> QED
    BY <1>b, <1>d, <2>1, <2>2, <2>3
<1>3. ASSUME NEW u \in URIs, SetURI(u) PROVE RequestInv'
  <2> DEFINE b == [requestBuilder EXCEPT !.uri = u]
  <2>1. SetRequestPart(b)
    BY <1>3 DEF SetURI
  <2>2. RequestRecord(b) /\ b.uri = u
    BY <1>c DEF RequestRecord
  <2> HIDE DEF b
  <2> QED
    BY <1>a, <1>c, <2>1, <2>2 DEF URIForms
<1>4. ASSUME NEW body \in Bodies, SetRequestBody(body) PROVE RequestInv'
  <2> DEFINE b == [requestBuilder EXCEPT !.body = body]
  <2>1. SetRequestPart(b)
    BY <1>4 DEF SetRequestBody
  <2>2. RequestRecord(b) /\ b.uri = requestBuilder.uri
    BY <1>c DEF RequestRecord
  <2> HIDE DEF b
  <2> QED
    BY <1>a, <1>c, <2>1, <2>2
<1>5. ASSUME NEW body \in Bodies, MapRequest(body) PROVE RequestInv'
  <2> DEFINE r == [request EXCEPT !.body = body]
  <2>1. ChangeRequest(r) /\ request # Absent
    BY <1>5 DEF MapRequest, ChangeRequest
  <2>2. /\ RequestRecord(r) /\ r.uri = request.uri /\ r.method = request.method
        /\ r.body = body /\ r.version = request.version
    BY <1>d, <2>1 DEF RequestRecord
  <2>3. body # Absent
    BY MessagesAssumption
  <2> HIDE DEF r
  <2> QED
    BY <1>b, <1>d, <2>1, <2>2, <2>3
<1>6. ASSUME NEW v \in Versions, SetRequestVersion(v) PROVE RequestInv'
  <2> DEFINE b == [requestBuilder EXCEPT !.version = v]
  <2>1. SetRequestPart(b)
    BY <1>6 DEF SetRequestVersion
  <2>2. RequestRecord(b) /\ b.uri = requestBuilder.uri
    BY <1>c DEF RequestRecord
  <2> HIDE DEF b
  <2> QED
    BY <1>a, <1>c, <2>1, <2>2
<1>7. ASSUME NEW value \in CSeqTexts, AddRequestHeader(value) PROVE RequestInv'
  <2> DEFINE b == [requestBuilder EXCEPT !.headers = HeaderAppend(requestBuilder.headers, "CSeq", value)]
  <2>1. SetRequestPart(b)
    BY <1>7 DEF AddRequestHeader, WithHeader
  <2>2. RequestRecord(b) /\ b.uri = requestBuilder.uri
    BY <1>c DEF RequestRecord
  <2> HIDE DEF b
  <2> QED
    BY <1>a, <1>c, <2>1, <2>2
<1>8. ASSUME NEW cseq \in CSeqs, SetRequestTyped(cseq) PROVE RequestInv'
  <2> DEFINE b == [requestBuilder EXCEPT !.headers = TypedInsert(requestBuilder.headers, "CSeq", cseq)]
  <2>1. SetRequestPart(b)
    BY <1>8 DEF SetRequestTyped, WithTypedHeader
  <2>2. RequestRecord(b) /\ b.uri = requestBuilder.uri
    BY <1>c DEF RequestRecord
  <2> HIDE DEF b
  <2> QED
    BY <1>a, <1>c, <2>1, <2>2
<1>9. ASSUME NEW cseq \in CSeqs, RequestHeadersMut(cseq) PROVE RequestInv'
  <2> DEFINE r == [request EXCEPT !.headers = TypedInsert(request.headers, "CSeq", cseq)]
  <2>1. ChangeRequest(r) /\ request # Absent
    BY <1>9 DEF RequestHeadersMut, WithTypedHeader, ChangeRequest
  <2>2. /\ RequestRecord(r) /\ r.uri = request.uri /\ r.method = request.method
        /\ r.body = request.body /\ r.version = request.version
    BY <1>d, <2>1 DEF RequestRecord
  <2> HIDE DEF r
  <2> QED
    BY <1>b, <1>d, <2>1, <2>2
<1>10. CASE BuildRequest
  <2>1. requestBuilder' = NewRequestBuilder
    BY <1>10 DEF BuildRequest
  <2>2. RequestRecord(requestBuilder)' /\ (requestBuilder').uri = Absent
    BY <2>1 DEF NewRequestBuilder, RequestRecord
  <2>3. CASE RequestBuild(requestBuilder).tag = "Ok"
    <3>1. request' = requestBuilder
      BY <1>10, <2>3, RequestBuilt DEF BuildRequest
    <3>2. /\ requestBuilder.method # Absent /\ requestBuilder.uri # Absent
          /\ requestBuilder.body # Absent /\ requestBuilder.version = "2.0"
      BY <2>3, RequestBuilt
    <3> QED
      BY <1>c, <2>2, <3>1, <3>2 DEF RequestInv
  <2>4. CASE RequestBuild(requestBuilder).tag # "Ok"
    BY <1>10, <2>2, <2>4 DEF BuildRequest, RequestInv
  <2> QED
    BY <2>3, <2>4
<1>11. CASE TakeRequestBuilder
  BY <1>11, <1>d DEF TakeRequestBuilder, RequestIntoBuilder, RequestInv
<1>12. CASE NormalizeRequest
  <2> DEFINE r == [request EXCEPT !.uri = Normalized(request.uri)]
  <2>1. ChangeRequest(r) /\ request # Absent
    BY <1>12 DEF NormalizeRequest, ChangeRequest
  <2>2. /\ RequestRecord(r) /\ r.uri = Normalized(request.uri) /\ r.method = request.method
        /\ r.body = request.body /\ r.version = request.version
    BY <1>d, <2>1 DEF RequestRecord
  <2>3. Normalized(request.uri) \in URIForms
    BY <1>d, <2>1, MessagesAssumption DEF URIForms
  <2> HIDE DEF r
  <2> QED
    BY <1>b, <1>d, <2>1, <2>2, <2>3
<1>13. CASE ResponseNext \/ UNCHANGED messageVars
  <2>1. UNCHANGED requestVars
    BY <1>13 DEF ResponseNext, messageVars, SetStatusCode, StatusCodeMut, SetReasonPhrase,
                 ReasonPhraseMut, SetResponseBody, MapResponse, SetResponseVersion,
                 AddResponseHeader, SetResponseTyped, ResponseHeadersMut, BuildResponse,
                 TakeResponseBuilder, SetResponsePart, ChangeResponse
  <2> QED
    BY <2>1 DEF requestVars, RequestInv
<1> QED
  BY <1>1, <1>2, <1>3, <1>4, <1>5, <1>6, <1>7, <1>8, <1>9, <1>10, <1>11, <1>12, <1>13
  DEF RequestNext

(* A response keeps the phrase that build gave it, unless one of the two   *)
(* is replaced in place.                                                   *)
LEMMA ResponseStepInv == ResponseInv /\ [RequestNext \/ ResponseNext]_messageVars => ResponseInv'
<1> SUFFICES ASSUME ResponseInv, [RequestNext \/ ResponseNext]_messageVars PROVE ResponseInv'
  OBVIOUS
<1> DEFINE Phrased(r) == /\ r.phrase # Absent
                         /\ r.status.tag # "Extension" => r.phrase = CanonicalReason(r.status)
<1>a. ASSUME NEW b, SetResponsePart(b), ResponseRecord(b)
      PROVE  ResponseInv'
  BY <1>a DEF SetResponsePart, ResponseInv
<1>b. ASSUME NEW r, ChangeResponse(r), ResponseRecord(r), r.body # Absent, r.version = "2.0",
             ~mutated' => Phrased(r)
      PROVE  ResponseInv'
  BY <1>b DEF ChangeResponse, ResponseInv
<1>c. ResponseRecord(responseBuilder)
  BY DEF ResponseInv
<1>d. response # Absent =>
          /\ ResponseRecord(response)
          /\ response.body # Absent /\ response.version = "2.0"
          /\ ~mutated => Phrased(response)
  BY DEF ResponseInv
<1>1. ASSUME NEW code \in StatusCodes, SetStatusCode(code) PROVE ResponseInv'
  <2> DEFINE b == [responseBuilder EXCEPT !.status = code]
  <2>1. SetResponsePart(b)
    BY <1>1 DEF SetStatusCode
  <2>2. ResponseRecord(b)
    BY <1>c DEF ResponseRecord
  <2> HIDE DEF b
  <2> QED
    BY <1>a, <2>1, <2>2
<1>2. ASSUME NEW code \in StatusCodes, StatusCodeMut(code) PROVE ResponseInv'
  <2> DEFINE r == [response EXCEPT !.status = code]
  <2>1. ChangeResponse(r) /\ response # Absent /\ mutated' = TRUE
    BY <1>2 DEF StatusCodeMut, ChangeResponse
  <2>2. /\ ResponseRecord(r) /\ r.body = response.body /\ r.version = response.version
        /\ r.status = code /\ r.phrase = response.phrase
    BY <1>d, <2>1 DEF ResponseRecord
  <2> HIDE DEF r
  <2> QED
    BY <1>b, <1>d, <2>1, <2>2
<1>3. ASSUME NEW p \in Phrases \cup {Absent}, SetReasonPhrase(p) PROVE ResponseInv'
  <2> DEFINE b == [responseBuilder EXCEPT !.phrase = p]
  <2>1. SetResponsePart(b)
    BY <1>3 DEF SetReasonPhrase
  <2>2. ResponseRecord(b)
    BY <1>c DEF ResponseRecord
  <2> HIDE DEF b
  <2> QED
    BY <1>a, <2>1, <2>2
<1>4. ASSUME NEW p \in Phrases, ReasonPhraseMut(p) PROVE ResponseInv'
  <2> DEFINE r == [response EXCEPT !.phrase = p]
  <2>1. ChangeResponse(r) /\ response # Absent /\ mutated' = TRUE
    BY <1>4 DEF ReasonPhraseMut, ChangeResponse
  <2>2. /\ ResponseRecord(r) /\ r.body = response.body /\ r.version = response.version
        /\ r.status = response.status /\ r.phrase = p
    BY <1>d, <2>1 DEF ResponseRecord
  <2> HIDE DEF r
  <2> QED
    BY <1>b, <1>d, <2>1, <2>2
<1>5. ASSUME NEW body \in Bodies, SetResponseBody(body) PROVE ResponseInv'
  <2> DEFINE b == [responseBuilder EXCEPT !.body = body]
  <2>1. SetResponsePart(b)
    BY <1>5 DEF SetResponseBody
  <2>2. ResponseRecord(b)
    BY <1>c DEF ResponseRecord
  <2> HIDE DEF b
  <2> QED
    BY <1>a, <2>1, <2>2
<1>6. ASSUME NEW body \in Bodies, MapResponse(body) PROVE ResponseInv'
  <2> DEFINE r == [response EXCEPT !.body = body]
  <2>1. ChangeResponse(r) /\ response # Absent /\ mutated' = mutated
    BY <1>6 DEF MapResponse, ChangeResponse
  <2>2. /\ ResponseRecord(r) /\ r.body = body /\ r.version = response.version
        /\ r.status = response.status /\ r.phrase = response.phrase
    BY <1>d, <2>1 DEF ResponseRecord
  <2>3. body # Absent
    BY MessagesAssumption
  <2> HIDE DEF r
  <2> QED
    BY <1>b, <1>d, <2>1, <2>2, <2>3
<1>7. ASSUME NEW v \in Versions, SetResponseVersion(v) PROVE ResponseInv'
  <2> DEFINE b == [responseBuilder EXCEPT !.version = v]
  <2>1. SetResponsePart(b)
    BY <1>7 DEF SetResponseVersion
  <2>2. ResponseRecord(b)
    BY <1>c DEF ResponseRecord
  <2> HIDE DEF b
  <2> QED
    BY <1>a, <2>1, <2>2
<1>8. ASSUME NEW value \in CSeqTexts, AddResponseHeader(value) PROVE ResponseInv'
  <2> DEFINE b == [responseBuilder EXCEPT !.headers = HeaderAppend(responseBuilder.headers, "CSeq", value)]
  <2>1. SetResponsePart(b)
    BY <1>8 DEF AddResponseHeader, WithHeader
  <2>2. ResponseRecord(b)
    BY <1>c DEF ResponseRecord
  <2> HIDE DEF b
  <2> QED
    BY <1>a, <2>1, <2>2
<1>9. ASSUME NEW cseq \in CSeqs, SetResponseTyped(cseq) PROVE ResponseInv'
  <2> DEFINE b == [responseBuilder EXCEPT !.headers = TypedInsert(responseBuilder.headers, "CSeq", cseq)]
  <2>1. SetResponsePart(b)
    BY <1>9 DEF SetResponseTyped, WithTypedHeader
  <2>2. ResponseRecord(b)
    BY <1>c DEF ResponseRecord
  <2> HIDE DEF b
  <2> QED
    BY <1>a, <2>1, <2>2
<1>10. ASSUME NEW cseq \in CSeqs, ResponseHeadersMut(cseq) PROVE ResponseInv'
  <2> DEFINE r == [response EXCEPT !.headers = TypedInsert(response.headers, "CSeq", cseq)]
  <2>1. ChangeResponse(r) /\ response # Absent /\ mutated' = mutated
    BY <1>10 DEF ResponseHeadersMut, WithTypedHeader, ChangeResponse
  <2>2. /\ ResponseRecord(r) /\ r.body = response.body /\ r.version = response.version
        /\ r.status = response.status /\ r.phrase = response.phrase
    BY <1>d, <2>1 DEF ResponseRecord
  <2> HIDE DEF r
  <2> QED
    BY <1>b, <1>d, <2>1, <2>2
<1>11. CASE BuildResponse
  <2>1. responseBuilder' = NewResponseBuilder
    BY <1>11 DEF BuildResponse
  <2>2. ResponseRecord(responseBuilder)'
    BY <2>1 DEF NewResponseBuilder, ResponseRecord
  <2>3. CASE ResponseBuild(responseBuilder).tag = "Ok"
    <3> DEFINE phrase == PhraseOf(responseBuilder)
               r == [responseBuilder EXCEPT !.phrase = phrase]
    <3>1. response' = r
      BY <1>11, <2>3, ResponseBuilt DEF BuildResponse
    <3>2. phrase # Absent /\ responseBuilder.body # Absent /\ responseBuilder.version = "2.0"
      BY <2>3, ResponseBuilt
    <3>3. /\ ResponseRecord(r) /\ r.phrase = phrase /\ r.status = responseBuilder.status
          /\ r.body = responseBuilder.body /\ r.version = responseBuilder.version
      <4> HIDE DEF phrase
      <4> QED
        BY <1>c DEF ResponseRecord
    <3>4. responseBuilder.status.tag # "Extension" =>
              phrase = CanonicalReason(responseBuilder.status)
      BY DEF PhraseOf
    <3> HIDE DEF phrase, r
    <3>5. Phrased(r)
      BY <3>2, <3>3, <3>4
    <3> QED
      BY <2>2, <3>1, <3>2, <3>3, <3>5 DEF ResponseInv
  <2>4. CASE ResponseBuild(responseBuilder).tag # "Ok"
    BY <1>11, <2>2, <2>4 DEF BuildResponse, ResponseInv
  <2> QED
    BY <2>3, <2>4
<1>12. CASE TakeResponseBuilder
  BY <1>12, <1>d DEF TakeResponseBuilder, ResponseIntoBuilder, ResponseInv
<1>13. CASE RequestNext \/ UNCHANGED messageVars
  <2>1. UNCHANGED responseVars
    BY <1>13 DEF RequestNext, messageVars, SetMethod, MethodMut, SetURI, SetRequestBody,
                 MapRequest, SetRequestVersion, AddRequestHeader, SetRequestTyped,
                 RequestHeadersMut, BuildRequest, TakeRequestBuilder, NormalizeRequest,
                 SetRequestPart, ChangeRequest
  <2> QED
    BY <2>1 DEF responseVars, ResponseInv
<1> QED
  BY <1>1, <1>2, <1>3, <1>4, <1>5, <1>6, <1>7, <1>8, <1>9, <1>10, <1>11, <1>12, <1>13
  DEF ResponseNext

(* However requests and responses are made and changed, taking one apart   *)
(* and putting it together again gives the same one, unless the status or  *)
(* the phrase of a response was replaced in place (request.rs and          *)
(* response.rs: build, into_builder, into_parts, from_parts).              *)
THEOREM MessagesAreRebuilt == MessagesSpec => []RebuiltIsSame
<1>1. MessagesInit => RequestInv /\ ResponseInv
  BY DEF MessagesInit, RequestInv, ResponseInv, NewRequestBuilder, NewResponseBuilder,
         RequestRecord, ResponseRecord
<1>2. RequestInv /\ ResponseInv => RebuiltIsSame
  <2> SUFFICES ASSUME RequestInv, ResponseInv PROVE RebuiltIsSame
    OBVIOUS
  <2>1. ASSUME request # Absent
        PROVE  /\ RequestBuild(RequestIntoBuilder(request)) = Built(request)
               /\ RequestFromParts(RequestIntoParts(request)) = Built(request)
    <3>1. RequestBuild(request) = Built(request)
      BY <2>1, RequestBuilt, MessagesAssumption DEF RequestInv
    <3>2. RequestFromParts(RequestIntoParts(request))
              = RequestBuild([method |-> request.method, uri |-> request.uri,
                              version |-> request.version, headers |-> request.headers,
                              body |-> request.body])
      BY DEF RequestFromParts, RequestIntoParts
    <3>3. RequestFromParts(RequestIntoParts(request)) = RequestBuild(request)
      BY <2>1, <3>2 DEF RequestInv, RequestRecord
    <3> QED
      BY <3>1, <3>3 DEF RequestIntoBuilder
  <2>2. ASSUME response # Absent, ~mutated
        PROVE  /\ ResponseBuild(ResponseIntoBuilder(response)) = Built(response)
               /\ ResponseFromParts(ResponseIntoParts(response)) = Built(response)
    <3>1. PhraseOf(response) = response.phrase /\ response.phrase # Absent
      BY <2>2 DEF ResponseInv, PhraseOf
    <3>2. [response EXCEPT !.phrase = response.phrase] = response
      BY <2>2 DEF ResponseInv, ResponseRecord
    <3>3. ResponseBuild(response) = Built(response)
      BY <2>2, <3>1, <3>2, ResponseBuilt DEF ResponseInv
    <3>4. ResponseFromParts(ResponseIntoParts(response))
              = ResponseBuild([version |-> response.version, status |-> response.status,
                               phrase |-> response.phrase, headers |-> response.headers,
                               body |-> response.body])
      BY DEF ResponseFromParts, ResponseIntoParts
    <3>5. ResponseFromParts(ResponseIntoParts(response)) = ResponseBuild(response)
      BY <2>2, <3>4 DEF ResponseInv, ResponseRecord
    <3> QED
      BY <3>3, <3>5 DEF ResponseIntoBuilder
  <2> QED
    BY <2>1, <2>2 DEF RebuiltIsSame
<1> QED
  BY <1>1, <1>2, RequestStepInv, ResponseStepInv, PTL DEF MessagesSpec

-----------------------------------------------------------------------------
(* The typed header of a message.                                          *)

(* A header map, of whatever entries.                                      *)
IsMap(map) == \E Pairs : map \in Seq(Pairs)

(* It has the sequence number that was given as a typed header.            *)
Carries(map, cseq) == cseq # Absent => GetAll(map, "CSeq") = CSeqEncode(cseq)

(* An empty map is one.                                                    *)
LEMMA EmptyIsMap ==
    ASSUME NEW map, map = <<>>
    PROVE  IsMap(map)
<1>1. map \in Seq({map})
  OBVIOUS
<1> QED
  BY <1>1 DEF IsMap

(* append makes a map of a map.                                            *)
LEMMA AppendedIsMap ==
    ASSUME NEW map, IsMap(map), NEW name, NEW value
    PROVE  IsMap(HeaderAppend(map, name, value))
<1>1. PICK Pairs : map \in Seq(Pairs)
  BY DEF IsMap
<1> DEFINE e == <<name, value>>
<1>2. Append(map, e) \in Seq(Pairs \cup {e})
  <2> HIDE DEF e
  <2>1. map \in Seq(Pairs \cup {e})
    BY <1>1
  <2> QED
    BY <2>1
<1>3. HeaderAppend(map, name, value) = Append(map, e)
  BY DEF HeaderAppend
<1> HIDE DEF e
<1> QED
  BY <1>2, <1>3 DEF IsMap

(* typed_insert makes a map that has the sequence number.                  *)
LEMMA InsertedIsMap ==
    ASSUME NEW map, IsMap(map), NEW cseq
    PROVE  /\ IsMap(TypedInsert(map, "CSeq", cseq))
           /\ Carries(TypedInsert(map, "CSeq", cseq), cseq)
<1>1. PICK Pairs : map \in Seq(Pairs)
  BY DEF IsMap
<1> DEFINE value == FormatUnsigned(cseq)
           e == <<"CSeq", value>>
           E == Pairs \cup {e}
           after == ExtendEntry(map, "CSeq", <<value>>)
<1>2. CSeqEncode(cseq) = <<value>> /\ TypedInsert(map, "CSeq", cseq) = after
  BY DEF CSeqEncode, TypedInsert, TypedEncode
<1> HIDE DEF value
<1>3. map \in Seq(E) /\ e \in E
  BY <1>1
<1> HIDE DEF E
<1>4. after \in Seq(E) /\ GetAll(after, "CSeq") = <<value>>
  BY <1>3, ExtendOne
<1> HIDE DEF after
<1>5. IsMap(after)
  BY <1>4 DEF IsMap
<1> QED
  BY <1>2, <1>4, <1>5, Zenon DEF Carries

(* The request that is made or changed carries the typed header.           *)
RequestTypedInv ==
    /\ response = Absent /\ responseBuilder.headers = <<>>
    /\ IsMap(requestBuilder.headers)
    /\ request = Absent => Carries(requestBuilder.headers, typed)
    /\ request # Absent =>
          requestBuilder.headers = <<>> /\ IsMap(request.headers) /\ Carries(request.headers, typed)

(* Every operation on requests keeps it so.                                *)
LEMMA RequestTypedStep ==
    ASSUME RequestInv, RequestTypedInv, [RequestNext]_messageVars,
           \A r : RequestRecord(r) => r # Absent
    PROVE  RequestTypedInv'
<1>a. ASSUME NEW b, SetRequestPart(b), IsMap(b.headers), Carries(b.headers, typed')
      PROVE  RequestTypedInv'
  BY <1>a DEF SetRequestPart, RequestTypedInv, responseVars
<1>b. ASSUME NEW r, ChangeRequest(r), RequestRecord(r), IsMap(r.headers), Carries(r.headers, typed')
      PROVE  RequestTypedInv'
  BY <1>b DEF ChangeRequest, RequestTypedInv, responseVars
<1>c. RequestRecord(requestBuilder) /\ (request # Absent => RequestRecord(request))
  BY DEF RequestInv
<1>d. IsMap(requestBuilder.headers) /\ (request = Absent => Carries(requestBuilder.headers, typed))
  BY DEF RequestTypedInv
<1>e. request # Absent => IsMap(request.headers) /\ Carries(request.headers, typed)
  BY DEF RequestTypedInv
<1>1. ASSUME NEW m \in Methods, SetMethod(m) PROVE RequestTypedInv'
  <2> DEFINE b == [requestBuilder EXCEPT !.method = m]
  <2>1. SetRequestPart(b) /\ typed' = typed /\ request = Absent
    BY <1>1 DEF SetMethod, SetRequestPart
  <2>2. b.headers = requestBuilder.headers
    BY <1>c DEF RequestRecord
  <2> HIDE DEF b
  <2> QED
    BY <1>a, <1>d, <2>1, <2>2
<1>2. ASSUME NEW m \in Methods, MethodMut(m) PROVE RequestTypedInv'
  <2> DEFINE r == [request EXCEPT !.method = m]
  <2>1. ChangeRequest(r) /\ typed' = typed /\ request # Absent
    BY <1>2 DEF MethodMut, ChangeRequest
  <2>2. RequestRecord(r) /\ r.headers = request.headers
    BY <1>c, <2>1 DEF RequestRecord
  <2> HIDE DEF r
  <2> QED
    BY <1>b, <1>e, <2>1, <2>2
<1>3. ASSUME NEW u \in URIs, SetURI(u) PROVE RequestTypedInv'
  <2> DEFINE b == [requestBuilder EXCEPT !.uri = u]
  <2>1. SetRequestPart(b) /\ typed' = typed /\ request = Absent
    BY <1>3 DEF SetURI, SetRequestPart
  <2>2. b.headers = requestBuilder.headers
    BY <1>c DEF RequestRecord
  <2> HIDE DEF b
  <2> QED
    BY <1>a, <1>d, <2>1, <2>2
<1>4. ASSUME NEW body \in Bodies, SetRequestBody(body) PROVE RequestTypedInv'
  <2> DEFINE b == [requestBuilder EXCEPT !.body = body]
  <2>1. SetRequestPart(b) /\ typed' = typed /\ request = Absent
    BY <1>4 DEF SetRequestBody, SetRequestPart
  <2>2. b.headers = requestBuilder.headers
    BY <1>c DEF RequestRecord
  <2> HIDE DEF b
  <2> QED
    BY <1>a, <1>d, <2>1, <2>2
<1>5. ASSUME NEW body \in Bodies, MapRequest(body) PROVE RequestTypedInv'
  <2> DEFINE r == [request EXCEPT !.body = body]
  <2>1. ChangeRequest(r) /\ typed' = typed /\ request # Absent
    BY <1>5 DEF MapRequest, ChangeRequest
  <2>2. RequestRecord(r) /\ r.headers = request.headers
    BY <1>c, <2>1 DEF RequestRecord
  <2> HIDE DEF r
  <2> QED
    BY <1>b, <1>e, <2>1, <2>2
<1>6. ASSUME NEW v \in Versions, SetRequestVersion(v) PROVE RequestTypedInv'
  <2> DEFINE b == [requestBuilder EXCEPT !.version = v]
  <2>1. SetRequestPart(b) /\ typed' = typed /\ request = Absent
    BY <1>6 DEF SetRequestVersion, SetRequestPart
  <2>2. b.headers = requestBuilder.headers
    BY <1>c DEF RequestRecord
  <2> HIDE DEF b
  <2> QED
    BY <1>a, <1>d, <2>1, <2>2
<1>7. CASE NormalizeRequest
  <2> DEFINE r == [request EXCEPT !.uri = Normalized(request.uri)]
  <2>1. ChangeRequest(r) /\ typed' = typed /\ request # Absent
    BY <1>7 DEF NormalizeRequest, ChangeRequest
  <2>2. RequestRecord(r) /\ r.headers = request.headers
    BY <1>c, <2>1 DEF RequestRecord
  <2> HIDE DEF r
  <2> QED
    BY <1>b, <1>e, <2>1, <2>2
<1>8. ASSUME NEW value \in CSeqTexts, AddRequestHeader(value) PROVE RequestTypedInv'
  <2> DEFINE h == HeaderAppend(requestBuilder.headers, "CSeq", value)
             b == [requestBuilder EXCEPT !.headers = h]
  <2>1. SetRequestPart(b) /\ typed' = Absent
    BY <1>8 DEF AddRequestHeader, WithHeader
  <2>2. IsMap(h)
    BY <1>d, AppendedIsMap
  <2> HIDE DEF h
  <2>3. b.headers = h
    BY <1>c DEF RequestRecord
  <2> HIDE DEF b
  <2> QED
    BY <1>a, <2>1, <2>2, <2>3 DEF Carries
<1>9. ASSUME NEW cseq \in CSeqs, SetRequestTyped(cseq) PROVE RequestTypedInv'
  <2> DEFINE h == TypedInsert(requestBuilder.headers, "CSeq", cseq)
             b == [requestBuilder EXCEPT !.headers = h]
  <2>1. SetRequestPart(b) /\ typed' = cseq
    BY <1>9 DEF SetRequestTyped, WithTypedHeader
  <2>2. IsMap(h) /\ Carries(h, cseq)
    BY <1>d, InsertedIsMap
  <2> HIDE DEF h
  <2>3. b.headers = h
    BY <1>c DEF RequestRecord
  <2> HIDE DEF b
  <2> QED
    BY <1>a, <2>1, <2>2, <2>3
<1>10. ASSUME NEW cseq \in CSeqs, RequestHeadersMut(cseq) PROVE RequestTypedInv'
  <2> DEFINE h == TypedInsert(request.headers, "CSeq", cseq)
             r == [request EXCEPT !.headers = h]
  <2>1. ChangeRequest(r) /\ typed' = cseq /\ request # Absent
    BY <1>10 DEF RequestHeadersMut, WithTypedHeader, ChangeRequest
  <2>2. IsMap(h) /\ Carries(h, cseq)
    BY <1>e, <2>1, InsertedIsMap
  <2> HIDE DEF h
  <2>3. RequestRecord(r) /\ r.headers = h
    BY <1>c, <2>1 DEF RequestRecord
  <2> HIDE DEF r
  <2> QED
    BY <1>b, <2>1, <2>2, <2>3
<1>11. CASE BuildRequest
  <2>1. /\ request = Absent /\ requestBuilder' = NewRequestBuilder
        /\ response' = response /\ responseBuilder' = responseBuilder
    BY <1>11 DEF BuildRequest, responseVars
  <2>2. (requestBuilder').headers = <<>> /\ IsMap((requestBuilder').headers)
    BY <2>1, EmptyIsMap DEF NewRequestBuilder
  <2>3. CASE RequestBuild(requestBuilder).tag = "Ok"
    <3>1. request' = requestBuilder /\ typed' = typed
      BY <1>11, <2>3, RequestBuilt DEF BuildRequest
    <3>2. RequestRecord(request') /\ (request').headers = requestBuilder.headers
      BY <1>c, <3>1
    <3>3. request' # Absent
      BY <3>2
    <3> QED
      BY <1>d, <2>1, <2>2, <3>1, <3>2, <3>3 DEF RequestTypedInv
  <2>4. CASE RequestBuild(requestBuilder).tag # "Ok"
    <3>1. request' = Absent /\ typed' = Absent
      BY <1>11, <2>1, <2>4 DEF BuildRequest
    <3> QED
      BY <2>1, <2>2, <3>1 DEF RequestTypedInv, Carries
  <2> QED
    BY <2>3, <2>4
<1>12. CASE TakeRequestBuilder
  BY <1>12, <1>e DEF TakeRequestBuilder, RequestIntoBuilder, RequestTypedInv, responseVars
<1>13. CASE UNCHANGED messageVars
  BY <1>13 DEF messageVars, requestVars, responseVars, RequestTypedInv
<1> QED
  BY <1>1, <1>2, <1>3, <1>4, <1>5, <1>6, <1>7, <1>8, <1>9, <1>10, <1>11, <1>12, <1>13
  DEF RequestNext

(* The response that is made or changed carries the typed header.          *)
ResponseTypedInv ==
    /\ request = Absent /\ requestBuilder.headers = <<>>
    /\ IsMap(responseBuilder.headers)
    /\ response = Absent => Carries(responseBuilder.headers, typed)
    /\ response # Absent =>
          responseBuilder.headers = <<>> /\ IsMap(response.headers) /\ Carries(response.headers, typed)

(* Every operation on responses keeps it so.                               *)
LEMMA ResponseTypedStep ==
    ASSUME ResponseInv, ResponseTypedInv, [ResponseNext]_messageVars,
           \A r : ResponseRecord(r) => r # Absent
    PROVE  ResponseTypedInv'
<1>a. ASSUME NEW b, SetResponsePart(b), IsMap(b.headers), Carries(b.headers, typed')
      PROVE  ResponseTypedInv'
  BY <1>a DEF SetResponsePart, ResponseTypedInv, requestVars
<1>b. ASSUME NEW r, ChangeResponse(r), ResponseRecord(r), IsMap(r.headers), Carries(r.headers, typed')
      PROVE  ResponseTypedInv'
  BY <1>b DEF ChangeResponse, ResponseTypedInv, requestVars
<1>c. ResponseRecord(responseBuilder) /\ (response # Absent => ResponseRecord(response))
  BY DEF ResponseInv
<1>d. IsMap(responseBuilder.headers) /\ (response = Absent => Carries(responseBuilder.headers, typed))
  BY DEF ResponseTypedInv
<1>e. response # Absent => IsMap(response.headers) /\ Carries(response.headers, typed)
  BY DEF ResponseTypedInv
<1>1. ASSUME NEW code \in StatusCodes, SetStatusCode(code) PROVE ResponseTypedInv'
  <2> DEFINE b == [responseBuilder EXCEPT !.status = code]
  <2>1. SetResponsePart(b) /\ typed' = typed /\ response = Absent
    BY <1>1 DEF SetStatusCode, SetResponsePart
  <2>2. b.headers = responseBuilder.headers
    BY <1>c DEF ResponseRecord
  <2> HIDE DEF b
  <2> QED
    BY <1>a, <1>d, <2>1, <2>2
<1>2. ASSUME NEW code \in StatusCodes, StatusCodeMut(code) PROVE ResponseTypedInv'
  <2> DEFINE r == [response EXCEPT !.status = code]
  <2>1. ChangeResponse(r) /\ typed' = typed /\ response # Absent
    BY <1>2 DEF StatusCodeMut, ChangeResponse
  <2>2. ResponseRecord(r) /\ r.headers = response.headers
    BY <1>c, <2>1 DEF ResponseRecord
  <2> HIDE DEF r
  <2> QED
    BY <1>b, <1>e, <2>1, <2>2
<1>3. ASSUME NEW p \in Phrases \cup {Absent}, SetReasonPhrase(p) PROVE ResponseTypedInv'
  <2> DEFINE b == [responseBuilder EXCEPT !.phrase = p]
  <2>1. SetResponsePart(b) /\ typed' = typed /\ response = Absent
    BY <1>3 DEF SetReasonPhrase, SetResponsePart
  <2>2. b.headers = responseBuilder.headers
    BY <1>c DEF ResponseRecord
  <2> HIDE DEF b
  <2> QED
    BY <1>a, <1>d, <2>1, <2>2
<1>4. ASSUME NEW p \in Phrases, ReasonPhraseMut(p) PROVE ResponseTypedInv'
  <2> DEFINE r == [response EXCEPT !.phrase = p]
  <2>1. ChangeResponse(r) /\ typed' = typed /\ response # Absent
    BY <1>4 DEF ReasonPhraseMut, ChangeResponse
  <2>2. ResponseRecord(r) /\ r.headers = response.headers
    BY <1>c, <2>1 DEF ResponseRecord
  <2> HIDE DEF r
  <2> QED
    BY <1>b, <1>e, <2>1, <2>2
<1>5. ASSUME NEW body \in Bodies, SetResponseBody(body) PROVE ResponseTypedInv'
  <2> DEFINE b == [responseBuilder EXCEPT !.body = body]
  <2>1. SetResponsePart(b) /\ typed' = typed /\ response = Absent
    BY <1>5 DEF SetResponseBody, SetResponsePart
  <2>2. b.headers = responseBuilder.headers
    BY <1>c DEF ResponseRecord
  <2> HIDE DEF b
  <2> QED
    BY <1>a, <1>d, <2>1, <2>2
<1>6. ASSUME NEW body \in Bodies, MapResponse(body) PROVE ResponseTypedInv'
  <2> DEFINE r == [response EXCEPT !.body = body]
  <2>1. ChangeResponse(r) /\ typed' = typed /\ response # Absent
    BY <1>6 DEF MapResponse, ChangeResponse
  <2>2. ResponseRecord(r) /\ r.headers = response.headers
    BY <1>c, <2>1 DEF ResponseRecord
  <2> HIDE DEF r
  <2> QED
    BY <1>b, <1>e, <2>1, <2>2
<1>7. ASSUME NEW v \in Versions, SetResponseVersion(v) PROVE ResponseTypedInv'
  <2> DEFINE b == [responseBuilder EXCEPT !.version = v]
  <2>1. SetResponsePart(b) /\ typed' = typed /\ response = Absent
    BY <1>7 DEF SetResponseVersion, SetResponsePart
  <2>2. b.headers = responseBuilder.headers
    BY <1>c DEF ResponseRecord
  <2> HIDE DEF b
  <2> QED
    BY <1>a, <1>d, <2>1, <2>2
<1>8. ASSUME NEW value \in CSeqTexts, AddResponseHeader(value) PROVE ResponseTypedInv'
  <2> DEFINE h == HeaderAppend(responseBuilder.headers, "CSeq", value)
             b == [responseBuilder EXCEPT !.headers = h]
  <2>1. SetResponsePart(b) /\ typed' = Absent
    BY <1>8 DEF AddResponseHeader, WithHeader
  <2>2. IsMap(h)
    BY <1>d, AppendedIsMap
  <2> HIDE DEF h
  <2>3. b.headers = h
    BY <1>c DEF ResponseRecord
  <2> HIDE DEF b
  <2> QED
    BY <1>a, <2>1, <2>2, <2>3 DEF Carries
<1>9. ASSUME NEW cseq \in CSeqs, SetResponseTyped(cseq) PROVE ResponseTypedInv'
  <2> DEFINE h == TypedInsert(responseBuilder.headers, "CSeq", cseq)
             b == [responseBuilder EXCEPT !.headers = h]
  <2>1. SetResponsePart(b) /\ typed' = cseq
    BY <1>9 DEF SetResponseTyped, WithTypedHeader
  <2>2. IsMap(h) /\ Carries(h, cseq)
    BY <1>d, InsertedIsMap
  <2> HIDE DEF h
  <2>3. b.headers = h
    BY <1>c DEF ResponseRecord
  <2> HIDE DEF b
  <2> QED
    BY <1>a, <2>1, <2>2, <2>3
<1>10. ASSUME NEW cseq \in CSeqs, ResponseHeadersMut(cseq) PROVE ResponseTypedInv'
  <2> DEFINE h == TypedInsert(response.headers, "CSeq", cseq)
             r == [response EXCEPT !.headers = h]
  <2>1. ChangeResponse(r) /\ typed' = cseq /\ response # Absent
    BY <1>10 DEF ResponseHeadersMut, WithTypedHeader, ChangeResponse
  <2>2. IsMap(h) /\ Carries(h, cseq)
    BY <1>e, <2>1, InsertedIsMap
  <2> HIDE DEF h
  <2>3. ResponseRecord(r) /\ r.headers = h
    BY <1>c, <2>1 DEF ResponseRecord
  <2> HIDE DEF r
  <2> QED
    BY <1>b, <2>1, <2>2, <2>3
<1>11. CASE BuildResponse
  <2>1. /\ response = Absent /\ responseBuilder' = NewResponseBuilder
        /\ request' = request /\ requestBuilder' = requestBuilder
    BY <1>11 DEF BuildResponse, requestVars
  <2>2. (responseBuilder').headers = <<>> /\ IsMap((responseBuilder').headers)
    BY <2>1, EmptyIsMap DEF NewResponseBuilder
  <2>3. CASE ResponseBuild(responseBuilder).tag = "Ok"
    <3> DEFINE phrase == PhraseOf(responseBuilder)
               r == [responseBuilder EXCEPT !.phrase = phrase]
    <3>1. response' = r /\ typed' = typed
      BY <1>11, <2>3, ResponseBuilt DEF BuildResponse
    <3> HIDE DEF phrase
    <3>2. ResponseRecord(response') /\ (response').headers = responseBuilder.headers
      BY <1>c, <3>1 DEF ResponseRecord
    <3> HIDE DEF r
    <3>3. response' # Absent
      BY <3>2
    <3> QED
      BY <1>d, <2>1, <2>2, <3>1, <3>2, <3>3 DEF ResponseTypedInv
  <2>4. CASE ResponseBuild(responseBuilder).tag # "Ok"
    <3>1. response' = Absent /\ typed' = Absent
      BY <1>11, <2>1, <2>4 DEF BuildResponse
    <3> QED
      BY <2>1, <2>2, <3>1 DEF ResponseTypedInv, Carries
  <2> QED
    BY <2>3, <2>4
<1>12. CASE TakeResponseBuilder
  BY <1>12, <1>e DEF TakeResponseBuilder, ResponseIntoBuilder, ResponseTypedInv, requestVars
<1>13. CASE UNCHANGED messageVars
  BY <1>13 DEF messageVars, requestVars, responseVars, ResponseTypedInv
<1> QED
  BY <1>1, <1>2, <1>3, <1>4, <1>5, <1>6, <1>7, <1>8, <1>9, <1>10, <1>11, <1>12, <1>13
  DEF ResponseNext

(* The request that is at hand has the typed header it was given.          *)
RequestHasTyped ==
    typed # Absent =>
        GetAll((IF request = Absent THEN requestBuilder ELSE request).headers, "CSeq") = CSeqEncode(typed)

(* RequestBuilder::with_typed_header, Request::typed_header and the rest:  *)
(* after whatever operations, the headers of the builder, or of the        *)
(* request once it is built, have the CSeq that was given last as a typed  *)
(* header, and no other value of that name.  A request is not the value    *)
(* that stands for its absence.                                            *)
THEOREM RequestsKeepTypedHeader ==
    ASSUME \A r : RequestRecord(r) => r # Absent
    PROVE  MessagesInit /\ [][RequestNext]_messageVars => [](TypedHeaderIsRead /\ RequestHasTyped)
<1>1. MessagesInit => RequestInv /\ RequestTypedInv
  <2> SUFFICES ASSUME MessagesInit PROVE RequestInv /\ RequestTypedInv
    OBVIOUS
  <2>1. RequestInv
    BY DEF MessagesInit, RequestInv, NewRequestBuilder, RequestRecord
  <2>2. /\ response = Absent /\ request = Absent /\ typed = Absent
        /\ responseBuilder.headers = <<>> /\ requestBuilder.headers = <<>>
    BY DEF MessagesInit, NewRequestBuilder, NewResponseBuilder
  <2>3. IsMap(requestBuilder.headers)
    BY <2>2, EmptyIsMap
  <2> QED
    BY <2>1, <2>2, <2>3 DEF RequestTypedInv, Carries
<1>2. RequestInv /\ RequestTypedInv /\ [RequestNext]_messageVars => RequestInv' /\ RequestTypedInv'
  <2> SUFFICES ASSUME RequestInv, RequestTypedInv, [RequestNext]_messageVars PROVE RequestInv' /\ RequestTypedInv'
    OBVIOUS
  <2>1. [RequestNext \/ ResponseNext]_messageVars
    OBVIOUS
  <2>2. RequestInv'
    BY <2>1, RequestStepInv
  <2>3. RequestTypedInv'
    BY RequestTypedStep
  <2> QED
    BY <2>2, <2>3
<1>3. RequestTypedInv => TypedHeaderIsRead /\ RequestHasTyped
  <2> SUFFICES ASSUME RequestTypedInv PROVE TypedHeaderIsRead /\ RequestHasTyped
    OBVIOUS
  <2>1. response = Absent /\ GetAll(responseBuilder.headers, "CSeq") = <<>>
    BY GetAllEmpty DEF RequestTypedInv
  <2>2. request = Absent => Carries(requestBuilder.headers, typed)
    BY DEF RequestTypedInv
  <2>3. request # Absent => /\ GetAll(requestBuilder.headers, "CSeq") = <<>>
                        /\ Carries(request.headers, typed)
    BY GetAllEmpty DEF RequestTypedInv
  <2>4. RequestHasTyped
    BY <2>2, <2>3 DEF RequestHasTyped, Carries
  <2>5. TypedHeaderIsRead
    BY <2>1, <2>2, <2>3 DEF TypedHeaderIsRead, Carries
  <2> QED
    BY <2>4, <2>5
<1> QED
  BY <1>1, <1>2, <1>3, PTL

(* The response that is at hand has the typed header it was given.         *)
ResponseHasTyped ==
    typed # Absent =>
        GetAll((IF response = Absent THEN responseBuilder ELSE response).headers, "CSeq") = CSeqEncode(typed)

(* The same for responses and their builder.                               *)
THEOREM ResponsesKeepTypedHeader ==
    ASSUME \A r : ResponseRecord(r) => r # Absent
    PROVE  MessagesInit /\ [][ResponseNext]_messageVars => [](TypedHeaderIsRead /\ ResponseHasTyped)
<1>1. MessagesInit => ResponseInv /\ ResponseTypedInv
  <2> SUFFICES ASSUME MessagesInit PROVE ResponseInv /\ ResponseTypedInv
    OBVIOUS
  <2>1. ResponseInv
    BY DEF MessagesInit, ResponseInv, NewResponseBuilder, ResponseRecord
  <2>2. /\ request = Absent /\ response = Absent /\ typed = Absent
        /\ requestBuilder.headers = <<>> /\ responseBuilder.headers = <<>>
    BY DEF MessagesInit, NewRequestBuilder, NewResponseBuilder
  <2>3. IsMap(responseBuilder.headers)
    BY <2>2, EmptyIsMap
  <2> QED
    BY <2>1, <2>2, <2>3 DEF ResponseTypedInv, Carries
<1>2. ResponseInv /\ ResponseTypedInv /\ [ResponseNext]_messageVars => ResponseInv' /\ ResponseTypedInv'
  <2> SUFFICES ASSUME ResponseInv, ResponseTypedInv, [ResponseNext]_messageVars PROVE ResponseInv' /\ ResponseTypedInv'
    OBVIOUS
  <2>1. [RequestNext \/ ResponseNext]_messageVars
    OBVIOUS
  <2>2. ResponseInv'
    BY <2>1, ResponseStepInv
  <2>3. ResponseTypedInv'
    BY ResponseTypedStep
  <2> QED
    BY <2>2, <2>3
<1>3. ResponseTypedInv => TypedHeaderIsRead /\ ResponseHasTyped
  <2> SUFFICES ASSUME ResponseTypedInv PROVE TypedHeaderIsRead /\ ResponseHasTyped
    OBVIOUS
  <2>1. request = Absent /\ GetAll(requestBuilder.headers, "CSeq") = <<>>
    BY GetAllEmpty DEF ResponseTypedInv
  <2>2. response = Absent => Carries(responseBuilder.headers, typed)
    BY DEF ResponseTypedInv
  <2>3. response # Absent => /\ GetAll(responseBuilder.headers, "CSeq") = <<>>
                        /\ Carries(response.headers, typed)
    BY GetAllEmpty DEF ResponseTypedInv
  <2>4. ResponseHasTyped
    BY <2>2, <2>3 DEF ResponseHasTyped, Carries
  <2>5. TypedHeaderIsRead
    BY <2>1, <2>2, <2>3 DEF TypedHeaderIsRead, Carries
  <2> QED
    BY <2>4, <2>5
<1> QED
  BY <1>1, <1>2, <1>3, PTL

-----------------------------------------------------------------------------
(* The sender (Sender).                                                    *)

(* What poll_complete leaves: nothing is unwritten, and nothing beyond     *)
(* what the transport has room for was written.                            *)
LEMMA FlushBounds ==
    ASSUME SenderTypeOK, SinkInv
    PROVE  /\ FlushedNow \in flushed .. Len(accepted)
           /\ FlushedNow <= window
           /\ ~broken /\ ~AllFlushed => FlushedNow = window
           /\ ~FlushFails => AllFlushed \/ ~broken
  BY DEF SenderTypeOK, SinkInv, FlushedNow, AllFlushed, FlushFails

(* Giving a message to the sink keeps the invariant, whatever it answers:  *)
(* m is the message that was taken last and is in no other place.          *)
LEMMA TrySendKeepsInv ==
    ASSUME SenderInv, NEW m \in 1 .. submitted, m = Len(accepted) + 1,
           sending \in {"retry", "write"},
           taken' = m, UNCHANGED <<channelVars, transportVars, notified>>,
           TrySendMessage(m)
    PROVE  SenderInv'
<1>1. /\ FlushedNow \in flushed .. Len(accepted) /\ FlushedNow <= window
      /\ ~broken /\ ~AllFlushed => FlushedNow = window
  BY FlushBounds DEF SenderInv
<1>2. UNCHANGED <<submitted, handles, window, broken, notified>>
  BY DEF channelVars, transportVars
<1> DEFINE full == Len(accepted) - flushed >= SinkCapacity
           room == Len(accepted) - FlushedNow < SinkCapacity
<1>3. flushed' \in flushed .. Len(accepted) /\ flushed' <= window
  BY <1>1 DEF TrySendMessage, SenderInv, SenderTypeOK, SinkInv
<1>4. m \in 1 .. MaxMessages
  BY SenderAssumption DEF SenderInv, SenderTypeOK
<1>5. CASE /\ full /\ broken
           /\ buffered' = 0 /\ sending' = "Err"
           /\ UNCHANGED <<accepted, wakers>>
  <2>1. SenderTypeOK'
    BY <1>2, <1>3, <1>4, <1>5 DEF SenderInv, SenderTypeOK
  <2>2. SentInOrder' /\ SinkInv' /\ WakerInv'
    BY <1>2, <1>3, <1>5 DEF SenderInv, SenderTypeOK, SentInOrder, SinkInv, WakerInv
  <2> QED BY <2>1, <2>2 DEF SenderInv
<1>6. CASE /\ room
           /\ accepted' = Append(accepted, m)
           /\ buffered' = 0 /\ sending' = "write"
           /\ UNCHANGED wakers
  <2>1. /\ accepted' \in Seq(1 .. MaxMessages) /\ Len(accepted') = m
        /\ \A i \in DOMAIN accepted' : accepted'[i] = i
    BY <1>4, <1>6 DEF SenderInv, SenderTypeOK, SentInOrder
  <2>2. SenderTypeOK'
    BY <1>2, <1>3, <1>4, <1>6, <2>1 DEF SenderInv, SenderTypeOK
  <2>3. SentInOrder' /\ SinkInv' /\ WakerInv'
    BY <1>2, <1>3, <1>6, <2>1 DEF SenderInv, SenderTypeOK, SentInOrder, SinkInv, WakerInv
  <2> QED BY <2>2, <2>3 DEF SenderInv
<1>7. CASE /\ ~broken /\ ~room
           /\ buffered' = m /\ sending' = "asleep"
           /\ wakers' = wakers \cup {"sink"}
           /\ UNCHANGED accepted
  <2>1. flushed' = FlushedNow /\ flushed' = window
    BY <1>1, <1>7, SenderAssumption
    DEF TrySendMessage, SenderInv, SenderTypeOK, SinkInv, AllFlushed
  <2>2. SenderTypeOK'
    BY <1>2, <1>3, <1>4, <1>7 DEF SenderInv, SenderTypeOK
  <2>3. Blocked'
    BY <1>2, <1>7, <2>1 DEF Blocked
  <2>4. SentInOrder' /\ SinkInv' /\ WakerInv'
    BY <1>2, <1>3, <1>7, <2>3
    DEF SenderInv, SenderTypeOK, SentInOrder, SinkInv, WakerInv
  <2> QED BY <2>2, <2>4 DEF SenderInv
<1> QED BY <1>5, <1>6, <1>7 DEF TrySendMessage

-----------------------------------------------------------------------------
LEMMA SenderInitInv == SenderInit => SenderInv
<1> SUFFICES ASSUME SenderInit PROVE SenderInv
  OBVIOUS
<1>1. accepted \in Seq(1 .. MaxMessages) /\ Len(accepted) = 0
  BY DEF SenderInit
<1>2. SenderTypeOK
  <2>1. /\ submitted \in 0 .. MaxMessages /\ taken \in 0 .. submitted
        /\ buffered \in 0 .. taken /\ window \in 0 .. MaxMessages
        /\ flushed \in 0 .. Len(accepted) /\ Len(accepted) <= taken
    BY <1>1, SenderAssumption DEF SenderInit
  <2>2. /\ handles \in BOOLEAN /\ broken \in BOOLEAN /\ notified \in BOOLEAN
        /\ sending = "asleep" /\ wakers \subseteq {"channel", "sink"}
    BY DEF SenderInit
  <2> QED BY <1>1, <2>1, <2>2 DEF SenderTypeOK
<1>3. SentInOrder
  BY DEF SenderInit, SentInOrder
<1>4. SinkInv /\ WakerInv
  BY DEF SenderInit, SinkInv, WakerInv
<1> QED BY <1>2, <1>3, <1>4 DEF SenderInv

LEMMA SenderNextInv == SenderInv /\ [SenderNext]_senderVars => SenderInv'
<1> SUFFICES ASSUME SenderInv, [SenderNext]_senderVars PROVE SenderInv'
  OBVIOUS
<1> USE DEF channelVars, transportVars
<1>f. /\ FlushedNow \in flushed .. Len(accepted) /\ FlushedNow <= window
      /\ ~broken /\ ~AllFlushed => FlushedNow = window
      /\ ~FlushFails => AllFlushed \/ ~broken
  BY FlushBounds DEF SenderInv
<1>1. CASE StartSending
  BY <1>1 DEF StartSending, SenderInv, SenderTypeOK, SentInOrder, SinkInv, WakerInv
<1>2. CASE RetryBuffered
  <2>1. CASE buffered = 0
    BY <1>2, <2>1
    DEF RetryBuffered, SenderInv, SenderTypeOK, SentInOrder, SinkInv, WakerInv
  <2>2. CASE buffered # 0
    <3>1. /\ buffered \in 1 .. submitted /\ buffered = Len(accepted) + 1
          /\ sending = "retry" /\ taken' = buffered /\ TrySendMessage(buffered)
      BY <1>2, <2>2 DEF RetryBuffered, SenderInv, SenderTypeOK, SentInOrder
    <3> QED BY <1>2, <3>1, TrySendKeepsInv DEF RetryBuffered
  <2> QED BY <2>1, <2>2
<1>3. CASE WriteMessage
  <2>1. /\ taken + 1 \in 1 .. submitted /\ taken + 1 = Len(accepted) + 1
        /\ sending = "write" /\ taken' = taken + 1 /\ TrySendMessage(taken + 1)
    BY <1>3 DEF WriteMessage, SenderInv, SenderTypeOK, SentInOrder
  <2> QED BY <1>3, <2>1, TrySendKeepsInv DEF WriteMessage
<1>4. CASE WriteNotReady
  <2>1. SenderTypeOK'
    BY <1>4, <1>f DEF WriteNotReady, SenderInv, SenderTypeOK
  <2>2. SentInOrder' /\ SinkInv'
    BY <1>4, <1>f DEF WriteNotReady, SenderInv, SenderTypeOK, SentInOrder, SinkInv
  <2>3. WakerInv'
    <3>1. CASE AllFlushed
      BY <1>4, <1>f, <3>1
      DEF WriteNotReady, SenderInv, SenderTypeOK, SentInOrder, WakerInv, AllFlushed
    <3>2. CASE ~AllFlushed
      BY <1>4, <1>f, <3>2 DEF WriteNotReady, SenderInv, WakerInv, Blocked
    <3> QED BY <3>1, <3>2
  <2> QED BY <2>1, <2>2, <2>3 DEF SenderInv
<1>5. CASE WriteEnds
  BY <1>5 DEF WriteEnds, SenderInv, SenderTypeOK, SentInOrder, SinkInv, WakerInv
<1>6. CASE CloseSink
  <2>1. SenderTypeOK'
    <3>1. sending' \in {"Err", "Ok", "asleep"} /\ wakers' \subseteq {"channel", "sink"}
      BY <1>6 DEF CloseSink, SenderInv, SenderTypeOK
    <3>2. flushed' \in 0 .. Len(accepted)
      BY <1>6, <1>f DEF CloseSink, SenderInv, SenderTypeOK
    <3> QED BY <1>6, <3>1, <3>2 DEF CloseSink, SenderInv, SenderTypeOK
  <2>2. SentInOrder' /\ SinkInv'
    BY <1>6, <1>f
    DEF CloseSink, SenderInv, SenderTypeOK, SentInOrder, SinkInv, AllFlushed
  <2>3. WakerInv'
    BY <1>6, <1>f DEF CloseSink, SenderInv, WakerInv, Blocked
  <2> QED BY <2>1, <2>2, <2>3 DEF SenderInv
<1>7. CASE SubmitMessage
  <2>1. SenderTypeOK'
    BY <1>7, SenderAssumption DEF SubmitMessage, NotifySender, SenderInv, SenderTypeOK
  <2>2. SentInOrder' /\ SinkInv'
    BY <1>7 DEF SubmitMessage, SenderInv, SenderTypeOK, SentInOrder, SinkInv
  <2>3. WakerInv'
    BY <1>7 DEF SubmitMessage, NotifySender, SenderInv, SenderTypeOK, WakerInv, Blocked
  <2> QED BY <2>1, <2>2, <2>3 DEF SenderInv
<1>8. CASE DropHandles
  <2>1. SenderTypeOK'
    BY <1>8 DEF DropHandles, NotifySender, SenderInv, SenderTypeOK
  <2>2. SentInOrder' /\ SinkInv'
    BY <1>8 DEF DropHandles, SenderInv, SenderTypeOK, SentInOrder, SinkInv
  <2>3. WakerInv'
    BY <1>8 DEF DropHandles, NotifySender, SenderInv, SenderTypeOK, WakerInv, Blocked
  <2> QED BY <2>1, <2>2, <2>3 DEF SenderInv
<1>9. CASE TransportTakes
  <2>1. SenderTypeOK'
    BY <1>9, SenderAssumption DEF TransportTakes, NotifySender, SenderInv, SenderTypeOK
  <2>2. SentInOrder' /\ SinkInv'
    BY <1>9 DEF TransportTakes, SenderInv, SenderTypeOK, SentInOrder, SinkInv
  <2>3. WakerInv'
    BY <1>9 DEF TransportTakes, NotifySender, SenderInv, SenderTypeOK, WakerInv, Blocked
  <2> QED BY <2>1, <2>2, <2>3 DEF SenderInv
<1>10. CASE TransportFails
  <2>1. SenderTypeOK'
    BY <1>10 DEF TransportFails, NotifySender, SenderInv, SenderTypeOK
  <2>2. SentInOrder' /\ SinkInv'
    BY <1>10 DEF TransportFails, SenderInv, SenderTypeOK, SentInOrder, SinkInv
  <2>3. WakerInv'
    BY <1>10 DEF TransportFails, NotifySender, SenderInv, SenderTypeOK, WakerInv, Blocked
  <2> QED BY <2>1, <2>2, <2>3 DEF SenderInv
<1>11. CASE UNCHANGED senderVars
  BY <1>11
  DEF senderVars, SenderInv, SenderTypeOK, SentInOrder, SinkInv, WakerInv, Blocked
<1> QED
  BY <1>1, <1>2, <1>3, <1>4, <1>5, <1>6, <1>7, <1>8, <1>9, <1>10, <1>11
  DEF SenderNext, SenderPoll

(* The inductive invariant holds in every reachable state of the sender.   *)
THEOREM SenderInvariant == SenderSpec => []SenderInv
  BY SenderInitInv, SenderNextInv, PTL DEF SenderSpec

(* The sink is given every message once and in order, however often it     *)
(* refuses one (sender.rs, poll and try_send_message).                     *)
THEOREM SendsInOrder == SenderSpec => []SentInOrder
<1>1. SenderInv => SentInOrder
  BY DEF SenderInv
<1> QED BY <1>1, SenderInvariant, PTL

(* A sender that sleeps on work is notified or waits for a transport that  *)
(* takes nothing more (sender.rs, poll_write).                             *)
THEOREM NeverSleepsThroughMessages == SenderSpec => []SleepsOnlyBlocked
<1>1. SenderInv => SleepsOnlyBlocked
  BY DEF SenderInv, SenderTypeOK, SentInOrder, WakerInv, Blocked, SleepsOnlyBlocked
<1> QED BY <1>1, SenderInvariant, PTL

(* A sender that reports its end has written out every message that was    *)
(* ever put into its channel (sender.rs, poll).                            *)
THEOREM EndsFlushed == SenderSpec => []FinishedMeansFlushed
<1>1. SenderInv => FinishedMeansFlushed
  BY DEF SenderInv, SenderTypeOK, SentInOrder, SinkInv, FinishedMeansFlushed
<1> QED BY <1>1, SenderInvariant, PTL
==============================================================================
