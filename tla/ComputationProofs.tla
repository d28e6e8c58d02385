-------------------------- MODULE ComputationProofs -------------------------
(***************************************************************************)
(* Proofs about the two components that only compute: Requests, for any    *)
(* names of parameters and any identifiers; and, in the second half,       *)
(* GifFrames.                                                              *)
(*                                                                         *)
(* For requests, the inductive invariant ties the request to the route it  *)
(* was built for, and the route to the call; the properties then follow    *)
(* from lemmas about the encoders.                                         *)
(***************************************************************************)
EXTENDS Requests, GifFrames, FiniteSetTheorems, SequenceTheorems, TLAPS

Called == [case : Cases, id : Ids, parameters : Parameters \ {None}]

BuiltFromRoute ==
    outcome = "built" => route \in Routes /\ request = BuildRequest(route)

RouteOfCall ==
    called # None =>
        /\ called \in Called
        /\ route = Endpoint(called.case, called.id, called.parameters)
        /\ outcome = IF UnwrapFails(called.case, called.id) THEN "trap" ELSE "built"

IInv == BuiltFromRoute /\ RouteOfCall

-----------------------------------------------------------------------------
(***************************************************************************)
(* The encoders, field by field.                                           *)
(***************************************************************************)
Request(path, query, body, type) ==
    [path |-> path, query |-> query, body |-> body, type |-> type]

LEMMA LabelledFields ==
    ASSUME NEW w, NEW q, NEW c, NEW d, NEW t
    PROVE  Labelled(Request(w, q, c, d), t) = Request(w, q, c, IF d = None THEN t ELSE d)
BY DEF Labelled, Request

LEMMA WithPathFields ==
    ASSUME NEW w, NEW q, NEW c, NEW d, NEW path
    PROVE  WithPath(Request(w, q, c, d), path) = Request(IF path = None THEN w ELSE path, q, c, d)
BY DEF WithPath, Request

LEMMA QueryFields ==
    ASSUME NEW w, NEW q, NEW c, NEW d, NEW x
    PROVE  [Request(w, q, c, d) EXCEPT !.query = x] = Request(w, x, c, d)
BY DEF Request

LEMMA BodyFields ==
    ASSUME NEW w, NEW q, NEW c, NEW d, NEW x
    PROVE  [Request(w, q, c, d) EXCEPT !.body = x] = Request(w, q, x, d)
BY DEF Request

LEMMA TypeFields ==
    ASSUME NEW w, NEW q, NEW c, NEW d, NEW x
    PROVE  [Request(w, q, c, d) EXCEPT !.type = x] = Request(w, q, c, x)
BY DEF Request

\* URLParameterEncoder sets path and query, and labels what has no label.
LEMMA URLFields ==
    ASSUME NEW w, NEW q, NEW c, NEW d, NEW p, NEW path
    PROVE  URLParameterEncode(Request(w, q, c, d), p, path) =
              Request(IF path = None THEN w ELSE path, IF p = None THEN q ELSE QueryOf(p),
                      c, IF d = None THEN "form" ELSE d)
<1> DEFINE a1 == IF path = None THEN w ELSE path
<1>1. WithPath(Request(w, q, c, d), path) = Request(a1, q, c, d)
    BY WithPathFields
<1> HIDE DEF a1
<1>2. CASE p = None
    BY <1>1, <1>2, LabelledFields DEF URLParameterEncode, a1
<1>3. CASE p # None
    <2>1. [Request(a1, q, c, d) EXCEPT !.query = QueryOf(p)] = Request(a1, QueryOf(p), c, d)
        BY QueryFields
    <2>2. URLParameterEncode(Request(w, q, c, d), p, path) = Labelled(Request(a1, QueryOf(p), c, d), "form")
        BY <1>1, <1>3, <2>1, Zenon DEF URLParameterEncode
    <2> QED BY <2>2, <1>3, LabelledFields DEF a1
<1> QED BY <1>2, <1>3

\* JSONParameterEncoder sets the body, and labels what has no label.
LEMMA JSONFields ==
    ASSUME NEW w, NEW q, NEW c, NEW d, NEW y
    PROVE  JSONParameterEncode(Request(w, q, c, d), y) =
              Request(w, q, IF y = None THEN c ELSE "json",
                      IF y # None /\ d = None THEN "json" ELSE d)
<1>1. CASE y = None
    BY <1>1 DEF JSONParameterEncode
<1>2. CASE y # None
    <2>1. JSONParameterEncode(Request(w, q, c, d), y) = Labelled(Request(w, q, "json", d), "json")
        <3>1. [Request(w, q, c, d) EXCEPT !.body = "json"] = Request(w, q, "json", d)
            BY BodyFields
        <3> QED BY <1>2, <3>1, Zenon DEF JSONParameterEncode
    <2> QED BY <2>1, <1>2, LabelledFields
<1> QED BY <1>1, <1>2

LEMMA MultipartFields ==
    ASSUME NEW w, NEW q, NEW c, NEW d, NEW path
    PROVE  MultipartEncode(Request(w, q, c, d), path) =
              Request(IF path = None THEN w ELSE path, q, "multipart",
                      IF d = None THEN "boundary" ELSE d)
<1> DEFINE a1 == IF path = None THEN w ELSE path
<1>1. WithPath(Request(w, q, c, d), path) = Request(a1, q, c, d)
    BY WithPathFields
<1> HIDE DEF a1
<1>2. MultipartEncode(Request(w, q, c, d), path) = Labelled(Request(a1, q, "multipart", d), "boundary")
    <2>1. [Request(a1, q, c, d) EXCEPT !.body = "multipart"] = Request(a1, q, "multipart", d)
        BY BodyFields
    <2> QED BY <1>1, <2>1, Zenon DEF MultipartEncode
<1> QED BY <1>2, LabelledFields DEF a1

LEMMA BaseFields == BaseRequest = Request(None, None, None, None)
BY DEF BaseRequest, Request

\* What a request is before the encoders see it.
LEMMA HeaderFields ==
    ASSUME NEW headers
    PROVE  AddAdditionalHeaders(BaseRequest, headers) =
              Request(None, None, None, IF headers = "own" THEN "own" ELSE None)
<1>1. CASE headers = "own"
    <2>1. AddAdditionalHeaders(BaseRequest, headers) = [BaseRequest EXCEPT !.type = "own"]
        BY <1>1, Zenon DEF AddAdditionalHeaders
    <2> QED BY <2>1, <1>1 DEF BaseRequest, Request
<1>2. CASE headers # "own"
    BY <1>2, BaseFields DEF AddAdditionalHeaders
<1> QED BY <1>1, <1>2

\* What the encoders make of a request that has nothing but a label d, if that: its
\* query is that of the parameters, its body has the label of its kind, or it has d,
\* or the label of a form.
LEMMA EncodeFields ==
    ASSUME NEW d, NEW encoding \in Encodings, NEW y, NEW p, NEW path
    PROVE  LET e == Encode(Request(None, None, None, d), encoding, y, p, path)
           IN  \E a1, q1, c1, d1 :
                 /\ e = Request(a1, q1, c1, d1)
                 /\ q1 = None \/ (p # None /\ q1 = QueryOf(p))
                 /\ \/ c1 = None
                    \/ c1 = "json" /\ d1 = IF d # None THEN d
                                         ELSE IF encoding = "urlAndJsonEncoding" THEN "form"
                                         ELSE "json"
                    \/ c1 = "multipart" /\ d1 = IF d # None THEN d ELSE "boundary"
<1> DEFINE base == Request(None, None, None, d)
           q0   == IF p = None THEN None ELSE QueryOf(p)
           form == IF d = None THEN "form" ELSE d
<1>1. URLParameterEncode(base, p, path) = Request(path, q0, None, form)
    <2>1. path = IF path = None THEN None ELSE path
        OBVIOUS
    <2> QED BY <2>1, URLFields
<1>2. CASE encoding = "urlEncoding"
    <2>1. Encode(base, encoding, y, p, path) = Request(path, q0, None, form)
        BY <1>1, <1>2 DEF Encode
    <2> QED BY <2>1
<1>3. CASE encoding = "jsonEncoding"
    <2>1. Encode(base, encoding, y, p, path) =
             Request(None, None, IF y = None THEN None ELSE "json",
                     IF y # None /\ d = None THEN "json" ELSE d)
        BY <1>3, JSONFields DEF Encode
    <2> QED BY <2>1, <1>3
<1>4. CASE encoding = "urlAndJsonEncoding"
    <2>1. Encode(base, encoding, y, p, path) = JSONParameterEncode(Request(path, q0, None, form), y)
        BY <1>1, <1>4 DEF Encode
    <2>2. Encode(base, encoding, y, p, path) =
             Request(path, q0, IF y = None THEN None ELSE "json",
                     IF y # None /\ form = None THEN "json" ELSE form)
        BY <2>1, JSONFields
    <2>3. form # None
        BY NoneAssumption
    <2>4. Encode(base, encoding, y, p, path) = Request(path, q0, IF y = None THEN None ELSE "json", form)
        BY <2>2, <2>3
    <2> QED BY <2>4, <1>4
<1>5. CASE encoding = "jsonEncodingWithMultipartdata"
    <2>1. Encode(base, encoding, y, p, path) =
             Request(path, None, "multipart", IF d = None THEN "boundary" ELSE d)
        <3>1. path = IF path = None THEN None ELSE path
            OBVIOUS
        <3> QED BY <1>5, <3>1, MultipartFields DEF Encode
    <2> QED BY <2>1
<1> QED BY <1>2, <1>3, <1>4, <1>5 DEF Encodings

-----------------------------------------------------------------------------
\* Every endpoint of the application is a route.
LEMMA EndpointRoute ==
    ASSUME NEW case \in Cases, NEW id \in Ids, NEW p \in Parameters
    PROVE  Endpoint(case, id, p) \in Routes
<1>1. PathOf(case, id) \in Paths \cup {None}
    <2>1. CASE case \in Downloads
        BY <2>1 DEF PathOf
    <2>2. CASE case \notin Downloads /\ case \in DOMAIN CollectionOf
        <3>1. CollectionOf[case] \in Collections
            BY <2>2 DEF CollectionOf, Collections
        <3>2. PathOf(case, id) = <<CollectionOf[case], id>>
            BY <2>2, Zenon DEF PathOf
        <3> QED BY <3>1, <3>2 DEF Paths
    <2>3. CASE case \notin Downloads /\ case \notin DOMAIN CollectionOf
        BY <2>3 DEF PathOf, Paths, Collections
    <2> QED BY <2>1, <2>2, <2>3
<1>2. CASE case \in Downloads
    BY <1>2 DEF Endpoint, Routes
<1>3. CASE case \notin Downloads
    <2>1. Endpoint(case, id, p) \in
             [task : {"requestParameters"}, path : Paths \cup {None}, encoding : Encodings,
              body : Bodies, url : Parameters]
        BY <1>1, <1>3 DEF Endpoint, Encodings, Bodies
    <2> QED BY <2>1 DEF Routes
<1> QED BY <1>2, <1>3

\* No endpoint throws, or casts by force.
LEMMA EndpointBuilds ==
    ASSUME NEW case \in Cases, NEW id \in Ids, NEW p \in Parameters
    PROVE  ~Throws(Endpoint(case, id, p)) /\ ~CastFails(Endpoint(case, id, p))
BY DEF Endpoint, Throws, CastFails

\* The request of an endpoint has the path and the query of the call, and no body.
LEMMA EndpointRequest ==
    ASSUME NEW case \in Cases, NEW id \in Ids, NEW p \in Parameters \ {None}
    PROVE  LET q == BuildRequest(Endpoint(case, id, p))
           IN  /\ q.path = PathOf(case, id)
               /\ q.body = None
               /\ case \notin Downloads => q.query = QueryOf(p)
<1>1. CASE case \in Downloads
    BY <1>1 DEF Endpoint, BuildRequest, BaseRequest, PathOf, Downloads
<1>2. CASE case \notin Downloads
    <2> DEFINE r    == Endpoint(case, id, p)
               path == PathOf(case, id)
               done == Request(path, QueryOf(p), None, "form")
    <2>1. /\ r.task = "requestParameters" /\ r.path = path /\ r.body = None /\ r.url = p
          /\ r.encoding \in {"urlEncoding", "urlAndJsonEncoding"}
        BY <1>2 DEF Endpoint
    <2> HIDE DEF r, path
    <2>2. URLParameterEncode(BaseRequest, p, path) = done
        <3>1. path = IF path = None THEN None ELSE path
            OBVIOUS
        <3> QED BY <3>1, BaseFields, URLFields
    <2>3. JSONParameterEncode(done, None) = done
        BY DEF JSONParameterEncode
    <2>4. BuildRequest(r) = Encode(BaseRequest, r.encoding, None, p, path)
        BY <2>1 DEF BuildRequest
    <2> HIDE DEF done
    <2>5. BuildRequest(r) = done
        BY <2>1, <2>2, <2>3, <2>4 DEF Encode
    <2>6. done.path = path /\ done.body = None /\ done.query = QueryOf(p)
        BY DEF done, Request
    <2> QED BY <2>5, <2>6 DEF r, path
<1> QED BY <1>1, <1>2

\* A text survives being escaped twice and decoded once exactly if nothing in it is
\* escaped for a fragment.
LEMMA RoundTrip ==
    ASSUME NEW C \in SUBSET Classes
    PROVE  (Decoded(QueryItem(AddingPercentEncoding(Raw(C)))) = Raw(C)) <=> "unsafe" \notin C
<1> DEFINE once  == AddingPercentEncoding(Raw(C))
           twice == QueryItem(once)
<1>1. once = [c \in C |-> IF c = "unsafe" THEN 1 ELSE 0]
    BY DEF AddingPercentEncoding, Raw
<1> HIDE DEF once
<1>2. twice = [c \in C |-> IF c = "unsafe" THEN 2 ELSE IF c # "plain" THEN 1 ELSE 0]
    BY <1>1 DEF QueryItem
<1> HIDE DEF twice
<1>3. Decoded(twice) = [c \in C |-> IF c = "unsafe" THEN 1 ELSE 0]
    BY <1>2 DEF Decoded
<1>4. Decoded(twice) = Raw(C) <=> "unsafe" \notin C
    BY <1>3 DEF Raw
<1> QED BY <1>4 DEF once, twice

-----------------------------------------------------------------------------
LEMMA InitInv == Init => IInv
BY DEF Init, IInv, BuiltFromRoute, RouteOfCall

\* Building a request establishes the first half.
LEMMA BuiltInv ==
    ASSUME NEW r \in Routes, Built(r)
    PROVE  BuiltFromRoute'
BY DEF Built, BuiltFromRoute

LEMMA StepInv == IInv /\ [Next]_vars => IInv'
<1> SUFFICES ASSUME IInv, [Next]_vars PROVE IInv'
    OBVIOUS
<1>1. CASE Done
    BY <1>1 DEF Done, IInv, BuiltFromRoute, RouteOfCall
<1>2. ASSUME NEW case \in Cases, NEW id \in Ids, NEW p \in Parameters \ {None},
             Call(case, id, p)
      PROVE  IInv'
    <2> DEFINE r == Endpoint(case, id, p)
    <2>1. r \in Routes /\ ~Throws(r) /\ ~CastFails(r)
        BY EndpointRoute, EndpointBuilds
    <2>2. called' = [case |-> case, id |-> id, parameters |-> p] /\ route' = r
        BY <1>2 DEF Call, Built
    <2>3. outcome' = IF UnwrapFails(case, id) THEN "trap" ELSE "built"
        BY <1>2, <2>1 DEF Call, Built
    <2>4. RouteOfCall'
        BY <2>2, <2>3 DEF RouteOfCall, Called
    <2>5. BuiltFromRoute'
        <3> HIDE DEF r
        <3>1. CASE UnwrapFails(case, id)
            BY <3>1, <2>3 DEF BuiltFromRoute
        <3>2. CASE ~UnwrapFails(case, id)
            BY <3>2, <1>2, <2>1, BuiltInv DEF Call, r
        <3> QED BY <3>1, <3>2
    <2> QED BY <2>4, <2>5 DEF IInv
<1>3. ASSUME NEW r \in Routes, CallOther(r)
      PROVE  IInv'
    BY <1>3, BuiltInv DEF CallOther, IInv, RouteOfCall
<1>4. CASE UNCHANGED vars
    BY <1>4 DEF vars, IInv, BuiltFromRoute, RouteOfCall, Called
<1> QED BY <1>1, <1>2, <1>3, <1>4 DEF Next

\* The request is the one of the route, and the route the one of the call.
THEOREM InvHolds == Spec => []IInv
BY InitInv, StepInv, PTL DEF Spec

-----------------------------------------------------------------------------
(***************************************************************************)
(* The properties.                                                         *)
(***************************************************************************)

\* A route with parameters goes through the encoders, with the label of its headers.
LEMMA EncodedRoute ==
    ASSUME NEW r \in Routes, r.task \notin {"request", "downloadFile"}
    PROVE  LET d == IF r.task # "requestParameters" /\ r.headers = "own" THEN "own" ELSE None
               p == IF r.task = "uploadFile" THEN None ELSE r.url
           IN  /\ r.encoding \in Encodings
               /\ BuildRequest(r) =
                     Encode(Request(None, None, None, d), r.encoding, r.body, p, r.path)
<1>1. r.encoding \in Encodings
    BY DEF Routes
<1>2. CASE r.task = "requestParameters"
    BY <1>1, <1>2, BaseFields DEF BuildRequest
<1>3. CASE r.task # "requestParameters"
    BY <1>1, <1>3, HeaderFields DEF BuildRequest
<1> QED BY <1>2, <1>3

\* A route without parameters has neither query nor body.
LEMMA PlainRoute ==
    ASSUME NEW r \in Routes, r.task \in {"request", "downloadFile"}
    PROVE  BuildRequest(r).query = None /\ BuildRequest(r).body = None
<1>1. Labelled(BaseRequest, "json") = Request(None, None, None, "json")
    BY BaseFields, LabelledFields
<1>2. BuildRequest(r) \in {Request(None, None, None, "json"), Request(None, None, None, None)}
    BY <1>1, BaseFields DEF BuildRequest
<1> QED BY <1>2 DEF Request

\* Which routes have URL parameters, and headers.
LEMMA RouteFields ==
    ASSUME NEW r \in Routes
    PROVE  /\ "url" \in DOMAIN r => r.task \in {"requestParameters", "requestParametersAndHeaders"}
                                    /\ r.url \in Parameters
           /\ r.task \in {"requestParametersAndHeaders", "uploadFile"} => "headers" \in DOMAIN r
BY DEF Routes

\* For any parameters, a value reaches the server as it was given exactly if no
\* character of it is escaped already for a fragment.
THEOREM QueriesArrive == Spec => []QueryArrives
<1>1. IInv => QueryArrives
    <2> SUFFICES ASSUME IInv, Sends("url"), request.query # None, NEW n \in DOMAIN route.url
                 PROVE  (Decoded(request.query[n]) = route.url[n])
                           <=> "unsafe" \notin DOMAIN route.url[n]
        BY DEF QueryArrives
    <2>1. /\ route \in Routes /\ request = BuildRequest(route)
          /\ "url" \in DOMAIN route /\ route.url # None
        BY DEF IInv, BuiltFromRoute, Sends
    <2>2. /\ route.task \notin {"request", "downloadFile", "uploadFile"}
          /\ route.url \in Parameters \ {None}
        BY <2>1, RouteFields
    <2> DEFINE d == IF route.task # "requestParameters" /\ route.headers = "own" THEN "own" ELSE None
    <2>3. /\ route.encoding \in Encodings
          /\ request = Encode(Request(None, None, None, d), route.encoding, route.body,
                              route.url, route.path)
        BY <2>1, <2>2, EncodedRoute
    <2> HIDE DEF d
    <2>4. PICK a1, q1, c1, d1 :
             request = Request(a1, q1, c1, d1) /\ (q1 = None \/ q1 = QueryOf(route.url))
        BY <2>3, EncodeFields
    <2>5. request.query = QueryOf(route.url)
        BY <2>4 DEF Request
    <2>6. request.query[n] = QueryItem(AddingPercentEncoding(route.url[n]))
        BY <2>5 DEF QueryOf
    <2>7. PICK C \in SUBSET Classes : route.url[n] = Raw(C)
        BY <2>2 DEF Parameters, Texts
    <2>8. DOMAIN route.url[n] = C
        BY <2>7 DEF Raw
    <2> QED BY <2>6, <2>7, <2>8, RoundTrip
<1> QED BY <1>1, InvHolds, PTL

\* A body never goes out under a label that is not its own, but for the two cases: a
\* label the caller gave, and that of a form.
THEOREM BodiesLabelled == Spec => []BodyLabelled
<1>1. IInv => BodyLabelled
    <2> SUFFICES ASSUME IInv, outcome = "built", request.body # None
                 PROVE  \/ request.type = IF request.body = "json" THEN "json" ELSE "boundary"
                        \/ request.type = "own" /\ Sends("headers")
                        \/ request.type = "form" /\ route.encoding = "urlAndJsonEncoding"
        BY DEF BodyLabelled
    <2>1. route \in Routes /\ request = BuildRequest(route)
        BY DEF IInv, BuiltFromRoute
    <2>2. route.task \notin {"request", "downloadFile"}
        BY <2>1, PlainRoute
    <2> DEFINE d == IF route.task # "requestParameters" /\ route.headers = "own" THEN "own" ELSE None
               p == IF route.task = "uploadFile" THEN None ELSE route.url
    <2>3. /\ route.encoding \in Encodings
          /\ request = Encode(Request(None, None, None, d), route.encoding, route.body, p, route.path)
        BY <2>1, <2>2, EncodedRoute
    <2>4. d = None \/ (d = "own" /\ Sends("headers"))
        <3>1. route.task \in {"requestParameters", "requestParametersAndHeaders", "uploadFile"}
            BY <2>1, <2>2 DEF Routes
        <3>2. CASE d # None
            BY <3>1, <3>2, <2>1, RouteFields, NoneAssumption DEF Sends
        <3> QED BY <3>2
    <2> HIDE DEF d, p
    <2>5. PICK a1, q1, c1, d1 :
             /\ request = Request(a1, q1, c1, d1)
             /\ \/ c1 = None
                \/ c1 = "json" /\ d1 = IF d # None THEN d
                                     ELSE IF route.encoding = "urlAndJsonEncoding" THEN "form"
                                     ELSE "json"
                \/ c1 = "multipart" /\ d1 = IF d # None THEN d ELSE "boundary"
        BY <2>3, EncodeFields
    <2>6. request.body = c1 /\ request.type = d1
        BY <2>5 DEF Request
    <2> QED BY <2>4, <2>5, <2>6
<1> QED BY <1>1, InvHolds, PTL

\* The endpoints of the application lose nothing on the way, whatever the parameters
\* are called and the identifiers are.
THEOREM EndpointsAreSound == Spec => []EndpointsSound
<1>1. IInv => EndpointsSound
    <2> SUFFICES ASSUME IInv, called # None PROVE EndpointsSound
        BY DEF EndpointsSound
    <2> DEFINE case == called.case
               id   == called.id
               p    == called.parameters
    <2>1. /\ case \in Cases /\ id \in Ids /\ p \in Parameters \ {None}
          /\ route = Endpoint(case, id, p)
          /\ outcome = IF UnwrapFails(case, id) THEN "trap" ELSE "built"
        BY DEF IInv, RouteOfCall, Called
    <2>2. CASE UnwrapFails(case, id)
        BY <2>1, <2>2 DEF UnwrapFails, EndpointsSound
    <2>3. CASE ~UnwrapFails(case, id)
        <3>1. outcome = "built" /\ request = BuildRequest(Endpoint(case, id, p))
            BY <2>1, <2>3 DEF IInv, BuiltFromRoute
        <3>2. /\ request.path = PathOf(case, id)
              /\ request.body = None
              /\ case \notin Downloads => request.query = QueryOf(p)
            BY <3>1, <2>1, EndpointRequest
        <3>3. QueryOf(p) # None /\ DOMAIN QueryOf(p) = DOMAIN p
            BY <2>1, QueryAssumption DEF QueryOf
        <3> QED BY <3>1, <3>2, <3>3 DEF EndpointsSound
    <2> QED BY <2>2, <2>3
<1> QED BY <1>1, InvHolds, PTL
-----------------------------------------------------------------------------
(***************************************************************************)
(* The frames of a GIF: GifFrames, for any number of images and any        *)
(* delays.  Divisibility first, by way of factors.                         *)
(***************************************************************************)
Positive == Nat \ {0}

LEMMA Division ==
    ASSUME NEW n \in Nat, NEW d \in Positive
    PROVE  /\ n % d \in 0..(d - 1) /\ n \div d \in Nat
           /\ n = d * (n \div d) + (n % d)
  BY DEF Positive

LEMMA HasFactor ==
    ASSUME NEW n \in Nat, NEW d \in Positive, Divides(d, n)
    PROVE  \E q \in Nat : n = d * q
<1>1. n \div d \in Nat /\ n = d * (n \div d)
  BY Division DEF Divides, Positive
<1> QED
  BY <1>1

LEMMA FactorDivides ==
    ASSUME NEW d \in Positive, NEW q \in Nat
    PROVE  Divides(d, d * q)
  BY DEF Divides, Positive

LEMMA DividesItself ==
    ASSUME NEW d \in Positive
    PROVE  Divides(d, d)
  BY FactorDivides DEF Positive

LEMMA DivisorIsSmaller ==
    ASSUME NEW d \in Positive, NEW n \in Positive, Divides(d, n)
    PROVE  d <= n
<1>1. PICK q \in Nat : n = d * q
  BY HasFactor DEF Positive
<1>2. q >= 1
  BY <1>1 DEF Positive
<1> QED
  BY <1>1, <1>2 DEF Positive

LEMMA ExactQuotient ==
    ASSUME NEW d \in Positive, NEW n \in Positive, Divides(d, n)
    PROVE  n \div d \in Positive /\ d * (n \div d) = n
<1>1. n = d * (n \div d) /\ n \div d \in Nat
  BY Division DEF Divides, Positive
<1> QED
  BY <1>1 DEF Positive

LEMMA DividesSum ==
    ASSUME NEW d \in Positive, NEW m \in Nat, NEW r \in Nat, NEW q \in Nat,
           Divides(d, m)
    PROVE  Divides(d, r) <=> Divides(d, m * q + r)
<1>1. PICK u \in Nat : m = d * u
  BY HasFactor
<1>2. m * q + r \in Nat
  OBVIOUS
<1>3. ASSUME Divides(d, r)
      PROVE  Divides(d, m * q + r)
  <2>1. PICK v \in Nat : r = d * v
    BY <1>3, HasFactor
  <2>2. u * q + v \in Nat /\ m * q + r = d * (u * q + v)
    BY <1>1, <2>1 DEF Positive
  <2> QED
    BY <2>2, FactorDivides
<1>4. ASSUME Divides(d, m * q + r)
      PROVE  Divides(d, r)
  <2>1. PICK w \in Nat : m * q + r = d * w
    BY <1>2, <1>4, HasFactor
  <2>2. r = d * (w - u * q)
    BY <1>1, <2>1 DEF Positive
  <2>3. w - u * q \in Nat
    BY <2>2 DEF Positive
  <2> QED
    BY <2>2, <2>3, FactorDivides
<1> QED
  BY <1>3, <1>4

\* One turn of the loop of gcdForPair keeps the common divisors of the pair.
LEMMA PairAndRest ==
    ASSUME NEW d \in Positive, NEW m \in Positive, NEW n \in Positive
    PROVE  /\ m % n \in Nat
           /\ Divides(d, m) /\ Divides(d, n) <=> Divides(d, n) /\ Divides(d, m % n)
<1>1. m % n \in Nat /\ m \div n \in Nat /\ m = n * (m \div n) + (m % n)
  BY Division DEF Positive
<1>2. Divides(d, n) => (Divides(d, m % n) <=> Divides(d, m))
  BY <1>1, DividesSum DEF Positive
<1> QED
  BY <1>1, <1>2

LEMMA DividesZero == ASSUME NEW d \in Positive PROVE Divides(d, 0)
  BY DEF Divides, Positive

-----------------------------------------------------------------------------
(***************************************************************************)
(* The inductive invariant.  The divisors of gcd are the common divisors   *)
(* of the values folded so far, and inside gcdForPair those of a and b are *)
(* the ones of gcd and the next value.  The sum of the delays, which two   *)
(* loops form at different times, is named by its running totals.          *)
(***************************************************************************)
Common(d, n) == Divides(d, delays[1]) /\ \A i \in 1..n : Divides(d, delays[i])

RunningTotals(s) ==
    /\ s \in [0..Len(delays) -> Nat]
    /\ s[0] = 0
    /\ \A n \in 1..Len(delays) : s[n] = s[n - 1] + delays[n]

PhaseInv ==
    /\ pc \in {"read", "gcd", "pair"} => frames = <<>>
    /\ pc = "read" /\ next > 1 => Len(delays) = count
    /\ pc \in {"gcd", "pair", "frames", "shown"} => Len(delays) = count
    /\ pc = "pair" => next <= count
    /\ pc = "shown" => next = count + 1 /\ count > 0
    /\ pc = "nil" => count = 0 \/ Len(delays) < count

GcdInv ==
    /\ pc \in {"gcd", "pair"} /\ count > 0 =>
          \A d \in Positive : Divides(d, gcd) <=> Common(d, next - 1)
    /\ pc = "pair" =>
          \A d \in Positive :
             Divides(d, a) /\ Divides(d, b) <=> Divides(d, gcd) /\ Divides(d, delays[next])
    /\ pc \in {"frames", "shown"} /\ count > 0 =>
          \A d \in Positive : Divides(d, gcd) <=> Common(d, count)

FramesInv ==
    pc \in {"frames", "shown"} =>
        /\ \A k \in DOMAIN frames : frames[k] < next
        /\ \A i \in 1..(next - 1) : gcd * Cardinality(FramesOf(i)) = delays[i]
        /\ \A j, k \in DOMAIN frames : j < k => frames[j] <= frames[k]

SumInv ==
    \E s \in [0..Len(delays) -> Nat] :
        /\ RunningTotals(s)
        /\ pc = "read" => duration = s[next - 1]
        /\ pc \in {"gcd", "pair", "frames", "shown"} => duration = s[count]
        /\ pc \in {"frames", "shown"} => gcd * Len(frames) = s[next - 1]

GifInv == GifTypeOK /\ PhaseInv /\ GcdInv /\ FramesInv /\ SumInv

LEMMA GifInitInv == GifInit => GifInv
<1> SUFFICES ASSUME GifInit PROVE GifInv
  OBVIOUS
<1>1. GifTypeOK /\ PhaseInv
  BY DelayAssumption DEF GifInit, GifTypeOK, PhaseInv
<1>2. GcdInv /\ FramesInv
  BY DEF GifInit, GcdInv, FramesInv
<1>3. SumInv
  <2> DEFINE s == [n \in 0..0 |-> 0]
  <2>1. Len(delays) = 0 /\ s \in [0..0 -> Nat] /\ s[0] = 0
    BY DEF GifInit
  <2>2. RunningTotals(s)
    BY <2>1 DEF RunningTotals
  <2>3. duration = s[next - 1] /\ pc = "read"
    BY DEF GifInit
  <2> QED
    BY <2>1, <2>2, <2>3 DEF SumInv
<1> QED
  BY <1>1, <1>2, <1>3 DEF GifInv

\* A delay is positive whatever the file says, so nothing is divided by zero.
LEMMA DelayPositive ==
    ASSUME NEW u \in Delays, NEW c \in Delays
    PROVE  Milliseconds(DelayForImage(u, c)) \in Positive
<1>1. /\ DelayForImage(u, c) \in Nat /\ DelayForImage(u, c) >= MinDelay
      /\ MinDelay \in Nat \ {0}
  BY DelayAssumption DEF DelayForImage
<1>2. DelayForImage(u, c) \in Short => DelayForImage(u, c) > MinDelay
  BY DelayAssumption
<1> QED
  BY <1>1, <1>2 DEF Milliseconds, Positive

LEMMA ReadImageInv ==
    ASSUME GifInv, NEW u \in Delays, NEW c \in Delays, ReadImage(u, c)
    PROVE  GifInv'
<1> DEFINE x == Milliseconds(DelayForImage(u, c))
<1>1. x \in Positive
  BY DelayPositive
<1>2. /\ pc = "read" /\ Len(delays) < count /\ delays' = Append(delays, x)
      /\ pc' = pc /\ count' = count /\ duration' = duration /\ gcd' = gcd
      /\ next' = next /\ a' = a /\ b' = b /\ frames' = frames
  BY DEF ReadImage
<1>3. /\ delays \in Seq(Positive) /\ count \in Nat
      /\ delays' \in Seq(Positive) /\ Len(delays') = Len(delays) + 1
      /\ \A i \in 1..Len(delays) : delays'[i] = delays[i]
      /\ delays'[Len(delays) + 1] = x
  BY <1>1, <1>2 DEF GifInv, GifTypeOK, Positive
<1>4. next = 1
  BY <1>2, <1>3 DEF GifInv, PhaseInv, GifTypeOK
<1>5. GifTypeOK'
  BY <1>2, <1>3 DEF GifInv, GifTypeOK, Positive
<1>6. PhaseInv' /\ GcdInv' /\ FramesInv'
  BY <1>2, <1>4 DEF GifInv, PhaseInv, GcdInv, FramesInv
<1>7. SumInv'
  <2>1. PICK s \in [0..Len(delays) -> Nat] : RunningTotals(s) /\ duration = s[0]
    BY <1>2, <1>4 DEF GifInv, SumInv
  <2>2. PICK n : n = Len(delays)
    OBVIOUS
  <2>3. PICK r : r = [k \in 0..(n + 1) |-> IF k <= n THEN s[k] ELSE s[n] + x]
    OBVIOUS
  <2>4. n \in Nat /\ r \in [0..(n + 1) -> Nat]
    BY <1>1, <1>3, <2>2, <2>3 DEF Positive
  <2>5. r[0] = 0 /\ r[0] = s[0]
    BY <2>1, <2>3, <2>4 DEF RunningTotals
  <2>6. ASSUME NEW k \in 1..(n + 1)
        PROVE  r[k] = r[k - 1] + delays'[k]
    BY <1>3, <2>1, <2>2, <2>3, <2>4 DEF RunningTotals
  <2>7. RunningTotals(r)'
    BY <1>3, <2>2, <2>4, <2>5, <2>6 DEF RunningTotals
  <2>8. r \in [0..Len(delays') -> Nat] /\ duration' = r[next' - 1] /\ pc' = "read"
    BY <1>2, <1>3, <1>4, <2>1, <2>2, <2>4, <2>5
  <2> QED
    BY <2>7, <2>8 DEF SumInv
<1> QED
  BY <1>5, <1>6, <1>7 DEF GifInv

\* The delays, and so their running totals, stay what they are.
LEMMA SameTotals ==
    ASSUME delays' = delays, NEW s, RunningTotals(s)
    PROVE  RunningTotals(s)'
  BY DEF RunningTotals

LEMMA ReadFailsInv == ASSUME GifInv, ReadFails PROVE GifInv'
<1>1. GifTypeOK' /\ PhaseInv' /\ GcdInv' /\ FramesInv'
  BY DEF ReadFails, GifInv, GifTypeOK, PhaseInv, GcdInv, FramesInv
<1>2. SumInv'
  BY SameTotals DEF ReadFails, GifInv, SumInv
<1> QED
  BY <1>1, <1>2 DEF GifInv

LEMMA AddDelayInv == ASSUME GifInv, AddDelay PROVE GifInv'
<1>1. /\ pc = "read" /\ Len(delays) = count /\ next <= count
      /\ duration' = duration + delays[next] /\ next' = next + 1
      /\ pc' = pc /\ count' = count /\ delays' = delays /\ gcd' = gcd
      /\ a' = a /\ b' = b /\ frames' = frames
  BY DEF AddDelay
<1>2. delays \in Seq(Positive) /\ count \in Nat /\ next \in 1..count /\ duration \in Nat
  BY <1>1 DEF GifInv, GifTypeOK, Positive
<1>3. delays[next] \in Positive
  BY <1>1, <1>2
<1>4. GifTypeOK'
  BY <1>1, <1>2, <1>3 DEF GifInv, GifTypeOK, Positive
<1>5. PhaseInv' /\ GcdInv' /\ FramesInv'
  BY <1>1 DEF GifInv, PhaseInv, GcdInv, FramesInv
<1>6. SumInv'
  <2>1. PICK s \in [0..Len(delays) -> Nat] : RunningTotals(s) /\ duration = s[next - 1]
    BY <1>1 DEF GifInv, SumInv
  <2>2. s[next] = s[next - 1] + delays[next]
    BY <1>1, <1>2, <2>1 DEF RunningTotals
  <2>3. duration' = s[next' - 1]
    BY <1>1, <1>2, <2>1, <2>2
  <2>4. RunningTotals(s)'
    BY <1>1, <2>1, SameTotals
  <2> QED
    BY <1>1, <2>1, <2>3, <2>4 DEF SumInv
<1> QED
  BY <1>4, <1>5, <1>6 DEF GifInv

LEMMA GcdForArrayInv == ASSUME GifInv, GcdForArray PROVE GifInv'
<1>1. /\ pc = "read" /\ Len(delays) = count /\ next > count
      /\ gcd' = (IF count = 0 THEN 1 ELSE delays[1]) /\ pc' = "gcd" /\ next' = 1
      /\ count' = count /\ delays' = delays /\ duration' = duration
      /\ a' = a /\ b' = b /\ frames' = frames
  BY DEF GcdForArray
<1>2. delays \in Seq(Positive) /\ count \in Nat /\ next = count + 1
  BY <1>1 DEF GifInv, GifTypeOK, Positive
<1>3. count > 0 => delays[1] \in Positive /\ gcd' = delays[1]
  BY <1>1, <1>2
<1>4. GifTypeOK'
  BY <1>1, <1>2, <1>3 DEF GifInv, GifTypeOK, Positive
<1>5. PhaseInv' /\ FramesInv'
  BY <1>1 DEF GifInv, PhaseInv, FramesInv
<1>6. GcdInv'
  BY <1>1, <1>3 DEF GcdInv, Common
<1>7. SumInv'
  <2>1. PICK s \in [0..Len(delays) -> Nat] : RunningTotals(s) /\ duration = s[next - 1]
    BY <1>1 DEF GifInv, SumInv
  <2>2. RunningTotals(s)' /\ duration' = s[count']
    BY <1>1, <1>2, <2>1, SameTotals
  <2> QED
    BY <1>1, <2>1, <2>2 DEF SumInv
<1> QED
  BY <1>4, <1>5, <1>6, <1>7 DEF GifInv

\* The loops over the values neither look at the total nor change it.
LEMMA SameSum ==
    ASSUME GifInv, pc \in {"gcd", "pair"}, pc' \in {"gcd", "pair"},
           count' = count, delays' = delays, duration' = duration
    PROVE  SumInv'
<1>1. PICK s \in [0..Len(delays) -> Nat] : RunningTotals(s) /\ duration = s[count]
  BY DEF GifInv, SumInv
<1>2. RunningTotals(s)'
  BY <1>1, SameTotals
<1> QED
  BY <1>1, <1>2 DEF SumInv

LEMMA GcdForPairInv == ASSUME GifInv, GcdForPair PROVE GifInv'
<1>1. /\ pc = "gcd" /\ next <= count /\ pc' = "pair"
      /\ \/ a' = gcd /\ b' = delays[next]
         \/ a' = delays[next] /\ b' = gcd
      /\ count' = count /\ delays' = delays /\ duration' = duration
      /\ gcd' = gcd /\ next' = next /\ frames' = frames
  BY DEF GcdForPair
<1>2. /\ delays \in Seq(Positive) /\ count \in Nat /\ next \in 1..count
      /\ Len(delays) = count /\ gcd \in Positive
  BY <1>1 DEF GifInv, GifTypeOK, PhaseInv, Positive
<1>3. delays[next] \in Positive
  BY <1>2
<1>4. GifTypeOK'
  BY <1>1, <1>2, <1>3 DEF GifInv, GifTypeOK, Positive
<1>5. PhaseInv' /\ FramesInv'
  BY <1>1 DEF GifInv, PhaseInv, FramesInv
<1>6. GcdInv'
  BY <1>1 DEF GifInv, GcdInv, Common
<1>7. SumInv'
  BY <1>1, SameSum
<1> QED
  BY <1>4, <1>5, <1>6, <1>7 DEF GifInv

LEMMA GcdStepInv == ASSUME GifInv, GcdStep PROVE GifInv'
<1>1. /\ pc = "pair" /\ count' = count /\ delays' = delays /\ duration' = duration
      /\ frames' = frames
      /\ \/ /\ a % b = 0 /\ gcd' = b /\ next' = next + 1 /\ pc' = "gcd"
            /\ a' = a /\ b' = b
         \/ /\ a % b # 0 /\ a' = b /\ b' = a % b
            /\ pc' = pc /\ gcd' = gcd /\ next' = next
  BY DEF GcdStep
<1>2. /\ delays \in Seq(Positive) /\ count \in Nat /\ next \in 1..count
      /\ Len(delays) = count /\ gcd \in Positive /\ a \in Positive /\ b \in Positive
  BY <1>1 DEF GifInv, GifTypeOK, PhaseInv, Positive
<1>3. a % b \in Nat
  BY <1>2, Division DEF Positive
<1>4. GifTypeOK'
  BY <1>1, <1>2, <1>3 DEF GifInv, GifTypeOK, Positive
<1>5. PhaseInv' /\ FramesInv'
  BY <1>1, <1>2 DEF GifInv, PhaseInv, FramesInv
<1>6. SumInv'
  BY <1>1, SameSum
<1>7. ASSUME NEW d \in Positive
      PROVE  /\ Divides(d, gcd) <=> Common(d, next - 1)
             /\ Divides(d, a) /\ Divides(d, b) <=> Divides(d, gcd) /\ Divides(d, delays[next])
             /\ Divides(d, a) /\ Divides(d, b) <=> Divides(d, b) /\ Divides(d, a % b)
  BY <1>1, <1>2, PairAndRest DEF GifInv, GcdInv
<1>8. GcdInv'
  <2>1. CASE a % b = 0
    <3>1. pc' = "gcd" /\ gcd' = b /\ next' = next + 1
      BY <1>1, <2>1
    <3>2. ASSUME NEW d \in Positive
          PROVE  Divides(d, b) <=> Common(d, next)
      <4>1. Divides(d, b) <=> Common(d, next - 1) /\ Divides(d, delays[next])
        BY <1>7, <2>1, DividesZero
      <4>2. Common(d, next - 1) /\ Divides(d, delays[next]) <=> Common(d, next)
        BY <1>2 DEF Common
      <4> QED
        BY <4>1, <4>2
    <3>3. \A d \in Positive : Common(d, next - 1)' <=> Common(d, next)
      BY <1>1, <1>2, <3>1 DEF Common
    <3> QED
      BY <3>1, <3>2, <3>3 DEF GcdInv
  <2>2. CASE a % b # 0
    <3>1. /\ pc' = "pair" /\ gcd' = gcd /\ next' = next /\ a' = b /\ b' = a % b
      BY <1>1, <2>2
    <3>2. \A d \in Positive : Common(d, next - 1)' <=> Common(d, next - 1)
      BY <1>1, <3>1 DEF Common
    <3> QED
      BY <1>1, <1>7, <3>1, <3>2 DEF GcdInv
  <2> QED
    BY <2>1, <2>2
<1> QED
  BY <1>4, <1>5, <1>6, <1>8 DEF GifInv

LEMMA GcdKnownInv == ASSUME GifInv, GcdKnown PROVE GifInv'
<1>1. /\ pc = "gcd" /\ next > count /\ pc' = "frames" /\ next' = 1
      /\ count' = count /\ delays' = delays /\ duration' = duration
      /\ gcd' = gcd /\ a' = a /\ b' = b /\ frames' = frames
  BY DEF GcdKnown
<1>2. /\ count \in Nat /\ next = count + 1 /\ gcd \in Positive /\ frames = <<>>
      /\ Len(delays) = count
  BY <1>1 DEF GifInv, GifTypeOK, PhaseInv, Positive
<1>3. GifTypeOK'
  BY <1>1, <1>2 DEF GifInv, GifTypeOK, Positive
<1>4. PhaseInv' /\ FramesInv'
  BY <1>1, <1>2 DEF GifInv, PhaseInv, FramesInv
<1>5. GcdInv'
  BY <1>1, <1>2 DEF GifInv, GcdInv, Common
<1>6. SumInv'
  <2>1. PICK s \in [0..Len(delays) -> Nat] : RunningTotals(s) /\ duration = s[count]
    BY <1>1 DEF GifInv, SumInv
  <2>2. RunningTotals(s)' /\ gcd' * Len(frames') = s[next' - 1]
    BY <1>1, <1>2, <2>1, SameTotals DEF RunningTotals, Positive
  <2> QED
    BY <1>1, <2>1, <2>2 DEF SumInv
<1> QED
  BY <1>3, <1>4, <1>5, <1>6 DEF GifInv

\* The frames of one image are put after those of the images before it.
LEMMA AppendFramesInv == ASSUME GifInv, AppendFrames PROVE GifInv'
<1> DEFINE n     == delays[next] \div gcd
           added == [k \in 1..n |-> next]
<1>1. /\ pc = "frames" /\ next <= count /\ frames' = frames \o added
      /\ next' = next + 1 /\ pc' = pc /\ count' = count /\ delays' = delays
      /\ duration' = duration /\ gcd' = gcd /\ a' = a /\ b' = b
  BY DEF AppendFrames
<1>2. /\ delays \in Seq(Positive) /\ count \in Nat /\ next \in 1..count
      /\ Len(delays) = count /\ gcd \in Positive /\ frames \in Seq(1..count)
  BY <1>1 DEF GifInv, GifTypeOK, PhaseInv, Positive
<1>3. delays[next] \in Positive /\ count > 0
  BY <1>2
<1>4. Divides(gcd, delays[next])
  <2>1. Divides(gcd, gcd) <=> Common(gcd, count)
    BY <1>1, <1>2, <1>3 DEF GifInv, GcdInv
  <2> QED
    BY <1>2, <2>1, DividesItself DEF Common
<1>5. n \in Positive /\ gcd * n = delays[next]
  BY <1>2, <1>3, <1>4, ExactQuotient
<1>6. added \in Seq(1..count) /\ Len(added) = n /\ \A k \in 1..n : added[k] = next
  BY <1>2, <1>5 DEF Positive
<1> HIDE DEF n, added
<1>7. /\ frames' \in Seq(1..count) /\ Len(frames') = Len(frames) + n
      /\ \A k \in 1..(Len(frames) + n) :
            frames'[k] = IF k <= Len(frames) THEN frames[k] ELSE next
  <2>1. /\ frames \o added \in Seq(1..count)
        /\ Len(frames \o added) = Len(frames) + Len(added)
        /\ \A k \in 1..(Len(frames) + Len(added)) :
              (frames \o added)[k] =
                 IF k <= Len(frames) THEN frames[k] ELSE added[k - Len(frames)]
    BY <1>2, <1>6, ConcatProperties
  <2>2. ASSUME NEW k \in 1..(Len(frames) + n)
        PROVE  frames'[k] = IF k <= Len(frames) THEN frames[k] ELSE next
    <3>1. frames'[k] = IF k <= Len(frames) THEN frames[k] ELSE added[k - Len(frames)]
      BY <1>1, <1>6, <2>1, <2>2
    <3>2. k > Len(frames) => k - Len(frames) \in 1..n
      BY <1>2, <1>5, <2>2 DEF Positive
    <3> QED
      BY <1>6, <3>1, <3>2
  <2> QED
    BY <1>1, <1>6, <2>1, <2>2
<1>8. Len(frames) \in Nat /\ n \in Nat /\ DOMAIN frames = 1..Len(frames)
      /\ DOMAIN frames' = 1..(Len(frames) + n)
  BY <1>2, <1>5, <1>7 DEF Positive
<1>9. /\ \A k \in DOMAIN frames : frames[k] < next
      /\ \A i \in 1..(next - 1) : gcd * Cardinality(FramesOf(i)) = delays[i]
      /\ \A j, k \in DOMAIN frames : j < k => frames[j] <= frames[k]
  BY <1>1 DEF GifInv, FramesInv
<1>10. GifTypeOK'
  BY <1>1, <1>2, <1>7 DEF GifInv, GifTypeOK, Positive
<1>11. PhaseInv'
  BY <1>1 DEF GifInv, PhaseInv
<1>12. GcdInv'
  BY <1>1 DEF GifInv, GcdInv, Common
<1>13. FramesInv'
  <2>1. \A k \in DOMAIN frames' : frames'[k] < next'
    BY <1>1, <1>2, <1>7, <1>8, <1>9
  <2>2. ASSUME NEW i \in 1..(next' - 1)
        PROVE  gcd' * Cardinality(FramesOf(i)') = delays'[i]
    <3>1. CASE i < next
      <4>1. FramesOf(i)' = FramesOf(i)
        BY <1>7, <1>8, <3>1, <1>2 DEF FramesOf
      <4> QED
        BY <1>1, <1>2, <1>9, <3>1, <4>1
    <3>2. CASE i = next
      <4>1. FramesOf(i)' = (Len(frames) + 1)..(Len(frames) + n)
        BY <1>7, <1>8, <1>9, <3>2, <1>2 DEF FramesOf
      <4>2. Cardinality((Len(frames) + 1)..(Len(frames) + n)) = n
        BY <1>5, <1>8, FS_Interval DEF Positive
      <4> QED
        BY <1>1, <1>5, <3>2, <4>1, <4>2
    <3> QED
      BY <1>1, <1>2, <3>1, <3>2
  <2>3. ASSUME NEW j \in DOMAIN frames', NEW k \in DOMAIN frames', j < k
        PROVE  frames'[j] <= frames'[k]
    <3>1. /\ j \in 1..(Len(frames) + n) /\ k \in 1..(Len(frames) + n)
          /\ frames'[j] = (IF j <= Len(frames) THEN frames[j] ELSE next)
          /\ frames'[k] = (IF k <= Len(frames) THEN frames[k] ELSE next)
      BY <1>7, <1>8
    <3>2. CASE k <= Len(frames)
      BY <1>8, <1>9, <2>3, <3>1, <3>2
    <3>3. CASE j <= Len(frames) /\ k > Len(frames)
      <4>1. frames[j] < next /\ frames[j] \in 1..count
        BY <1>2, <1>8, <1>9, <3>1, <3>3
      <4> QED
        BY <1>2, <1>8, <3>1, <3>3, <4>1
    <3>4. CASE j > Len(frames)
      BY <1>2, <1>8, <2>3, <3>1, <3>4
    <3> QED
      BY <1>8, <3>1, <3>2, <3>3, <3>4
  <2> QED
    BY <2>1, <2>2, <2>3 DEF FramesInv
<1>14. SumInv'
  <2>1. PICK s \in [0..Len(delays) -> Nat] :
           RunningTotals(s) /\ duration = s[count] /\ gcd * Len(frames) = s[next - 1]
    BY <1>1 DEF GifInv, SumInv
  <2>2. s[next] = s[next - 1] + delays[next]
    BY <1>2, <2>1 DEF RunningTotals
  <2>3. gcd * (Len(frames) + n) = gcd * Len(frames) + gcd * n
    BY <1>2, <1>8 DEF Positive
  <2>4. gcd' * Len(frames') = s[next' - 1]
    <3>1. gcd' * Len(frames') = gcd * (Len(frames) + n) /\ next' - 1 = next
      BY <1>1, <1>2, <1>7
    <3> QED
      BY <1>5, <2>1, <2>2, <2>3, <3>1
  <2>5. RunningTotals(s)'
    BY <1>1, <2>1, SameTotals
  <2> QED
    BY <1>1, <2>1, <2>4, <2>5 DEF SumInv
<1> QED
  BY <1>10, <1>11, <1>12, <1>13, <1>14 DEF GifInv

\* With an image there is a frame, so nil means that there was none.
LEMMA AnimateInv == ASSUME GifInv, Animate PROVE GifInv'
<1>1. /\ pc = "frames" /\ next > count /\ pc' = (IF frames = <<>> THEN "nil" ELSE "shown")
      /\ next' = next /\ count' = count /\ delays' = delays /\ duration' = duration
      /\ gcd' = gcd /\ a' = a /\ b' = b /\ frames' = frames
  BY DEF Animate
<1>2. /\ delays \in Seq(Positive) /\ count \in Nat /\ next = count + 1
      /\ Len(delays) = count /\ gcd \in Positive
  BY <1>1 DEF GifInv, GifTypeOK, PhaseInv, Positive
<1>3. frames = <<>> => count = 0
  <2> SUFFICES ASSUME frames = <<>>, count > 0 PROVE FALSE
    BY <1>2
  <2>1. gcd * Cardinality(FramesOf(1)) = delays[1] /\ delays[1] \in Positive
    BY <1>1, <1>2 DEF GifInv, FramesInv
  <2>2. Cardinality(FramesOf(1)) = 0
    <3>1. FramesOf(1) = {}
      BY DEF FramesOf
    <3> QED
      BY <3>1, FS_EmptySet
  <2> QED
    BY <1>2, <2>1, <2>2 DEF Positive
<1>9. frames # <<>> => count > 0
  <2>1. frames \in Seq(1..count)
    BY DEF GifInv, GifTypeOK
  <2>2. frames # <<>> => 1 \in DOMAIN frames
    <3>1. frames # <<>> => Len(frames) \in Nat \ {0}
      BY <2>1, EmptySeq
    <3> QED
      BY <2>1, <3>1
  <2>3. 1 \in DOMAIN frames => frames[1] \in 1..count
    <3>1. DOMAIN frames = 1..Len(frames)
      BY <2>1
    <3> QED
      BY <2>1, <3>1, ElementOfSeq
  <2> QED
    BY <1>2, <2>2, <2>3
<1>4. GifTypeOK'
  BY <1>1 DEF GifInv, GifTypeOK
<1>5. PhaseInv'
  BY <1>1, <1>2, <1>3, <1>9 DEF GifInv, PhaseInv
<1>6. GcdInv'
  BY <1>1 DEF GifInv, GcdInv, Common
<1>7. FramesInv'
  BY <1>1 DEF GifInv, FramesInv, FramesOf
<1>8. SumInv'
  <2>1. PICK s \in [0..Len(delays) -> Nat] :
           RunningTotals(s) /\ duration = s[count] /\ gcd * Len(frames) = s[next - 1]
    BY <1>1 DEF GifInv, SumInv
  <2>2. RunningTotals(s)'
    BY <1>1, <2>1, SameTotals
  <2> QED
    BY <1>1, <2>1, <2>2 DEF SumInv
<1> QED
  BY <1>4, <1>5, <1>6, <1>7, <1>8 DEF GifInv

LEMMA GifStutterInv == ASSUME GifInv, UNCHANGED gifVars PROVE GifInv'
<1>1. GifTypeOK' /\ PhaseInv' /\ GcdInv' /\ FramesInv' /\ SumInv'
  BY DEF gifVars, GifInv, GifTypeOK, PhaseInv, GcdInv, Common, FramesInv, FramesOf,
         SumInv, RunningTotals
<1> QED
  BY <1>1 DEF GifInv

LEMMA GifStepInv == GifInv /\ [GifNext]_gifVars => GifInv'
<1> SUFFICES ASSUME GifInv, [GifNext]_gifVars PROVE GifInv'
  OBVIOUS
<1>1. ASSUME NEW u \in Delays, NEW c \in Delays, ReadImage(u, c) PROVE GifInv'
  BY <1>1, ReadImageInv
<1>2. CASE Return
  <2>1. GifInit'
    BY <1>2 DEF Return, GifInit
  <2> QED
    BY <2>1, GifInitInv, PTL
<1> QED
  BY <1>1, <1>2, ReadFailsInv, AddDelayInv, GcdForArrayInv, GcdForPairInv, GcdStepInv,
     GcdKnownInv, AppendFramesInv, AnimateInv, GifStutterInv
     DEF GifNext

LEMMA GifInvariant == GifSpec => []GifInv
<1> QED
  BY GifInitInv, GifStepInv, PTL DEF GifSpec

\* Every variable keeps its type; in particular no divisor is ever zero.
THEOREM GifTypeCorrect == GifSpec => []GifTypeOK
<1>1. GifInv => GifTypeOK
  BY DEF GifInv
<1> QED
  BY <1>1, GifInvariant, PTL

\* For any number of images and any delays the animation keeps the times of the file:
\* images in turn, each for its delay exactly, in frames of the longest common time
\* that add up to the duration; it is nil only for want of images.
THEOREM FramesAreExact == GifSpec => []FramesExact
<1>1. GifInv => FramesExact
  <2> SUFFICES ASSUME GifInv PROVE FramesExact
    OBVIOUS
  <2>1. pc = "nil" => count = 0 \/ Len(delays) < count
    BY DEF GifInv, PhaseInv
  <2>2. ASSUME pc = "shown"
        PROVE  /\ \A i \in 1..count : gcd * Cardinality(FramesOf(i)) = delays[i]
               /\ \A j, k \in DOMAIN frames : j < k => frames[j] <= frames[k]
               /\ gcd * Len(frames) = duration
    <3>1. next = count + 1 /\ count \in Nat
      BY <2>2 DEF GifInv, PhaseInv, GifTypeOK
    <3> QED
      BY <2>2, <3>1 DEF GifInv, FramesInv, SumInv
  <2>3. ASSUME pc = "shown", NEW d \in 1..delays[1],
               \A i \in 1..count : Divides(d, delays[i])
        PROVE  d <= gcd
    <3>1. /\ delays \in Seq(Positive) /\ count \in Nat /\ Len(delays) = count
          /\ gcd \in Positive /\ count > 0
      BY <2>3 DEF GifInv, GifTypeOK, PhaseInv, Positive
    <3>2. delays[1] \in Positive /\ d \in Positive
      BY <3>1 DEF Positive
    <3>3. Common(d, count)
      BY <2>3, <3>1 DEF Common
    <3>4. Divides(d, gcd)
      BY <2>3, <3>1, <3>2, <3>3 DEF GifInv, GcdInv
    <3> QED
      BY <3>1, <3>2, <3>4, DivisorIsSmaller
  <2> QED
    BY <2>1, <2>2, <2>3 DEF FramesExact
<1> QED
  BY <1>1, GifInvariant, PTL
=============================================================================
