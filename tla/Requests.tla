------------------------------ MODULE Requests ------------------------------
(***************************************************************************)
(* How a request is built: the cases of BaseEnpoint, Router.buildRequest,  *)
(* ParameterEncoding.encode and the two encoders, for every HTTPTask.      *)
(*                                                                         *)
(* A value of a parameter is abstracted to the classes of characters that  *)
(* occur in it and how often each has been percent-encoded: the            *)
(* application encodes a value, URLComponents encodes it again, and the    *)
(* server decodes it once.  The body and the Content-Type are abstracted   *)
(* to their kinds.                                                         *)
(***************************************************************************)
EXTENDS Naturals

CONSTANTS
    Names,      \* names of parameters
    Ids,        \* identifiers of objects, persons and recordings, and addresses of pictures
    Malformed,  \* addresses that are not a URL
    None        \* nil

ASSUME MalformedAssumption == Malformed \subseteq Ids
ASSUME NoneAssumption == None \notin {"strings", "mixed", "form", "json", "boundary", "multipart", "own"}

\* "plain" characters are escaped by nobody; "separator" (&) is allowed in a fragment
\* and escaped in a query; "unsafe" (space, ", #, %, beyond ASCII) is allowed in
\* neither.  (A + is plain: it arrives as it is, and a server that reads forms into a
\* query would take it for a space.)
Classes == {"plain", "separator", "unsafe"}

\* A text that was not encoded.
Raw(C) == [c \in C |-> 0]
Texts  == {Raw(C) : C \in SUBSET Classes}

\* The paths of URLs, with an identifier or without.
Collections == {"object", "audio", "person"}
Paths       == {<<c>> : c \in Collections} \cup (Collections \X Ids)

\* Parameters, or nil.
Parameters == {None} \cup UNION {[N -> Texts] : N \in SUBSET Names}

\* Body parameters; the values of "mixed" ones are not all strings.
Bodies == {None, "strings", "mixed"}

Encodings == {"urlEncoding", "jsonEncoding", "urlAndJsonEncoding",
              "jsonEncodingWithMultipartdata"}

\* additionalHeaders: "own" sets a Content-Type.
Headers == {None, "other", "own"}

\* An endpoint, with the associated values of its HTTPTask.
Routes ==
    [task : {"request", "downloadFile"}, path : Paths \cup {None}]
    \cup [task : {"requestParameters"}, path : Paths \cup {None}, encoding : Encodings,
          body : Bodies, url : Parameters]
    \cup [task : {"requestParametersAndHeaders"}, path : Paths \cup {None},
          encoding : Encodings, body : Bodies, url : Parameters, headers : Headers]
    \cup [task : {"uploadFile"}, path : Paths \cup {None}, encoding : Encodings,
          body : Bodies, headers : Headers, media : BOOLEAN]

VARIABLES
    called,     \* the case of BaseEnpoint that was called, with its associated values
    route,      \* the endpoint a request was built for, None before
    outcome,    \* "idle", "built", "error" (buildRequest throws) or "trap"
    request     \* the URLRequest

vars == <<called, route, outcome, request>>

-----------------------------------------------------------------------------
(***************************************************************************)
(* Percent-encoding.                                                       *)
(***************************************************************************)

\* addingPercentEncoding(withAllowedCharacters: .urlFragmentAllowed): the % of what is
\* escaped already is not allowed either.
AddingPercentEncoding(t) ==
    [c \in DOMAIN t |-> IF c = "unsafe" \/ t[c] > 0 THEN t[c] + 1 ELSE t[c]]

\* The setter of URLComponents.queryItems escapes what a query does not allow.
QueryItem(t) ==
    [c \in DOMAIN t |-> IF c # "plain" \/ t[c] > 0 THEN t[c] + 1 ELSE t[c]]

\* The server decodes a value of the query once.
Decoded(t) == [c \in DOMAIN t |-> IF t[c] > 0 THEN t[c] - 1 ELSE t[c]]

-----------------------------------------------------------------------------
(***************************************************************************)
(* The encoders.  A request has the path and the query of its URL, a body  *)
(* and a Content-Type.                                                     *)
(***************************************************************************)

\* URLRequest(url: route.baseURL).
BaseRequest == [path |-> None, query |-> None, body |-> None, type |-> None]

\* The Content-Type is set unless there is one.
Labelled(q, type) == IF q.type = None THEN [q EXCEPT !.type = type] ELSE q

WithPath(q, path) == IF path = None THEN q ELSE [q EXCEPT !.path = path]

\* Fault: the value is escaped for a query before URLQueryItem escapes it.
QueryOfEscaped(p) == [n \in DOMAIN p |-> QueryItem(QueryItem(p[n]))]

QueryOf(p) == [n \in DOMAIN p |-> QueryItem(AddingPercentEncoding(p[n]))]

\* nil is not a query.
ASSUME QueryAssumption == \A p \in Parameters \ {None} : QueryOf(p) # None

\* URLParameterEncoder.encode.
URLParameterEncode(q, p, path) ==
    LET pathSet == WithPath(q, path)
    IN  Labelled(IF p = None THEN pathSet ELSE [pathSet EXCEPT !.query = QueryOf(p)], "form")

\* Fault: the body is put in place without a label.
JSONParameterEncodeOnly(q, b) == IF b = None THEN q ELSE [q EXCEPT !.body = "json"]

\* JSONParameterEncoder.encode(with:and:), which does not look at the path.
JSONParameterEncode(q, b) ==
    IF b = None THEN q ELSE Labelled([q EXCEPT !.body = "json"], "json")

\* JSONParameterEncoder.encode(with:path:media:): the label names the boundary.
MultipartEncode(q, path) ==
    Labelled([WithPath(q, path) EXCEPT !.body = "multipart"], "boundary")

\* ParameterEncoding.encode: for both encodings the URL comes first.
Encode(q, encoding, b, p, path) ==
    IF encoding = "jsonEncodingWithMultipartdata"
    THEN MultipartEncode(q, path)
    ELSE LET encoded == IF encoding = "jsonEncoding" THEN q ELSE URLParameterEncode(q, p, path)
         IN  IF encoding = "urlEncoding" THEN encoded ELSE JSONParameterEncode(encoded, b)

AddAdditionalHeaders(q, headers) == IF headers = "own" THEN [q EXCEPT !.type = "own"] ELSE q

-----------------------------------------------------------------------------
(***************************************************************************)
(* BaseEnpoint: the tables of its cases (path, task) as one.               *)
(***************************************************************************)
Downloads == {"downloadFullImageObject", "downloadPortraitImage"}
Cases     == {"getExihibitionFromHardvardMuseum", "getDetailedInformationOfObject",
              "downloadAudioObject", "getPeronalInformation", "getObjectAccordingToPerson"}
             \cup Downloads

\* The collection of which an endpoint asks for one member.
CollectionOf == [getDetailedInformationOfObject |-> "object",
                 downloadAudioObject            |-> "audio",
                 getPeronalInformation          |-> "person"]

PathOf(case, id) ==
    IF case \in Downloads THEN None
    ELSE IF case \in DOMAIN CollectionOf THEN <<CollectionOf[case], id>>
    ELSE <<"object">>

\* Fault: the query is left to the JSON encoder.
EndpointJSON(case, id, parameters) ==
    IF case \in Downloads
    THEN [task |-> "downloadFile", path |-> None]
    ELSE [task |-> "requestParameters", path |-> PathOf(case, id), body |-> None,
          url |-> parameters,
          encoding |-> IF case = "getExihibitionFromHardvardMuseum"
                       THEN "jsonEncoding" ELSE "urlEncoding"]

Endpoint(case, id, parameters) ==
    IF case \in Downloads
    THEN [task |-> "downloadFile", path |-> None]
    ELSE [task |-> "requestParameters", path |-> PathOf(case, id), body |-> None,
          url |-> parameters,
          encoding |-> IF case = "getExihibitionFromHardvardMuseum"
                       THEN "urlAndJsonEncoding" ELSE "urlEncoding"]

-----------------------------------------------------------------------------
(***************************************************************************)
(* buildRequest.                                                           *)
(***************************************************************************)

\* The forced cast of a value to String in a multipart body.
CastFails(r) ==
    /\ r.task \notin {"request", "downloadFile"}
    /\ r.encoding = "jsonEncodingWithMultipartdata"
    /\ r.body = "mixed"

\* An upload without media throws; every error becomes buildingRequestUrlFailed.
Throws(r) == r.task = "uploadFile" /\ ~r.media

\* Additional headers come before the encoders; an upload has no query.
BuildRequest(r) ==
    IF r.task = "request" THEN Labelled(BaseRequest, "json")
    ELSE IF r.task = "downloadFile" THEN BaseRequest
    ELSE LET first == IF r.task = "requestParameters" THEN BaseRequest
                      ELSE AddAdditionalHeaders(BaseRequest, r.headers)
         IN  Encode(first, r.encoding, r.body,
                    IF r.task = "uploadFile" THEN None ELSE r.url, r.path)

Init ==
    /\ called = None
    /\ route = None
    /\ outcome = "idle"
    /\ request = BaseRequest

Built(r) ==
    /\ outcome = "idle"
    /\ route' = r
    /\ \/ Throws(r) /\ outcome' = "error" /\ request' = BaseRequest
       \/ ~Throws(r) /\ CastFails(r) /\ outcome' = "trap" /\ request' = BaseRequest
       \/ ~Throws(r) /\ ~CastFails(r) /\ outcome' = "built" /\ request' = BuildRequest(r)

\* The forced unwrapping of the address of a download.
UnwrapFails(case, id) == case \in Downloads /\ id \in Malformed

\* The application calls an endpoint.
Call(case, id, parameters) ==
    /\ \/ ~UnwrapFails(case, id) /\ Built(Endpoint(case, id, parameters))
       \/ /\ UnwrapFails(case, id)
          /\ outcome = "idle" /\ outcome' = "trap"
          /\ route' = Endpoint(case, id, parameters)
          /\ request' = BaseRequest
    /\ called' = [case |-> case, id |-> id, parameters |-> parameters]

\* A route that no endpoint of the application has.
CallOther(r) ==
    /\ Built(r)
    /\ called' = None

\* The request is sent, or the error reported; the next call builds its own.
Done ==
    /\ outcome # "idle"
    /\ called' = None
    /\ route' = None
    /\ outcome' = "idle"
    /\ request' = BaseRequest

Next ==
    \/ Done
    \/ /\ outcome = "idle"
       /\ \/ \E case \in Cases, id \in Ids, p \in Parameters \ {None} : Call(case, id, p)
          \/ \E r \in Routes : CallOther(r)

Spec == Init /\ [][Next]_vars

-----------------------------------------------------------------------------
(***************************************************************************)
(* Properties.                                                             *)
(***************************************************************************)
Sends(field) == outcome = "built" /\ field \in DOMAIN route /\ route[field] # None

\* A parameter in the query reaches the server as it was given exactly if no character
\* of it needs escaping already in a fragment: such a character is encoded twice, by
\* URLParameterEncoder and by URLComponents, and arrives escaped.
QueryArrives ==
    Sends("url") /\ request.query # None =>
        \A n \in DOMAIN route.url :
            (Decoded(request.query[n]) = route.url[n]) <=> "unsafe" \notin DOMAIN route.url[n]

\* A body is labelled as what it is, a multipart body with its boundary, unless the
\* caller gave a Content-Type, or the URL encoder ran first and labelled the request
\* as a form.
BodyLabelled ==
    outcome = "built" /\ request.body # None =>
        \/ request.type = IF request.body = "json" THEN "json" ELSE "boundary"
        \/ request.type = "own" /\ Sends("headers")
        \/ request.type = "form" /\ route.encoding = "urlAndJsonEncoding"

\* The endpoints of the application lose nothing on the way: each is built, unless it
\* downloads from a malformed address, asks for its own path with all its parameters
\* and has no body.
EndpointsSound ==
    called # None =>
        \/ outcome = "trap" /\ called.case \in Downloads /\ called.id \in Malformed
        \/ /\ outcome = "built"
           /\ request.path = PathOf(called.case, called.id)
           /\ request.body = None
           /\ called.case \notin Downloads =>
                 request.query # None /\ DOMAIN request.query = DOMAIN called.parameters
=============================================================================
