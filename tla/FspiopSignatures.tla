-------------------------- MODULE FspiopSignatures --------------------------
(***************************************************************************)
(* The JWS signature of one request on its way from the FSP that makes it, *)
(* through the API that verifies it, to the requests the event handler     *)
(* makes of it, some with the FSP's signature and some signed anew with    *)
(* the switch's key.                                                       *)
(*                                                                         *)
(* The two services share nothing but the headers they pass on: the API    *)
(* replaces the date, the transformers rebuild the body, sendRequest       *)
(* rewrites the method and the date, the query handlers switch source and  *)
(* destination, and sign() changes the headers object it is given.         *)
(*                                                                         *)
(* The cryptography is external: a signature is what was signed and the    *)
(* key, and nobody signs with a key that is not his.  Both validate() and  *)
(* the routers look at the headers only, so does this module: that the     *)
(* URL of the request is the one FSPIOP-URI names is not checked anywhere. *)
(*                                                                         *)
(* Operators marked "Variant" are mistakes the code does not make: they    *)
(* show that the properties below would notice them.                       *)
(***************************************************************************)
EXTENDS Naturals

CONSTANTS
    Fsp, Switch, NoFsp,
    PublicKeys,     \* the FSPs whose public keys are known
    Uris, NoUri,
    ServiceUri,     \* of each the part from the resource on, which sign() puts in its place
    Dates, NoDate,
    UTCString,      \* each in the form HeaderBuilder gives it
    Bodies, NoBody,
    ErrorBody,      \* the errorInformation of error feedback, which an FSP may sign as well
    Transformed,    \* each body as the transformers rebuild it
    Earlier,        \* the signatures FSPs have made of other requests
    NoSignature,
    NoMessage,
    MaxAlterations  \* bound on how often a request is rewritten on the way to the API

Methods == {"GET", "POST", "PUT", "PATCH"}

Names == Fsp \cup {Switch, NoFsp}

Protected ==
    [source : Names, destination : Names, uri : Uris \cup {NoUri},
     method : Methods \cup {"absent"}, date : Dates \cup {NoDate}]

Signature == [key : Fsp \cup {Switch}, protected : Protected, body : Bodies \cup {ErrorBody}]

\* FSPs sign under their own names, and POST or PUT requests only.
FspMakes(s) ==
    /\ s.key \in Fsp
    /\ s.protected.source = s.key
    /\ s.protected.method \in {"POST", "PUT"}
    /\ s.body \in Bodies

ASSUME SignaturesAssumption ==
    /\ Switch \notin Fsp /\ NoFsp \notin Fsp /\ Switch # NoFsp
    /\ PublicKeys \subseteq Fsp
    /\ NoUri \notin Uris /\ NoDate \notin Dates
    /\ NoBody \notin Bodies /\ ErrorBody # NoBody
    /\ ServiceUri \in [Uris -> Uris]
    /\ UTCString \in [Dates -> Dates]
    /\ Transformed \in [Bodies -> Bodies]
    /\ Earlier \subseteq Signature
    /\ \A s \in Earlier : FspMakes(s)
    /\ NoSignature \notin Signature
    /\ MaxAlterations \in Nat

\* What becomes of a request: "forward", it is passed on; "fulfil", it is passed on to the
\* payer and the payee gets a PATCH; "associate", it is answered in the switch's name.
\* Without a body, so that no signature is looked at: "parties", it is passed on to the FSP
\* the switch has found; "participants" and "query", they are answered in its name.
Operations == {"forward", "fulfil", "associate", "parties", "participants", "query"}

Queries == {"parties", "participants", "query"}

Answered == {"associate", "participants", "query"}

Headers ==
    [source : Names, destination : Names, uri : Uris \cup {NoUri},
     method : Methods \cup {"absent"}, date : Dates \cup {NoDate},
     fspiopDate : Dates \cup {NoDate}, signature : Signature \cup {NoSignature}]

VARIABLES
    operation,   \* what the route makes of the request
    apiJws,      \* is JWS enabled in the API service?
    handlerJws,  \* and in the event handler service?
    sent,        \* the headers and
    body,        \* the body of the request as its FSP has made it
    headers,     \* its headers and
    payload,     \* its body on the way, at the API and in its event
    altered,     \* how often they have been rewritten on the way
    stage,       \* how far the request has come
    hdr,         \* the headers of the event handler's message object
    latest       \* the last request an FSP has received from the switch

given == <<operation, apiJws, handlerJws, sent, body>>
event == <<headers, payload>>
vars == <<given, event, altered, stage, hdr, latest>>

\* What the routes take as a body: an errorInformation comes with the rejections, which are
\* passed on, and can be the one of the feedback about them, whose code and description are
\* always the same and whose extensionList is that of the rejection.
BodiesTaken == IF operation = "forward" THEN Bodies ELSE Bodies \ {ErrorBody}

Stages == {"travelling", "refused", "published", "deliver", "patch", "feedback", "done"}

Kinds == {"forward", "answer", "patch", "feedback"}

Callback == [kind : Kinds, headers : Headers, body : Bodies \cup {ErrorBody}]

TypeOK ==
    /\ operation \in Operations
    /\ apiJws \in BOOLEAN
    /\ handlerJws \in BOOLEAN
    /\ sent \in Headers
    /\ body \in Bodies \cup {NoBody}
    /\ headers \in Headers
    /\ payload \in Bodies \cup {NoBody}
    /\ altered \in Nat
    /\ stage \in Stages
    /\ hdr \in Headers
    /\ latest \in Callback \cup {NoMessage}

-----------------------------------------------------------------------------
(* jws.ts.                                                                  *)

\* What getSignature protects.  It puts the date under a name that validate does not look at.
protectedHeader(h) ==
    [source |-> h.source, destination |-> h.destination, uri |-> h.uri,
     method |-> h.method, date |-> NoDate]

\* Variant: the URI is corrected in what is signed but not in the headers.
signLeavesUri(h, b) ==
    [h EXCEPT !.signature =
        [key |-> Switch, protected |-> protectedHeader([h EXCEPT !.uri = ServiceUri[h.uri]]),
         body |-> b]]

\* The headers sign leaves behind, with the signature it returns.
sign(h, b) ==
    LET changed == [h EXCEPT !.uri = ServiceUri[h.uri]]
    IN  [changed EXCEPT !.signature = [key |-> Switch, protected |-> protectedHeader(changed),
                                       body |-> b]]

\* It throws without a URI that names a resource.
signFails(h) == h.uri = NoUri

\* Variant: a destination is only compared when the request has one.
validateProtectedHeaderDestination(h, p) ==
    /\ p.uri # NoUri /\ p.uri = h.uri
    /\ p.method # "absent" /\ p.method = h.method
    /\ p.source = h.source
    /\ p.date # NoDate => p.date = h.date
    /\ h.destination # NoFsp => p.destination = h.destination

\* _validateProtectedHeader; a destination is in both or in neither.
validateProtectedHeader(h, p) ==
    /\ p.uri # NoUri /\ p.uri = h.uri
    /\ p.method # "absent" /\ p.method = h.method
    /\ p.source = h.source
    /\ p.date # NoDate => p.date = h.date
    /\ p.destination = h.destination

validate(h, b, keys) ==
    /\ b # NoBody
    /\ h.source \in keys
    /\ h.signature # NoSignature
    /\ h.signature.key = h.source
    /\ h.signature.body = b
    /\ validateProtectedHeader(h, h.signature.protected)

-----------------------------------------------------------------------------
(* The FSP and the way to the API.                                          *)

\* The date the API goes by.
DateOf(h) == IF h.fspiopDate # NoDate THEN h.fspiopDate ELSE h.date

\* An FSP protects what JWS asks for, and the date if it likes.
SignedBy(h, b, withDate) ==
    [h EXCEPT !.signature =
        [key |-> h.source,
         protected |-> [source |-> h.source, destination |-> h.destination, uri |-> h.uri,
                        method |-> h.method,
                        date |-> IF withDate THEN DateOf(h) ELSE NoDate],
         body |-> b]]

UnsignedHeaders(uris, methods) ==
    [source : Fsp, destination : Fsp \cup {NoFsp}, uri : uris, method : methods,
     date : Dates \cup {NoDate}, fspiopDate : Dates \cup {NoDate},
     signature : {NoSignature}]

\* What an FSP that signs sends with a body.
SignedHeaders(methods, b) ==
    {SignedBy(h, b, withDate) :
        h \in UnsignedHeaders(Uris, methods), withDate \in BOOLEAN}

Init ==
    /\ operation \in Operations
    /\ apiJws \in BOOLEAN
    /\ handlerJws \in BOOLEAN
    /\ IF operation \in Queries
       THEN /\ body = NoBody
            /\ sent \in UnsignedHeaders(Uris \cup {NoUri}, {"GET", "absent"})
       ELSE /\ body \in BodiesTaken
            /\ sent \in SignedHeaders(IF operation = "fulfil" THEN {"PUT"}
                                      ELSE {"POST", "PUT"}, body)
    /\ headers = sent
    /\ payload = body
    /\ altered = 0
    /\ stage = "travelling"
    /\ hdr = sent
    /\ latest = NoMessage

\* On the way a header or the body is rewritten, the signature lost or taken from another
\* request; the bodies of queries are not looked at.
Alter ==
    /\ stage = "travelling"
    /\ altered < MaxAlterations
    /\ altered' = altered + 1
    /\ \/ /\ \/ \E f \in Fsp \cup {NoFsp} : headers' = [headers EXCEPT !.source = f]
             \/ \E f \in Fsp \cup {NoFsp} : headers' = [headers EXCEPT !.destination = f]
             \/ \E u \in Uris \cup {NoUri} : headers' = [headers EXCEPT !.uri = u]
             \/ \E m \in Methods \cup {"absent"} : headers' = [headers EXCEPT !.method = m]
             \/ \E d \in Dates \cup {NoDate} : headers' = [headers EXCEPT !.date = d]
             \/ \E d \in Dates \cup {NoDate} : headers' = [headers EXCEPT !.fspiopDate = d]
             \/ \E s \in Earlier \cup {NoSignature} :
                    headers' = [headers EXCEPT !.signature = s]
          /\ UNCHANGED payload
       \/ /\ operation \notin Queries
          /\ payload' \in BodiesTaken
          /\ UNCHANGED headers
    /\ UNCHANGED <<given, stage, hdr, latest>>

-----------------------------------------------------------------------------
(* The API.                                                                 *)

\* Variant: the date of the admin UI is left where it is.
preHandlerKeepsDate(h) == h

\* "Temporary fix for admin-ui date header".
preHandler(h) == [h EXCEPT !.date = DateOf(h), !.fspiopDate = NoDate]

\* The handlers of POST and PUT verify, those of the others do not.
Verified == apiJws /\ operation \notin Queries

Arrive ==
    /\ stage = "travelling"
    /\ headers' = preHandler(headers)
    /\ stage' = IF Verified /\ ~validate(preHandler(headers), payload, PublicKeys)
                THEN "refused" ELSE "published"
    /\ UNCHANGED <<given, payload, altered, hdr, latest>>

-----------------------------------------------------------------------------
(* The event handler.                                                       *)

\* The event is parsed, for the first time or again after a restart.
Take ==
    /\ stage = "published"
    /\ hdr' = headers
    /\ stage' = "deliver"
    /\ UNCHANGED <<given, event, altered, latest>>

\* Variant: the method header stays what it is.
sendRequestKeepsMethod(h, method) ==
    [h EXCEPT !.date = IF @ = NoDate THEN NoDate ELSE UTCString[@]]

\* Variant: the URI is put in the form sign gives it.
sendRequestServiceUri(h, method) ==
    [h EXCEPT !.method = IF @ = "absent" THEN "absent" ELSE method,
              !.date = IF @ = NoDate THEN NoDate ELSE UTCString[@],
              !.uri = IF @ = NoUri THEN NoUri ELSE ServiceUri[@]]

\* The headers of a request that goes out: HeaderBuilder corrects a method that is there
\* and writes a date that is there anew.
sendRequest(h, method) ==
    [h EXCEPT !.method = IF @ = "absent" THEN "absent" ELSE method,
              !.date = IF @ = NoDate THEN NoDate ELSE UTCString[@]]

Receives(kind, h, method, b) ==
    latest' = [kind |-> kind, headers |-> sendRequest(h, method), body |-> b]

\* A request is passed on with the method it was made with.
Verb == IF operation = "parties" THEN "GET" ELSE sent.method

\* "NOTE: This is a query, so we have to switch headers"; those of the account lookup say
\* that they are a PUT now, the others leave that to sendRequest.
switched(h) ==
    [h EXCEPT !.destination = h.source, !.source = Switch,
              !.method = IF operation = "query" THEN @ ELSE "PUT"]

\* What the handler methods make of the headers before their request; only the account
\* lookup knows an FSP that the headers do not name.
Addressed(h) ==
    IF operation \in Answered THEN {switched(h)}
    ELSE IF operation = "parties" /\ h.destination = NoFsp
    THEN {[h EXCEPT !.destination = f] : f \in Fsp}
    ELSE {h}

BodiesSent == IF payload = NoBody THEN Bodies ELSE {Transformed[payload]}

\* The request to the FSP the event is for, answered or not.
Forward(answered) ==
    /\ stage = "deliver"
    /\ operation \notin Answered
    /\ hdr' \in Addressed(hdr)
    /\ \E b \in BodiesSent : Receives("forward", hdr', Verb, b)
    /\ stage' = IF ~answered THEN "feedback"
                ELSE IF operation = "fulfil" THEN "patch" ELSE "done"
    /\ UNCHANGED <<given, event, altered>>

\* The answer to the FSP that asked.
Answer(answered) ==
    /\ stage = "deliver"
    /\ operation \in Answered
    /\ hdr' \in Addressed(hdr)
    /\ \E b \in Bodies : Receives("answer", hdr', "PUT", b)
    /\ stage' = IF answered THEN "done" ELSE "feedback"
    /\ UNCHANGED <<given, event, altered>>

\* Variant: the signature is made of the headers the PUT went out with.
PatchSignedAsPut(answered) ==
    /\ stage = "patch"
    /\ handlerJws => ~signFails(hdr)
    /\ hdr' = IF handlerJws THEN sign(hdr, Transformed[payload]) ELSE hdr
    /\ Receives("patch", hdr', "PATCH", Transformed[payload])
    /\ stage' = IF answered THEN "done" ELSE "feedback"
    /\ UNCHANGED <<given, event, altered>>

\* notifyPayee: with JWS the message's own headers are signed anew.
Patch(answered) ==
    /\ stage = "patch"
    /\ handlerJws => ~signFails(hdr)
    /\ hdr' = IF handlerJws
              THEN sign([hdr EXCEPT !.method = "PATCH"], Transformed[payload]) ELSE hdr
    /\ Receives("patch", hdr', "PATCH", Transformed[payload])
    /\ stage' = IF answered THEN "done" ELSE "feedback"
    /\ UNCHANGED <<given, event, altered>>

\* There is no endpoint, no connection or no signature: nothing goes out.
Fails ==
    /\ \/ /\ stage = "deliver"
          /\ \/ hdr' \in Addressed(hdr)
             \/ operation = "parties" /\ hdr' = hdr
       \/ /\ stage = "patch"
          /\ LET h == [hdr EXCEPT !.method = "PATCH"]
             IN  hdr' = IF ~handlerJws THEN hdr
                        ELSE IF signFails(hdr) THEN h ELSE sign(h, Transformed[payload])
    /\ stage' = "feedback"
    /\ UNCHANGED <<given, event, altered, latest>>

\* The clone of the message's headers that feedback goes out under.
FeedbackHeaders ==
    LET h == IF hdr.destination = NoFsp THEN [hdr EXCEPT !.destination = hdr.source] ELSE hdr
    IN  IF handlerJws THEN sign([h EXCEPT !.method = "PUT"], ErrorBody) ELSE h

Feedback ==
    /\ stage = "feedback"
    /\ handlerJws => ~signFails(hdr)
    /\ Receives("feedback", FeedbackHeaders, "PUT", ErrorBody)
    /\ stage' = "done"
    /\ UNCHANGED <<given, event, altered, hdr>>

\* It is left to the operator.
FeedbackFails ==
    /\ stage = "feedback"
    /\ stage' = "done"
    /\ UNCHANGED <<given, event, altered, hdr, latest>>

\* The process ends before the event is committed and reads it again.
Redeliver ==
    /\ stage \in {"deliver", "patch", "feedback", "done"}
    /\ stage' = "published"
    /\ UNCHANGED <<given, event, altered, hdr, latest>>

-----------------------------------------------------------------------------
Next ==
    \/ Alter
    \/ Arrive
    \/ Take
    \/ \E answered \in BOOLEAN : Forward(answered) \/ Answer(answered) \/ Patch(answered)
    \/ Fails
    \/ Feedback
    \/ FeedbackFails
    \/ Redeliver

Spec == Init /\ [][Next]_vars

-----------------------------------------------------------------------------
(* What the signature is worth.                                             *)

\* The signatures FSPs have made.
Made == Earlier \cup ({sent.signature} \ {NoSignature})

\* What is published under JWS is what the FSP it names has signed: whatever was rewritten
\* on the way, and though the API itself replaces the date, source, destination, URI, method
\* and body are those of one signature of that FSP.
AcceptedAsSigned ==
    (stage \notin {"travelling", "refused"} /\ Verified) =>
        \E s \in Made :
            /\ s.key = headers.source
            /\ s.protected.source = headers.source
            /\ s.protected.destination = headers.destination
            /\ s.protected.uri = headers.uri
            /\ s.protected.method = headers.method
            /\ s.protected.date \in {NoDate, headers.date}
            /\ s.body = payload

\* A signed request that nobody has touched is not refused, whether it has a destination,
\* protects its date, or brings its date as the admin UI does.
UnalteredAccepted ==
    (altered = 0 /\ sent.source \in PublicKeys) => stage # "refused"

\* An FSP can verify what is passed on to it as the API could, if its sender had written
\* the body and the date as the switch writes them: no retry, PATCH or feedback before it
\* has left a trace in the headers.
ForwardedVerifies ==
    (/\ latest # NoMessage /\ latest.kind = "forward"
     /\ Verified
     /\ headers.method = Verb
     /\ Transformed[payload] = payload
     /\ headers.date # NoDate => UTCString[headers.date] = headers.date) =>
        validate(latest.headers, latest.body, PublicKeys)

\* With JWS the switch signs exactly what it sends: sign() changes the headers it is given,
\* sendRequest changes them again, and they agree in the end.
SwitchSignsWhatItSends ==
    (latest # NoMessage /\ latest.kind \in {"patch", "feedback"} /\ handlerJws) =>
        latest.headers.signature =
            [key |-> Switch, protected |-> protectedHeader(latest.headers),
             body |-> latest.body]

\* A request the switch makes itself does not pass for one its source has signed, also when
\* JWS is disabled in the event handler and it passes the request's signature on.  The one
\* exception is feedback without JWS about a rejection with the same errorInformation.
OwnRequestsPassForNobodys ==
    (/\ latest # NoMessage /\ latest.kind # "forward"
     /\ validate(latest.headers, latest.body, PublicKeys)) =>
        /\ latest.kind = "feedback"
        /\ ~handlerJws
        /\ Verified => operation = "forward" /\ payload = latest.body

-----------------------------------------------------------------------------
(* The inductive invariant.                                                 *)

\* What the FSP has sent would be accepted as it is.
SentInv ==
    /\ sent.signature # NoSignature => FspMakes(sent.signature)
    /\ operation \notin Queries => validate(preHandler(sent), body, {sent.source})

\* Until it arrives, what nobody has touched is what was sent; after that its event is what
\* the API has verified.
EventInv ==
    /\ headers.signature \in Made \cup {NoSignature}
    /\ operation \notin Queries => payload \in BodiesTaken
    /\ stage = "travelling" =>
           /\ latest = NoMessage
           /\ altered = 0 => headers = sent /\ payload = body
    /\ (stage \notin {"travelling", "refused"} /\ Verified) =>
           validate(headers, payload, PublicKeys)

\* The message object has the headers of the event until the handler changes them, and the
\* signature of the event as long as the handler makes none.
HdrInv ==
    /\ stage \in {"deliver", "patch"} => hdr = headers
    /\ stage = "patch" => operation = "fulfil"
    /\ (stage \in {"deliver", "patch", "feedback", "done"} /\ ~handlerJws) =>
           hdr.signature = headers.signature

IInv ==
    /\ TypeOK
    /\ SentInv
    /\ EventInv
    /\ HdrInv
    /\ UnalteredAccepted
    /\ ForwardedVerifies
    /\ SwitchSignsWhatItSends
    /\ OwnRequestsPassForNobodys
=============================================================================
