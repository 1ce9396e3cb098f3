----------------------- MODULE FspiopSignaturesProofs -----------------------
(***************************************************************************)
(* Proofs about FspiopSignatures, for any FSPs, keys, URIs, dates and      *)
(* bodies, whatever the transformers and sign() make of the latter, and    *)
(* any number of alterations and redeliveries.                             *)
(***************************************************************************)
EXTENDS FspiopSignatures, TLAPS

-----------------------------------------------------------------------------
(* The operators on headers.                                                *)

\* The date fix of the API gives headers, and changes nothing but the dates.
LEMMA PreHandled ==
    ASSUME NEW h \in Headers
    PROVE  /\ preHandler(h) \in Headers
           /\ preHandler(h).signature = h.signature
           /\ preHandler(h).source = h.source
           /\ preHandler(h).date = DateOf(h)
  BY DEF preHandler, DateOf, Headers

\* What sign returns is the switch's signature of the headers it leaves behind.
LEMMA Signed ==
    ASSUME NEW h \in Headers, h.uri # NoUri, NEW b \in Bodies \cup {ErrorBody}
    PROVE  /\ sign(h, b) \in Headers
           /\ sign(h, b).method = h.method
           /\ sign(h, b).date = h.date
           /\ sign(h, b).signature =
                  [key |-> Switch, protected |-> protectedHeader(sign(h, b)), body |-> b]
  <1>. DEFINE changed == [h EXCEPT !.uri = ServiceUri[h.uri]]
              s == [key |-> Switch, protected |-> protectedHeader(changed), body |-> b]
  <1>1. /\ h.uri \in Uris
        /\ ServiceUri[h.uri] \in Uris
    BY SignaturesAssumption DEF Headers
  <1>2. changed \in Headers
    BY <1>1 DEF Headers
  <1>3. protectedHeader(changed) \in Protected
    BY <1>2 DEF protectedHeader, Protected, Headers
  <1>4. s \in Signature
    BY <1>3 DEF Signature
  <1>5. sign(h, b) = [changed EXCEPT !.signature = s]
    BY DEF sign
  <1>6. /\ sign(h, b) \in Headers
        /\ sign(h, b).signature = s
        /\ sign(h, b).method = changed.method
        /\ sign(h, b).date = changed.date
        /\ protectedHeader(sign(h, b)) = protectedHeader(changed)
    BY <1>2, <1>4, <1>5 DEF Headers, protectedHeader
  <1>7. /\ changed.method = h.method
        /\ changed.date = h.date
    BY DEF Headers
  <1>. QED
    BY <1>6, <1>7

\* sendRequest writes the method and the date, if they are there, and nothing else.
LEMMA Sending ==
    ASSUME NEW h \in Headers, NEW m \in Methods
    PROVE  /\ sendRequest(h, m) \in Headers
           /\ sendRequest(h, m).method = IF h.method = "absent" THEN "absent" ELSE m
           /\ sendRequest(h, m).signature = h.signature
           /\ sendRequest(h, m).source = h.source
           /\ sendRequest(h, m).destination = h.destination
           /\ sendRequest(h, m).uri = h.uri
  BY SignaturesAssumption DEF sendRequest, Headers

\* What the handler methods make of headers is headers, and keeps the signature.
LEMMA AddressedType ==
    ASSUME NEW h \in Headers, NEW g \in Addressed(h)
    PROVE  /\ g \in Headers
           /\ g.signature = h.signature
           /\ operation \in Answered => g.source = Switch
           /\ operation \notin Queries \cup Answered => g = h
  <1>1. /\ switched(h) \in Headers
        /\ switched(h).signature = h.signature
        /\ switched(h).source = Switch
    BY DEF switched, Headers, Names, Methods
  <1>2. ASSUME NEW f \in Fsp
        PROVE  /\ [h EXCEPT !.destination = f] \in Headers
               /\ [h EXCEPT !.destination = f].signature = h.signature
    BY DEF Headers, Names
  <1>. QED
    BY <1>1, <1>2 DEF Addressed, Queries, Answered

\* The signatures there are have been made by FSPs.
LEMMA MadeByFsps ==
    ASSUME SentInv, NEW s \in Made
    PROVE  FspMakes(s)
  BY SignaturesAssumption DEF SentInv, Made

-----------------------------------------------------------------------------
(* What an FSP sends.                                                       *)

\* A signed request would be accepted as it is.
LEMMA SentVerifies ==
    ASSUME NEW methods \in SUBSET {"POST", "PUT"}, NEW b \in Bodies,
           NEW h \in UnsignedHeaders(Uris, methods), NEW withDate \in BOOLEAN
    PROVE  LET signed == SignedBy(h, b, withDate)
           IN  /\ signed \in Headers
               /\ signed.signature # NoSignature
               /\ FspMakes(signed.signature)
               /\ validate(preHandler(signed), b, {signed.source})
  <1>. DEFINE d == IF withDate THEN DateOf(h) ELSE NoDate
              p == [source |-> h.source, destination |-> h.destination, uri |-> h.uri,
                    method |-> h.method, date |-> d]
              s == [key |-> h.source, protected |-> p, body |-> b]
              signed == SignedBy(h, b, withDate)
  <1>1. /\ h \in Headers
        /\ h.source \in Fsp
        /\ h.method \in {"POST", "PUT"}
        /\ h.uri \in Uris
    BY DEF UnsignedHeaders, Headers, Names, Methods
  <1>2. /\ DateOf(h) \in Dates \cup {NoDate}
        /\ p.source = h.source
        /\ p.destination = h.destination
        /\ p.uri = h.uri
        /\ p.method = h.method
        /\ p.date \in {NoDate, DateOf(h)}
        /\ p \in Protected
    BY <1>1 DEF DateOf, Headers, Protected
  <1>3. /\ s \in Signature
        /\ FspMakes(s)
    BY <1>1, <1>2 DEF Signature, FspMakes
  <1>4. signed = [h EXCEPT !.signature = s]
    BY DEF SignedBy
  <1>5. /\ signed \in Headers
        /\ signed.signature = s
        /\ signed.source = h.source
        /\ signed.destination = h.destination
        /\ signed.uri = h.uri
        /\ signed.method = h.method
        /\ DateOf(signed) = DateOf(h)
    BY <1>1, <1>3, <1>4 DEF Headers, DateOf
  <1>6. s # NoSignature
    BY <1>3, SignaturesAssumption
  <1>. DEFINE arrived == preHandler(signed)
  <1>7. /\ arrived.signature = s
        /\ arrived.source = h.source
        /\ arrived.destination = h.destination
        /\ arrived.uri = h.uri
        /\ arrived.method = h.method
        /\ arrived.date = DateOf(h)
    BY <1>5 DEF preHandler, Headers
  <1>8. validateProtectedHeader(arrived, p)
    BY <1>1, <1>2, <1>7, SignaturesAssumption DEF validateProtectedHeader
  <1>9. validate(arrived, b, {signed.source})
    BY <1>5, <1>6, <1>7, <1>8, SignaturesAssumption DEF validate
  <1>. QED
    BY <1>3, <1>5, <1>6, <1>9

\* The initial states satisfy IInv.
LEMMA InitInv == Init => IInv
  <1>. SUFFICES ASSUME Init PROVE IInv
    OBVIOUS
  <1>1. CASE operation \in Queries
    <2>1. /\ sent \in Headers
          /\ body = NoBody
          /\ sent.signature = NoSignature
      BY <1>1 DEF Init, UnsignedHeaders, Headers, Names, Methods
    <2>. QED
      BY <1>1, <2>1 DEF Init, IInv, TypeOK, SentInv, EventInv, HdrInv, UnalteredAccepted,
                        ForwardedVerifies, SwitchSignsWhatItSends,
                        OwnRequestsPassForNobodys, Stages, Made
  <1>2. CASE operation \notin Queries
    <2>. DEFINE methods == IF operation = "fulfil" THEN {"PUT"} ELSE {"POST", "PUT"}
    <2>1. /\ body \in BodiesTaken
          /\ body \in Bodies
          /\ sent \in SignedHeaders(methods, body)
      BY <1>2 DEF Init, BodiesTaken
    <2>2. PICK h \in UnsignedHeaders(Uris, methods), withDate \in BOOLEAN :
               sent = SignedBy(h, body, withDate)
      BY <2>1 DEF SignedHeaders
    <2>3. methods \in SUBSET {"POST", "PUT"}
      OBVIOUS
    <2>. HIDE DEF methods
    <2>4. /\ sent \in Headers
          /\ sent.signature # NoSignature
          /\ FspMakes(sent.signature)
          /\ validate(preHandler(sent), body, {sent.source})
      BY <2>1, <2>2, <2>3, SentVerifies
    <2>. QED
      BY <1>2, <2>1, <2>4 DEF Init, IInv, TypeOK, SentInv, EventInv, HdrInv,
                        UnalteredAccepted, ForwardedVerifies, SwitchSignsWhatItSends,
                        OwnRequestsPassForNobodys, Stages, Made
  <1>. QED
    BY <1>1, <1>2

-----------------------------------------------------------------------------
(* On the way to the API, and at it.                                        *)

\* Nothing about the request itself ever changes.
LEMMA SentStays == SentInv /\ UNCHANGED given => SentInv'
  BY DEF given, SentInv, validate, validateProtectedHeader, preHandler, DateOf, FspMakes

\* Alter keeps IInv.
LEMMA AlterKeeps == IInv /\ Alter => IInv'
  <1>. SUFFICES ASSUME IInv, Alter PROVE IInv'
    OBVIOUS
  <1>1. /\ stage = "travelling" /\ UNCHANGED <<given, stage, hdr, latest>>
        /\ altered \in Nat /\ altered' = altered + 1
        /\ latest = NoMessage
    BY DEF IInv, TypeOK, EventInv, Alter
  <1>2. /\ headers' \in Headers
        /\ headers'.signature \in Made \cup {NoSignature}
    <2>1. /\ headers \in Headers
          /\ headers.signature \in Made \cup {NoSignature}
          /\ \A s \in Earlier : s \in Signature /\ s \in Made
      BY SignaturesAssumption DEF IInv, TypeOK, EventInv, Made
    <2>. QED
      BY <2>1 DEF Alter, Headers, Names
  <1>3. /\ payload' \in Bodies \cup {NoBody}
        /\ operation \notin Queries => payload' \in BodiesTaken
    BY DEF IInv, TypeOK, EventInv, Alter, BodiesTaken
  <1>4. TypeOK'
    BY <1>1, <1>2, <1>3 DEF IInv, TypeOK, given
  <1>5. SentInv'
    BY <1>1, SentStays DEF IInv
  <1>6. EventInv'
    BY <1>1, <1>2, <1>3 DEF EventInv, given, Made, BodiesTaken
  <1>7. HdrInv' /\ UnalteredAccepted'
    BY <1>1 DEF IInv, HdrInv, UnalteredAccepted, given, Made
  <1>8. ForwardedVerifies' /\ SwitchSignsWhatItSends' /\ OwnRequestsPassForNobodys'
    BY <1>1 DEF ForwardedVerifies, SwitchSignsWhatItSends, OwnRequestsPassForNobodys
  <1>. QED
    BY <1>4, <1>5, <1>6, <1>7, <1>8 DEF IInv

\* What verifies with the sender's own key verifies with all that are known.
LEMMA MoreKeys ==
    ASSUME NEW h, NEW b, NEW k \in PublicKeys, validate(h, b, {k})
    PROVE  validate(h, b, PublicKeys)
  BY DEF validate

\* Arrive keeps IInv.
LEMMA ArriveKeeps == IInv /\ Arrive => IInv'
  <1>. SUFFICES ASSUME IInv, Arrive PROVE IInv'
    OBVIOUS
  <1>1. /\ stage = "travelling" /\ UNCHANGED <<given, payload, altered, hdr, latest>>
        /\ headers' = preHandler(headers)
        /\ stage' \in {"refused", "published"}
        /\ stage' = "published" /\ Verified => validate(headers', payload, PublicKeys)
        /\ stage' = "refused" =>
               Verified /\ ~validate(preHandler(headers), payload, PublicKeys)
        /\ headers \in Headers
        /\ latest = NoMessage
    BY DEF IInv, TypeOK, EventInv, Arrive
  <1>2. /\ headers' \in Headers
        /\ headers'.signature = headers.signature
    BY <1>1, PreHandled
  <1>3. TypeOK'
    BY <1>1, <1>2 DEF IInv, TypeOK, given, Stages
  <1>4. SentInv'
    BY <1>1, SentStays DEF IInv
  <1>5. EventInv'
    BY <1>1, <1>2 DEF IInv, EventInv, given, Made, BodiesTaken, Verified, validate,
                      validateProtectedHeader
  <1>6. HdrInv'
    BY <1>1 DEF IInv, HdrInv, given
  <1>7. UnalteredAccepted'
    <2>. SUFFICES ASSUME altered = 0, sent.source \in PublicKeys, stage' = "refused"
                  PROVE  FALSE
      BY <1>1 DEF UnalteredAccepted, given
    <2>1. headers = sent /\ payload = body /\ operation \notin Queries
      BY <1>1 DEF IInv, EventInv, Verified
    <2>2. validate(preHandler(headers), payload, {sent.source})
      BY <2>1 DEF IInv, SentInv
    <2>. QED
      BY <1>1, <2>2, MoreKeys
  <1>8. ForwardedVerifies' /\ SwitchSignsWhatItSends' /\ OwnRequestsPassForNobodys'
    BY <1>1 DEF ForwardedVerifies, SwitchSignsWhatItSends, OwnRequestsPassForNobodys
  <1>. QED
    BY <1>3, <1>4, <1>5, <1>6, <1>7, <1>8 DEF IInv

-----------------------------------------------------------------------------
(* The event handler.                                                       *)

\* The steps of the handler: the event and the request stay.
Handled ==
    /\ stage \in {"published", "deliver", "patch", "feedback", "done"}
    /\ stage' \in {"published", "deliver", "patch", "feedback", "done"}
    /\ UNCHANGED <<given, event, altered>>

\* The end of the request changes neither what was sent nor what was published.
LEMMA HandledKeeps ==
    IInv /\ Handled => SentInv' /\ EventInv' /\ UnalteredAccepted'
  <1>. SUFFICES ASSUME IInv, Handled PROVE SentInv' /\ EventInv' /\ UnalteredAccepted'
    OBVIOUS
  <1>1. SentInv'
    BY SentStays DEF IInv, Handled
  <1>2. EventInv'
    BY DEF IInv, EventInv, Handled, given, event, Made, BodiesTaken, Verified, validate,
           validateProtectedHeader
  <1>3. UnalteredAccepted'
    BY DEF Handled, UnalteredAccepted
  <1>. QED
    BY <1>1, <1>2, <1>3

\* When no request goes out there is nothing new to be said of the last one.
LEMMA SilentKeeps ==
    IInv /\ Handled /\ latest' = latest =>
        ForwardedVerifies' /\ SwitchSignsWhatItSends' /\ OwnRequestsPassForNobodys'
  BY DEF IInv, Handled, ForwardedVerifies, SwitchSignsWhatItSends,
         OwnRequestsPassForNobodys, given, event, Verified, Verb, validate,
         validateProtectedHeader, protectedHeader

\* Take keeps IInv.
LEMMA TakeKeeps == IInv /\ Take => IInv'
  <1>. SUFFICES ASSUME IInv, Take PROVE IInv'
    OBVIOUS
  <1>1. Handled /\ latest' = latest /\ hdr' = headers /\ stage' = "deliver"
    BY DEF Take, Handled
  <1>2. TypeOK'
    BY <1>1 DEF IInv, TypeOK, Handled, given, event, Stages
  <1>3. HdrInv'
    BY <1>1 DEF IInv, HdrInv, EventInv, Handled, given, event
  <1>. QED
    BY <1>1, <1>2, <1>3, HandledKeeps, SilentKeeps DEF IInv

\* FeedbackFails keeps IInv.
LEMMA FeedbackFailsKeeps == IInv /\ FeedbackFails => IInv'
  <1>. SUFFICES ASSUME IInv, FeedbackFails PROVE IInv'
    OBVIOUS
  <1>1. Handled /\ latest' = latest /\ hdr' = hdr /\ stage' = "done"
    BY DEF FeedbackFails, Handled
  <1>2. TypeOK' /\ HdrInv'
    BY <1>1 DEF IInv, TypeOK, HdrInv, Handled, given, event, Stages, FeedbackFails
  <1>. QED
    BY <1>1, <1>2, HandledKeeps, SilentKeeps DEF IInv

\* Redeliver keeps IInv.
LEMMA RedeliverKeeps == IInv /\ Redeliver => IInv'
  <1>. SUFFICES ASSUME IInv, Redeliver PROVE IInv'
    OBVIOUS
  <1>1. Handled /\ latest' = latest /\ hdr' = hdr /\ stage' = "published"
    BY DEF Redeliver, Handled
  <1>2. TypeOK' /\ HdrInv'
    BY <1>1 DEF IInv, TypeOK, HdrInv, Handled, given, event, Stages
  <1>. QED
    BY <1>1, <1>2, HandledKeeps, SilentKeeps DEF IInv

\* An event with a body, and what the handler makes of it for the FSPs.
LEMMA EventBody ==
    ASSUME IInv, operation \notin Queries
    PROVE  /\ payload \in Bodies
           /\ Transformed[payload] \in Bodies
           /\ BodiesSent = {Transformed[payload]}
  BY SignaturesAssumption DEF IInv, EventInv, BodiesTaken, BodiesSent

\* A body that is sent is a body.
LEMMA SentBody ==
    ASSUME IInv, NEW b \in BodiesSent
    PROVE  b \in Bodies
  BY SignaturesAssumption DEF IInv, TypeOK, BodiesSent

\* The headers the PATCH is left with.
LEMMA Repatched ==
    ASSUME IInv, stage = "patch", handlerJws, hdr.uri # NoUri
    PROVE  LET h == sign([hdr EXCEPT !.method = "PATCH"], Transformed[payload])
           IN  /\ h \in Headers
               /\ h.method = "PATCH"
               /\ h.signature = [key |-> Switch, protected |-> protectedHeader(h),
                                 body |-> Transformed[payload]]
  <1>1. Transformed[payload] \in Bodies \cup {ErrorBody}
    BY EventBody DEF IInv, HdrInv, Queries
  <1>2. /\ [hdr EXCEPT !.method = "PATCH"] \in Headers
        /\ [hdr EXCEPT !.method = "PATCH"].method = "PATCH"
        /\ [hdr EXCEPT !.method = "PATCH"].uri # NoUri
    BY DEF IInv, TypeOK, Headers, Methods
  <1>. QED
    BY <1>1, <1>2, Signed

\* Fails keeps IInv.
LEMMA FailsKeeps == IInv /\ Fails => IInv'
  <1>. SUFFICES ASSUME IInv, Fails PROVE IInv'
    OBVIOUS
  <1>1. /\ Handled /\ latest' = latest /\ stage' = "feedback"
        /\ stage \in {"deliver", "patch"}
    BY DEF Fails, Handled
  <1>2. /\ hdr' \in Headers
        /\ ~handlerJws => hdr'.signature = hdr.signature
    <2>0. hdr \in Headers
      BY DEF IInv, TypeOK
    <2>1. CASE stage = "deliver"
      <3>1. hdr' \in Addressed(hdr) \/ hdr' = hdr
        BY <2>1 DEF Fails
      <3>. QED
        BY <2>0, <3>1, AddressedType
    <2>2. CASE stage = "patch" /\ ~handlerJws
      BY <2>0, <2>2 DEF Fails
    <2>3. CASE stage = "patch" /\ handlerJws /\ signFails(hdr)
      <3>1. hdr' = [hdr EXCEPT !.method = "PATCH"]
        BY <2>3 DEF Fails
      <3>. QED
        BY <2>0, <2>3, <3>1 DEF Headers, Methods
    <2>4. CASE stage = "patch" /\ handlerJws /\ ~signFails(hdr)
      <3>1. hdr' = sign([hdr EXCEPT !.method = "PATCH"], Transformed[payload])
        BY <2>4 DEF Fails
      <3>. QED
        BY <2>4, <3>1, Repatched DEF signFails
    <2>. QED
      BY <2>1, <2>2, <2>3, <2>4 DEF Fails
  <1>3. TypeOK'
    BY <1>1, <1>2 DEF IInv, TypeOK, Handled, given, event, Stages
  <1>4. HdrInv'
    BY <1>1, <1>2 DEF IInv, HdrInv, Handled, given, event
  <1>. QED
    BY <1>1, <1>3, <1>4, HandledKeeps, SilentKeeps DEF IInv

\* What has verified at the API verifies at the FSP, if sendRequest changes nothing.
LEMMA Unchanged ==
    ASSUME NEW h \in Headers, NEW m \in Methods,
           h.method = m,
           h.date # NoDate => UTCString[h.date] = h.date
    PROVE  sendRequest(h, m) = h
  BY SignaturesAssumption DEF sendRequest, Headers, Methods

\* Forward keeps IInv.
LEMMA ForwardKeeps ==
    ASSUME IInv, NEW answered \in BOOLEAN, Forward(answered)
    PROVE  IInv'
  <1>1. PICK b \in BodiesSent : Receives("forward", hdr', Verb, b)
    BY DEF Forward
  <1>2. /\ Handled
        /\ hdr' \in Addressed(hdr)
        /\ stage' \in {"feedback", "patch", "done"}
        /\ stage' = "patch" => operation = "fulfil"
        /\ operation \notin Answered
        /\ stage = "deliver"
    BY DEF Forward, Handled
  <1>3. /\ hdr \in Headers
        /\ hdr' \in Headers
        /\ hdr'.signature = hdr.signature
        /\ operation \notin Queries => hdr' = hdr
        /\ hdr = headers
    BY <1>2, AddressedType DEF IInv, TypeOK, HdrInv
  <1>4. Verb \in Methods
    <2>1. CASE operation \in Queries
      BY <2>1, <1>2 DEF Verb, Queries, Answered, Methods
    <2>2. CASE operation \notin Queries
      <3>1. validate(preHandler(sent), body, {sent.source}) /\ sent \in Headers
        BY <2>2 DEF IInv, SentInv, TypeOK
      <3>2. sent.method # "absent"
        BY <3>1 DEF validate, validateProtectedHeader, preHandler, Headers
      <3>. QED
        BY <2>2, <3>1, <3>2 DEF Verb, Queries, Headers
    <2>. QED
      BY <2>1, <2>2
  <1>5. latest' = [kind |-> "forward", headers |-> sendRequest(hdr', Verb), body |-> b]
    BY <1>1 DEF Receives
  <1>6. TypeOK'
    <2>1. latest' \in Callback
      BY <1>3, <1>4, <1>5, Sending, SentBody DEF Callback, Kinds
    <2>. QED
      BY <1>2, <1>3, <2>1 DEF IInv, TypeOK, Handled, given, event, Stages
  <1>7. HdrInv'
    BY <1>2, <1>3 DEF IInv, HdrInv, Handled, given, event, Queries
  <1>8. ForwardedVerifies'
    <2>. SUFFICES ASSUME Verified, headers.method = Verb, Transformed[payload] = payload,
                         headers.date # NoDate => UTCString[headers.date] = headers.date
                  PROVE  validate(latest'.headers, latest'.body, PublicKeys)
      BY <1>2 DEF ForwardedVerifies, Handled, given, event, Verified, Verb, validate,
                  validateProtectedHeader
    <2>1. operation \notin Queries
      BY DEF Verified
    <2>2. sendRequest(hdr', Verb) = headers
      BY <1>3, <1>4, <2>1, Unchanged
    <2>3. b = payload
      BY <2>1, EventBody
    <2>4. validate(headers, payload, PublicKeys)
      BY <1>2 DEF IInv, EventInv
    <2>. QED
      BY <1>5, <2>2, <2>3, <2>4
  <1>9. SwitchSignsWhatItSends' /\ OwnRequestsPassForNobodys'
    BY <1>5 DEF SwitchSignsWhatItSends, OwnRequestsPassForNobodys
  <1>. QED
    BY <1>2, <1>6, <1>7, <1>8, <1>9, HandledKeeps DEF IInv

\* Answer keeps IInv.
LEMMA AnswerKeeps ==
    ASSUME IInv, NEW answered \in BOOLEAN, Answer(answered)
    PROVE  IInv'
  <1>1. PICK b \in Bodies : Receives("answer", hdr', "PUT", b)
    BY DEF Answer
  <1>2. /\ Handled
        /\ hdr' \in Addressed(hdr)
        /\ operation \in Answered
        /\ stage' \in {"feedback", "done"}
    BY DEF Answer, Handled
  <1>3. /\ hdr' \in Headers
        /\ hdr'.signature = hdr.signature
        /\ hdr'.source = Switch
    BY <1>2, AddressedType DEF IInv, TypeOK
  <1>4. latest' = [kind |-> "answer", headers |-> sendRequest(hdr', "PUT"), body |-> b]
    BY <1>1 DEF Receives
  <1>5. /\ sendRequest(hdr', "PUT") \in Headers
        /\ sendRequest(hdr', "PUT").source = Switch
    BY <1>3, Sending DEF Methods
  <1>6. TypeOK'
    <2>1. latest' \in Callback
      BY <1>4, <1>5 DEF Callback, Kinds
    <2>. QED
      BY <1>2, <1>3, <2>1 DEF IInv, TypeOK, Handled, given, event, Stages
  <1>7. HdrInv'
    BY <1>2, <1>3 DEF IInv, HdrInv, Handled, given, event, Answer
  <1>8. ForwardedVerifies' /\ SwitchSignsWhatItSends'
    BY <1>4 DEF ForwardedVerifies, SwitchSignsWhatItSends
  <1>9. OwnRequestsPassForNobodys'
    BY <1>4, <1>5, SignaturesAssumption DEF OwnRequestsPassForNobodys, validate
  <1>. QED
    BY <1>2, <1>6, <1>7, <1>8, <1>9, HandledKeeps DEF IInv

\* What the switch has signed and sends with the method it has signed is what it has signed,
\* and nobody's key but its own verifies it.
LEMMA SignedBySwitch ==
    ASSUME NEW h \in Headers, NEW m \in Methods, NEW b,
           h.method = m,
           h.signature = [key |-> Switch, protected |-> protectedHeader(h), body |-> b]
    PROVE  LET r == sendRequest(h, m)
           IN  /\ r.signature = [key |-> Switch, protected |-> protectedHeader(r), body |-> b]
               /\ ~validate(r, b, PublicKeys)
  <1>. DEFINE r == sendRequest(h, m)
  <1>1. /\ r.method = m
        /\ r.signature = h.signature
        /\ r.source = h.source
        /\ r.destination = h.destination
        /\ r.uri = h.uri
    BY Sending DEF Methods
  <1>2. protectedHeader(r) = protectedHeader(h)
    BY <1>1 DEF protectedHeader
  <1>3. r.signature.key = Switch
    BY <1>1
  <1>4. ~validate(r, b, PublicKeys)
    BY <1>3, SignaturesAssumption DEF validate
  <1>. QED
    BY <1>1, <1>2, <1>4

\* An FSP has signed no PATCH.
LEMMA NoPatchSigned ==
    ASSUME IInv, NEW h \in Headers, NEW b, h.signature \in Made \cup {NoSignature}
    PROVE  ~validate(sendRequest(h, "PATCH"), b, PublicKeys)
  <1>. DEFINE r == sendRequest(h, "PATCH")
  <1>. SUFFICES ASSUME validate(r, b, PublicKeys) PROVE FALSE
    OBVIOUS
  <1>1. /\ r.method \in {"absent", "PATCH"}
        /\ r.signature = h.signature
    BY Sending DEF Methods
  <1>2. /\ h.signature \in Made
        /\ h.signature.protected.method = "PATCH"
    BY <1>1 DEF validate, validateProtectedHeader
  <1>3. FspMakes(h.signature)
    BY <1>2, MadeByFsps DEF IInv
  <1>. QED
    BY <1>2, <1>3 DEF FspMakes

\* Patch keeps IInv.
LEMMA PatchKeeps ==
    ASSUME IInv, NEW answered \in BOOLEAN, Patch(answered)
    PROVE  IInv'
  <1>. DEFINE b == Transformed[payload]
  <1>1. /\ Handled
        /\ stage = "patch"
        /\ stage' \in {"feedback", "done"}
        /\ operation = "fulfil"
        /\ b \in Bodies
    BY EventBody DEF IInv, HdrInv, Patch, Handled, Queries
  <1>2. latest' = [kind |-> "patch", headers |-> sendRequest(hdr', "PATCH"), body |-> b]
    BY DEF Patch, Receives
  <1>3. CASE handlerJws
    <2>1. /\ hdr' = sign([hdr EXCEPT !.method = "PATCH"], b)
          /\ hdr.uri # NoUri
      BY <1>3 DEF Patch, signFails
    <2>2. /\ hdr' \in Headers
          /\ hdr'.method = "PATCH"
          /\ hdr'.signature = [key |-> Switch, protected |-> protectedHeader(hdr'), body |-> b]
      BY <1>1, <1>3, <2>1, Repatched
    <2>3. /\ sendRequest(hdr', "PATCH") \in Headers
          /\ sendRequest(hdr', "PATCH").signature =
                 [key |-> Switch, protected |-> protectedHeader(sendRequest(hdr', "PATCH")),
                  body |-> b]
          /\ ~validate(sendRequest(hdr', "PATCH"), b, PublicKeys)
      BY <2>2, Sending, SignedBySwitch DEF Methods
    <2>4. TypeOK'
      BY <1>1, <1>2, <2>2, <2>3
         DEF IInv, TypeOK, Handled, given, event, Stages, Callback, Kinds
    <2>5. HdrInv'
      BY <1>1, <1>3 DEF HdrInv, Handled, given
    <2>6. ForwardedVerifies' /\ SwitchSignsWhatItSends' /\ OwnRequestsPassForNobodys'
      BY <1>2, <2>3 DEF ForwardedVerifies, SwitchSignsWhatItSends,
                        OwnRequestsPassForNobodys, protectedHeader
    <2>. QED
      BY <1>1, <2>4, <2>5, <2>6, HandledKeeps DEF IInv
  <1>4. CASE ~handlerJws
    <2>1. /\ hdr' = hdr
          /\ hdr \in Headers
          /\ hdr.signature = headers.signature
          /\ hdr.signature \in Made \cup {NoSignature}
      BY <1>1, <1>4 DEF Patch, IInv, TypeOK, EventInv, HdrInv
    <2>2. /\ sendRequest(hdr', "PATCH") \in Headers
          /\ ~validate(sendRequest(hdr', "PATCH"), b, PublicKeys)
      BY <2>1, Sending, NoPatchSigned DEF Methods
    <2>3. TypeOK'
      BY <1>1, <1>2, <2>1, <2>2
         DEF IInv, TypeOK, Handled, given, event, Stages, Callback, Kinds
    <2>4. HdrInv'
      BY <1>1, <2>1 DEF HdrInv, Handled, given, event
    <2>5. ForwardedVerifies' /\ SwitchSignsWhatItSends' /\ OwnRequestsPassForNobodys'
      BY <1>1, <1>2, <1>4, <2>2 DEF ForwardedVerifies, SwitchSignsWhatItSends,
                        OwnRequestsPassForNobodys, Handled, given
    <2>. QED
      BY <1>1, <2>3, <2>4, <2>5, HandledKeeps DEF IInv
  <1>. QED
    BY <1>3, <1>4

\* Feedback keeps IInv.
LEMMA FeedbackKeeps == IInv /\ Feedback => IInv'
  <1>. SUFFICES ASSUME IInv, Feedback PROVE IInv'
    OBVIOUS
  <1>. DEFINE r == sendRequest(FeedbackHeaders, "PUT")
  <1>1. /\ Handled
        /\ stage' = "done"
        /\ hdr' = hdr
        /\ hdr \in Headers
    BY DEF Feedback, Handled, IInv, TypeOK
  <1>2. latest' = [kind |-> "feedback", headers |-> r, body |-> ErrorBody]
    BY DEF Feedback, Receives
  <1>3. PICK h \in Headers :
             /\ h.signature = hdr.signature
             /\ h.uri = hdr.uri
             /\ FeedbackHeaders =
                    IF handlerJws THEN sign([h EXCEPT !.method = "PUT"], ErrorBody) ELSE h
    <2>. DEFINE h == IF hdr.destination = NoFsp THEN [hdr EXCEPT !.destination = hdr.source]
                     ELSE hdr
    <2>1. /\ h \in Headers
          /\ h.signature = hdr.signature
          /\ h.uri = hdr.uri
      BY <1>1 DEF Headers
    <2>. QED
      BY <2>1 DEF FeedbackHeaders
  <1>4. /\ r \in Headers
        /\ validate(r, ErrorBody, PublicKeys) =>
               ~handlerJws /\ (Verified => operation = "forward" /\ payload = ErrorBody)
        /\ handlerJws => r.signature = [key |-> Switch, protected |-> protectedHeader(r),
                                        body |-> ErrorBody]
    <2>1. CASE handlerJws
      <3>1. /\ [h EXCEPT !.method = "PUT"] \in Headers
            /\ [h EXCEPT !.method = "PUT"].method = "PUT"
            /\ [h EXCEPT !.method = "PUT"].uri # NoUri
        BY <1>3, <2>1 DEF Feedback, signFails, Headers, Methods
      <3>2. /\ FeedbackHeaders \in Headers
            /\ FeedbackHeaders.method = "PUT"
            /\ FeedbackHeaders.signature =
                   [key |-> Switch, protected |-> protectedHeader(FeedbackHeaders),
                    body |-> ErrorBody]
        BY <1>3, <2>1, <3>1, Signed
      <3>. QED
        BY <3>2, Sending, SignedBySwitch DEF Methods
    <2>2. CASE ~handlerJws
      <3>1. /\ FeedbackHeaders \in Headers
            /\ FeedbackHeaders.signature = headers.signature
        BY <1>3, <2>2 DEF IInv, HdrInv, Feedback
      <3>2. r \in Headers /\ r.signature = headers.signature
        BY <3>1, Sending DEF Methods
      <3>3. ASSUME validate(r, ErrorBody, PublicKeys), Verified
            PROVE  operation = "forward" /\ payload = ErrorBody
        <4>1. headers.signature.body = ErrorBody
          BY <3>2, <3>3 DEF validate
        <4>2. headers.signature.body = payload /\ payload \in BodiesTaken
          BY <3>3 DEF IInv, EventInv, Feedback, Verified, validate
        <4>. QED
          BY <4>1, <4>2 DEF BodiesTaken
      <3>. QED
        BY <2>2, <3>2, <3>3
    <2>. QED
      BY <2>1, <2>2
  <1>. HIDE DEF r
  <1>5. TypeOK'
    BY <1>1, <1>2, <1>4 DEF IInv, TypeOK, Handled, given, event, Stages, Callback, Kinds
  <1>6. HdrInv'
    BY <1>1 DEF IInv, HdrInv, Handled, given, event, Feedback
  <1>7. ForwardedVerifies' /\ SwitchSignsWhatItSends' /\ OwnRequestsPassForNobodys'
    BY <1>1, <1>2, <1>4 DEF ForwardedVerifies, SwitchSignsWhatItSends,
       OwnRequestsPassForNobodys, protectedHeader, Handled, given, event, Verified
  <1>. QED
    BY <1>1, <1>5, <1>6, <1>7, HandledKeeps DEF IInv

-----------------------------------------------------------------------------
(* The theorems.                                                            *)

\* Every step keeps IInv.
LEMMA NextInv == IInv /\ [Next]_vars => IInv'
  <1>. SUFFICES ASSUME IInv, [Next]_vars PROVE IInv'
    OBVIOUS
  <1>1. CASE Alter
    BY <1>1, AlterKeeps
  <1>2. CASE Arrive
    BY <1>2, ArriveKeeps
  <1>3. CASE Take
    BY <1>3, TakeKeeps
  <1>4. CASE \E answered \in BOOLEAN : Forward(answered) \/ Answer(answered) \/ Patch(answered)
    BY <1>4, ForwardKeeps, AnswerKeeps, PatchKeeps
  <1>5. CASE Fails
    BY <1>5, FailsKeeps
  <1>6. CASE Feedback
    BY <1>6, FeedbackKeeps
  <1>7. CASE FeedbackFails
    BY <1>7, FeedbackFailsKeeps
  <1>8. CASE Redeliver
    BY <1>8, RedeliverKeeps
  <1>9. CASE UNCHANGED vars
    <2>1. /\ UNCHANGED <<operation, apiJws, handlerJws, sent, body, headers, payload,
                         altered, stage, hdr, latest>>
      BY <1>9 DEF vars, given, event
    <2>. QED
      BY <2>1 DEF IInv, TypeOK, SentInv, EventInv, HdrInv, UnalteredAccepted,
         ForwardedVerifies, SwitchSignsWhatItSends, OwnRequestsPassForNobodys, Made,
         Verified, Verb, validate, validateProtectedHeader, protectedHeader, preHandler,
         DateOf, FspMakes, BodiesTaken
  <1>. QED
    BY <1>1, <1>2, <1>3, <1>4, <1>5, <1>6, <1>7, <1>8, <1>9 DEF Next

\* What was sent, what is in the event and what the message object holds agree, whatever
\* happens on the way, at the API and in the handler.
THEOREM Invariant == Spec => []IInv
  <1>. QED
    BY InitInv, NextInv, PTL DEF Spec

\* What is published under JWS is what the FSP it names has signed.
THEOREM Authentic == Spec => []AcceptedAsSigned
  <1>1. IInv => AcceptedAsSigned
    <2>. SUFFICES ASSUME IInv, stage \notin {"travelling", "refused"}, Verified
                  PROVE  \E s \in Made :
                             /\ s.key = headers.source
                             /\ s.protected.source = headers.source
                             /\ s.protected.destination = headers.destination
                             /\ s.protected.uri = headers.uri
                             /\ s.protected.method = headers.method
                             /\ s.protected.date \in {NoDate, headers.date}
                             /\ s.body = payload
      BY DEF AcceptedAsSigned
    <2>1. /\ validate(headers, payload, PublicKeys)
          /\ headers.signature \in Made \cup {NoSignature}
      BY DEF IInv, EventInv
    <2>2. headers.signature \in Made
      BY <2>1 DEF validate
    <2>3. WITNESS headers.signature \in Made
    <2>. QED
      BY <2>1 DEF validate, validateProtectedHeader
  <1>. QED
    BY <1>1, Invariant, PTL

\* A signed request nobody has touched is not refused.
THEOREM Accepting == Spec => []UnalteredAccepted
  <1>1. IInv => UnalteredAccepted
    BY DEF IInv
  <1>. QED
    BY <1>1, Invariant, PTL

\* An FSP can verify what is passed on to it, if its sender wrote as the switch does.
THEOREM EndToEndSignature == Spec => []ForwardedVerifies
  <1>1. IInv => ForwardedVerifies
    BY DEF IInv
  <1>. QED
    BY <1>1, Invariant, PTL

\* The switch's signature is of what it sends.
THEOREM SwitchSignatures == Spec => []SwitchSignsWhatItSends
  <1>1. IInv => SwitchSignsWhatItSends
    BY DEF IInv
  <1>. QED
    BY <1>1, Invariant, PTL

\* None of the switch's own requests passes for one its source has signed, but feedback
\* without JWS about a rejection with the same errorInformation.
THEOREM NobodysRequests == Spec => []OwnRequestsPassForNobodys
  <1>1. IInv => OwnRequestsPassForNobodys
    BY DEF IInv
  <1>. QED
    BY <1>1, Invariant, PTL
=============================================================================
