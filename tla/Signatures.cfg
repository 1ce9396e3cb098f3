\* One request and its callbacks, rewritten at most once on the way to the API, with JWS
\* enabled or not in either service.
CONSTANTS
    f1 = f1
    f2 = f2
    Fsp = {f1, f2}
    Switch = Switch
    NoFsp = NoFsp
    PublicKeys = {f1, f2}
    service = service
    behindPath = behindPath
    Uris = {service, behindPath}
    NoUri = NoUri
    ServiceUri <- McServiceUri
    utc = utc
    local = local
    Dates = {utc, local}
    NoDate = NoDate
    UTCString <- McUTCString
    rebuilt = rebuilt
    written = written
    Bodies = {rebuilt, written, ErrorBody}
    NoBody = NoBody
    ErrorBody = ErrorBody
    Transformed <- McTransformed
    Earlier <- McEarlier
    NoSignature = NoSignature
    NoMessage = NoMessage
    MaxAlterations = 1

\* A refused request is at its end.
CHECK_DEADLOCK FALSE

SYMMETRY McSymmetry

SPECIFICATION Spec

INVARIANTS
    IInv
    AcceptedAsSigned
    UnalteredAccepted
    ForwardedVerifies
    SwitchSignsWhatItSends
    OwnRequestsPassForNobodys
