\* Two signers, two events, one hash, one foreign signature key.
CONSTANTS
    Keys = {k1, k2}
    SupportedTypes <- MCSupportedTypes
    FallibleKeys <- MCFallibleKeys
    Events = {e1, e2}
    EventTypes <- MCEventTypes
    Hashes = {h1}
    OtherKeys = {"starkware"}
    NilData = NilData
    NoHash = NoHash
    OtherSig = OtherSig
    NoCall = NoCall
    k1 = k1
    k2 = k2
SPECIFICATION Spec
INVARIANTS TypeOK SignatureMatchesEvent
PROPERTIES FailedSignLeavesEvent OtherSignaturesKept
