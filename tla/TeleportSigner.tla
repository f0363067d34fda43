--------------------------- MODULE TeleportSigner ---------------------------
(***************************************************************************)
(* The teleport event signer (src/pkg/event/publisher/teleportevm/         *)
(* signer.go): Signer.Sign signs an event whose type it is configured for, *)
(* over the "hash" field of the event's data, and stores the signature     *)
(* under the "ethereum" key of the event's signature map.                  *)
(*                                                                         *)
(* The publisher that calls Sign is not in the source tree: the            *)
(* environment calls Sign of any signer on any event, in any order and any *)
(* number of times.  An event's data is nil, lacks "hash" or carries a     *)
(* hash; its signature map is nil or holds the signatures other event      *)
(* signers stored under their own keys.  A signature is a record of the    *)
(* key that made it and the message it signs.                              *)
(***************************************************************************)
EXTENDS TLC

CONSTANTS
    Keys,           \* wallet.Keys, as their addresses
    SupportedTypes, \* SupportedTypes[k]: the types the signer of key k is made with
    FallibleKeys,   \* keys whose SignMessage may return an error
    Events,         \* the events, as identities
    EventTypes,     \* values of event.Type
    Hashes,         \* values of event.Data["hash"]
    OtherKeys,      \* keys other event signers store signatures under
    NilData,        \* event.Data == nil
    NoHash,         \* event.Data without a "hash" field
    OtherSig,       \* a signature another event signer stored
    NoCall          \* no Sign call returned yet

(* SignatureKey (26).                                                      *)
SignatureKey == "ethereum"

(* l.signer.SignMessage(h) by key k (63).                                  *)
Sig(k, h) == [signer |-> k, over |-> h]

(* Signer (34-37) and NewSigner (40-42).                                   *)
NewSigner(key, types) == [signer |-> key, types |-> types]

Signers == {NewSigner(k, SupportedTypes[k]) : k \in Keys}

Data == Hashes \cup {NilData, NoHash}

(* messages.Event: its type, its data and its signature map (nil or not).  *)
EventRecords ==
    [type: EventTypes, data: Data, sigsNil: BOOLEAN,
     sigs: UNION {[K -> {OtherSig} \cup {Sig(k, h) : k \in Keys, h \in Hashes}] :
                    K \in SUBSET (OtherKeys \cup {SignatureKey})}]

VARIABLES
    event,  \* event[e]: the messages.Event e points to
    ret     \* the (bool, error) the last Sign call returned, and its arguments

vars == <<event, ret>>

TypeOK ==
    /\ event \in [Events -> EventRecords]
    /\ ret \in {NoCall} \cup [signer: Keys, event: Events, ok: BOOLEAN, err: BOOLEAN]

(* Events as the publisher receives them: any type and data, and a nil     *)
(* signature map or one with other signers' signatures.                    *)
Init ==
    /\ event \in [Events ->
                    {[type |-> t, data |-> d, sigsNil |-> n, sigs |-> [k \in K |-> OtherSig]] :
                        t \in EventTypes, d \in Data, n \in BOOLEAN,
                        K \in SUBSET OtherKeys}]
    /\ \A e \in Events : event[e].sigsNil => DOMAIN event[e].sigs = {}
    /\ ret = NoCall

Return(l, e, ok, err) == ret' = [signer |-> l.signer, event |-> e, ok |-> ok, err |-> err]

(* Mutant: the loop over l.types dropped, every event type supported.     *)
SupportsAll(l, e) == TRUE

(* The loop over l.types (46-52).                                          *)
Supports(l, e) == event[e].type \in l.types

(* Sign returns before signing (53-62): the type is not one of l.types     *)
(* (false, nil), or the data is nil or has no hash (false, error).         *)
SignRejected(l, e) ==
    /\ \/ ~Supports(l, e) /\ Return(l, e, FALSE, FALSE)
       \/ Supports(l, e) /\ event[e].data \in {NilData, NoHash} /\ Return(l, e, FALSE, TRUE)
    /\ UNCHANGED event

(* Mutant: the signature is stored before SignMessage's error is checked,  *)
(* with the zero signature the failed call returned.                       *)
SignKeyErrorStoresZero(l, e) ==
    /\ Supports(l, e)
    /\ event[e].data \in Hashes
    /\ l.signer \in FallibleKeys
    /\ event' = [event EXCEPT ![e].sigsNil = FALSE,
                              ![e].sigs = (SignatureKey :> Sig(l.signer, "zero")) @@ event[e].sigs]
    /\ Return(l, e, FALSE, TRUE)

(* SignMessage fails (63-66): Sign returns (false, err).                   *)
SignKeyError(l, e) ==
    /\ Supports(l, e)
    /\ event[e].data \in Hashes
    /\ l.signer \in FallibleKeys
    /\ UNCHANGED event
    /\ Return(l, e, FALSE, TRUE)

(* Mutant: the signature map is replaced rather than added to.             *)
StoreReplacesMap(ev, l) ==
    [ev EXCEPT !.sigsNil = FALSE, !.sigs = SignatureKey :> Sig(l.signer, ev.data)]

(* A nil map is allocated (67-69) and the signature stored under           *)
(* SignatureKey (70-73), replacing one stored before.                      *)
Store(ev, l) ==
    [ev EXCEPT !.sigsNil = FALSE, !.sigs = (SignatureKey :> Sig(l.signer, ev.data)) @@ ev.sigs]

(* The event is signed (63-74): Sign returns (true, nil).                  *)
SignStored(l, e) ==
    /\ Supports(l, e)
    /\ event[e].data \in Hashes
    /\ event' = [event EXCEPT ![e] = Store(event[e], l)]
    /\ Return(l, e, TRUE, FALSE)

(* Signer.Sign (45-75).                                                    *)
Sign(l, e) == SignRejected(l, e) \/ SignKeyError(l, e) \/ SignStored(l, e)

Next == \E l \in Signers, e \in Events : Sign(l, e)

Spec == Init /\ [][Next]_vars

(***************************************************************************)
(* Properties                                                              *)
(***************************************************************************)

(* A Sign call that returns false, whether it rejected the event or its    *)
(* key failed, leaves the event as it was: no partial signature is left.   *)
FailedSignLeavesEvent ==
    [][ret' # NoCall /\ ~ret'.ok => event' = event]_vars

(* Signing never loses a signature another event signer stored under its  *)
(* own key, whether the map was nil, empty or already signed.              *)
OtherSignaturesKept ==
    [][\A e \in Events, k \in OtherKeys :
          k \in DOMAIN event[e].sigs =>
              k \in DOMAIN event'[e].sigs /\ event'[e].sigs[k] = event[e].sigs[k]]_vars

(* The Signer comment (28-33): the "ethereum" signature an event carries   *)
(* is over the event's "hash" by the key of a signer made for the event's  *)
(* type, whichever of several signers signed it last.                      *)
SignatureMatchesEvent ==
    \A e \in Events :
        SignatureKey \in DOMAIN event[e].sigs =>
            LET s == event[e].sigs[SignatureKey] IN
            /\ s.over = event[e].data
            /\ event[e].type \in SupportedTypes[s.signer]
=============================================================================
