----------------------------- MODULE Protocols ------------------------------
(***************************************************************************)
(* The protocols of app/services/security_protocols.py of fraud-service    *)
(* that keep state: the trust of devices (ZeroTrustEngine), the login with *)
(* a beacon's challenge (BLEBeaconAuth), and data under a key of one hour  *)
(* (EABEHPSimulator).  The file simulates them for its benchmark; hashes   *)
(* stand for cryptography, and are equal here when what they hash is.      *)
(* Trust is in hundredths.  The rest of the file keeps nothing.            *)
(***************************************************************************)
EXTENDS Integers, FiniteSets, FiniteSetsExt

CONSTANTS Device, Segments,  \* devices, and the segments of the two types of device
          Challenge,         \* challenges of a beacon, in the order it makes them
          MaxWaits          \* bound: how often time passes

ASSUME ProtocolConstants == MaxWaits \in Nat /\ Segments # {}

\* How old an attestation and a challenge may be: minutes, of which one is
\* longer than a challenge lives.
Fresh  == 5
KeyAge == 60

VARIABLES
    trust,      \* [Device -> its trust_score, or -1 where it is not registered]
    segment,    \* [Device -> microsegment]
    attested,   \* [Device -> minutes since last_attestation]
    stale,      \* history: [Device -> accesses allowed on an old attestation, and since]
    issued,     \* challenges made: [Challenge -> minutes since, or -1]
    responded,   \* challenges to which a device has responded
    nonces,     \* _nonce_cache
    logins,     \* history: [Challenge -> how often it has logged in]
    sealed,     \* minutes since data was encrypted, or -1
    decrypted,     \* history: the age of what was last decrypted
    waited      \* how often time has passed

protocolVars == <<trust, segment, attested, stale, issued, responded, nonces, logins, sealed, decrypted, waited>>

ProtocolInit ==
    /\ trust = [d \in Device |-> -1] /\ segment \in [Device -> {CHOOSE s \in Segments : TRUE}]
    /\ attested = [d \in Device |-> KeyAge + 1] /\ stale = [d \in Device |-> 0]
    /\ issued = [c \in Challenge |-> -1] /\ responded = {} /\ nonces = {}
    /\ logins = [c \in Challenge |-> 0]
    /\ sealed = -1 /\ decrypted = 0 /\ waited = 0

DevicesKept == UNCHANGED <<trust, segment, attested, stale>>
BeaconKept  == UNCHANGED <<issued, responded, nonces, logins>>
SealedKept  == UNCHANGED <<sealed, decrypted>>
-----------------------------------------------------------------------------
\* register_device, again too: half trusted, and never attested.
RegisterDevice(d, s) ==
    /\ trust' = [trust EXCEPT ![d] = 50] /\ segment' = [segment EXCEPT ![d] = s]
    /\ attested' = [attested EXCEPT ![d] = KeyAge + 1] /\ stale' = [stale EXCEPT ![d] = 0]
    /\ BeaconKept /\ SealedKept /\ UNCHANGED waited

\* attest_device, with evidence of its hardware or without.
AttestDevice(d, evidence) ==
    /\ trust[d] >= 0
    /\ trust' = [trust EXCEPT ![d] = Min({100, trust[d] + IF evidence THEN 20 ELSE 5})]
    /\ attested' = [attested EXCEPT ![d] = 0] /\ stale' = [stale EXCEPT ![d] = 0]
    /\ UNCHANGED segment /\ BeaconKept /\ SealedKept /\ UNCHANGED waited

Mut_NotLowered(d) == trust[d]

\* What is left of the trust of a device when it asks for access.
Lowered(d) == IF attested[d] > Fresh THEN Max({0, trust[d] - 10}) ELSE trust[d]

\* evaluate_access: sums of floats that should be equal may differ either way.
EvaluateAccess(d, s) ==
    LET required == IF s = segment[d] THEN 60 ELSE 70
    IN  /\ trust[d] >= 0 /\ trust' = [trust EXCEPT ![d] = Lowered(d)]
        /\ \E allowed \in BOOLEAN :
              /\ Lowered(d) > required => allowed
              /\ Lowered(d) < required => ~allowed
              /\ stale' = [stale EXCEPT ![d] = IF allowed /\ attested[d] > Fresh THEN @ + 1 ELSE @]
        /\ UNCHANGED <<segment, attested>> /\ BeaconKept /\ SealedKept /\ UNCHANGED waited
-----------------------------------------------------------------------------
\* generate_beacon_challenge
GenerateChallenge(c) ==
    /\ issued[c] = -1 /\ issued' = [issued EXCEPT ![c] = 0]
    /\ DevicesKept /\ SealedKept /\ UNCHANGED <<responded, nonces, logins, waited>>

\* respond_to_challenge: the response keeps the challenge's nonce.
RespondToChallenge(c) ==
    /\ issued[c] >= 0 /\ responded' = responded \cup {c}
    /\ DevicesKept /\ SealedKept /\ UNCHANGED <<issued, nonces, logins, waited>>

\* verify_response: the nonce is spent first, whatever the answer is worth.
Spent(c, good) == nonces \cup {c}

\* The same response may arrive again; good: whether the attributes and the
\* hash are as required.
VerifyResponse(c, good) ==
    /\ c \in responded /\ nonces' = Spent(c, good)
    /\ logins' = [logins EXCEPT ![c] = IF c \notin nonces /\ issued[c] = 0 /\ good THEN @ + 1 ELSE @]
    /\ DevicesKept /\ SealedKept /\ UNCHANGED <<issued, responded, waited>>
-----------------------------------------------------------------------------
\* shuffle_and_encrypt
ShuffleAndEncrypt ==
    /\ sealed' = 0
    /\ DevicesKept /\ BeaconKept /\ UNCHANGED <<decrypted, waited>>

\* proxy_decrypt
ProxyDecrypt ==
    /\ sealed >= 0 /\ sealed <= KeyAge /\ decrypted' = sealed
    /\ DevicesKept /\ BeaconKept /\ UNCHANGED <<sealed, waited>>

TimePasses(minutes) ==
    /\ waited < MaxWaits /\ waited' = waited + 1
    /\ attested' = [d \in Device |-> Min({attested[d] + minutes, KeyAge + 1})]
    /\ issued' = [c \in Challenge |-> IF issued[c] = -1 THEN -1 ELSE Min({issued[c] + minutes, 1})]
    /\ sealed' = IF sealed = -1 THEN -1 ELSE Min({sealed + minutes, KeyAge + 1})
    /\ UNCHANGED <<trust, segment, stale, responded, nonces, logins, decrypted>>

ZeroTrustNext ==
    \/ \E d \in Device, s \in Segments : RegisterDevice(d, s) \/ EvaluateAccess(d, s)
    \/ \E d \in Device, evidence \in BOOLEAN : AttestDevice(d, evidence)
    \/ \E minutes \in {5, 6, 60} : TimePasses(minutes)

BeaconNext ==
    \/ \E c \in Challenge : GenerateChallenge(c) \/ RespondToChallenge(c)
    \/ \E c \in Challenge, good \in BOOLEAN : VerifyResponse(c, good)
    \/ ShuffleAndEncrypt \/ ProxyDecrypt
    \/ \E minutes \in {5, 6, 60} : TimePasses(minutes)

ProtocolSpec == ProtocolInit /\ [][ZeroTrustNext \/ BeaconNext]_protocolVars
-----------------------------------------------------------------------------
ProtocolTypeOK ==
    /\ trust \in [Device -> -1..100] /\ segment \in [Device -> Segments]
    /\ attested \in [Device -> 0..KeyAge + 1] /\ stale \in [Device -> Nat]
    /\ issued \in [Challenge -> -1..1] /\ responded \subseteq Challenge /\ nonces \subseteq Challenge
    /\ logins \in [Challenge -> Nat]
    /\ sealed \in -1..KeyAge + 1 /\ decrypted \in 0..KeyAge /\ waited \in 0..MaxWaits

\* Between two attestations a device has its requests allowed no more than four
\* times once the last is too old, whatever trust it has gathered and whichever
\* segments it asks for (evaluate_access lowers it with each request).  A
\* response that is delivered again logs nobody in (verify_response).
TrustWearsOff ==
    /\ \A d \in Device : stale[d] <= 4 /\ trust[d] <= 100 - 10 * stale[d]
    /\ \A c \in Challenge : logins[c] <= 1 /\ (logins[c] = 1 => c \in nonces)
=============================================================================
