------------------------------ MODULE BankKeys ------------------------------
(***************************************************************************)
(* The bank's keys at the client: Client.hpb with pins and a certificate   *)
(* verifier, what it stores, how later requests name the bank keys they    *)
(* are built for, and what the client sees when the bank has replaced a    *)
(* key or renewed a certificate in the meantime, between two calls or      *)
(* within a transaction.                                                   *)
(*                                                                         *)
(* A key arrives as a certificate or bare. The bank publishes its hash in  *)
(* two forms, that of the key and that of the certificate. A hash is       *)
(* modelled by what it is taken of: SHA-256 does not collide here.         *)
(***************************************************************************)
EXTENDS Naturals

CONSTANTS Keys,          \* public keys of the bank
          Certificates,  \* certificates for them
          Certified,     \* the key in each certificate
          Weak,          \* keys below 2048 bits
          Trusted,       \* certificates that the verifier accepts
          MaxChanges,    \* bound: how often the bank replaces one of its keys
          None           \* no certificate, no pins, no keys

Roles      == {"X002", "E002"}
Deliveries == {d \in [key : Keys, certificate : Certificates \cup {None}] :
                  d.certificate # None => Certified[d.certificate] = d.key}
Pairs      == [Roles -> Deliveries]
Hashes     == Keys \cup Certificates
Pins       == [Roles -> Hashes]

ASSUME BankKeysAssumption == /\ Certified \in [Certificates -> Keys]
                             /\ Keys \cap Certificates = {}
                             /\ Weak \subseteq Keys /\ Trusted \subseteq Certificates
                             /\ None \notin Hashes \cup Pairs \cup Pins
                             /\ MaxChanges \in Nat

VARIABLES
    \* The bank
    current,   \* its keys
    changes,   \* how often it changed them
    sent,      \* the pairs it sent in answers to HPB
    \* The operator
    pins,      \* the hashes to pin, or None
    pinned,    \* the pair they were taken from
    \* The client
    verifier,  \* "anchors" with a certificate verifier, else "none"
    held,      \* self._bank_keys, or None
    heldPins,  \* the pins they were checked with
    heldAt,    \* the value of changes when the bank sent them
    using,     \* the keys of the transaction in progress, or None
    request,   \* what it waits with: "hpb", "open", "step" or "none"
    reply,     \* the answer that is on its way to it
    result     \* how the last call ended

bank     == <<current, changes, sent>>
operator == <<pins, pinned>>
store    == <<held, heldPins, heldAt>>
call     == <<using, request, reply, result>>
vars     == <<bank, operator, verifier, store, call>>

NoReply == [kind |-> "none"]
Replies == {NoReply}
             \cup [kind : {"refused"}]
             \cup [kind : {"keys"}, keys : Pairs, at : 0..MaxChanges]
             \cup [kind : {"opened", "stale", "other"}, signer : Keys]

TypeOK == /\ current \in Pairs
          /\ changes \in 0..MaxChanges
          /\ sent \subseteq Pairs
          /\ pins \in Pins \cup {None}
          /\ pinned \in Pairs
          /\ verifier \in {"none", "anchors"}
          /\ held \in Pairs \cup {None}
          /\ heldPins \in Pins \cup {None}
          /\ heldAt \in 0..MaxChanges
          /\ using \in Pairs \cup {None}
          /\ request \in {"none", "hpb", "open", "step"}
          /\ reply \in Replies
          /\ result \in {"none", "stored", "rejected", "mismatch", "opened", "done", "stale",
                         "other", "unauthenticated", "failed"}

Init == /\ current \in Pairs
        /\ changes = 0 /\ sent = {}
        /\ pins = None /\ pinned = current
        /\ verifier \in {"none", "anchors"}
        /\ held = None /\ heldPins = None /\ heldAt = 0
        /\ using = None /\ request = "none" /\ reply = NoReply /\ result = "none"

Idle == request = "none" /\ using = None

-----------------------------------------------------------------------------
\* Hashes

\* Mutant: a key that came as a certificate is known by the certificate's hash alone.
OneForm(d) == IF d.certificate = None THEN {d.key} ELSE {d.certificate}
\* The forms in which a bank publishes a key (_pinned_hash_matches).
Forms(d) == {d.key, d.certificate} \ {None}

\* Mutant: the EBICS 2.x form for every key.
KeyHash(d) == d.key
\* _bank_key_digest: how a request names a bank key.
Digest(d) == IF d.certificate = None THEN d.key ELSE d.certificate

Digests(keys) == [r \in Roles |-> Digest(keys[r])]

-----------------------------------------------------------------------------
\* HPB

Hpb == /\ Idle
       /\ request' = "hpb" /\ result' = "none"
       /\ UNCHANGED <<bank, operator, verifier, store, using, reply>>

\* Mutant: a bare key passes the verifier, which has nothing to look at.
VerifiesCertificates(d) == verifier = "anchors" /\ d.certificate # None => d.certificate \in Trusted
\* _public_key_from_info: with a verifier a bare key is refused.
Verifies(d) == verifier = "anchors" => d.certificate \in Trusted

\* parse_hpb_response, for one of the two keys.
Readable(d) == Verifies(d) /\ d.key \notin Weak

\* _verify_pinned, for one of the two keys.
MatchesPin(role, d) == pins # None => pins[role] \in Forms(d)

\* Mutant: the first of the keys that matches its pin vouches for the other.
OneMatches(keys) == \E r \in Roles : MatchesPin(r, keys[r])
AllMatch(keys) == \A r \in Roles : MatchesPin(r, keys[r])

AllReadable(keys) == \A r \in Roles : Readable(keys[r])

EndHpb(outcome) == request' = "none" /\ reply' = NoReply /\ result' = outcome

HpbReturns == /\ request = "hpb" /\ reply.kind = "keys"
              /\ AllReadable(reply.keys)
              /\ AllMatch(reply.keys)
              /\ held' = reply.keys /\ heldPins' = pins /\ heldAt' = reply.at
              /\ EndHpb("stored")
              /\ UNCHANGED <<bank, operator, verifier, using>>

\* What hpb leaves of the earlier keys when it raises: all of them.
KeepStore == UNCHANGED store

HpbRejects == /\ request = "hpb" /\ reply.kind = "keys"
              /\ \/ ~AllReadable(reply.keys) /\ EndHpb("rejected")
                 \/ AllReadable(reply.keys) /\ ~AllMatch(reply.keys) /\ EndHpb("mismatch")
              /\ KeepStore
              /\ UNCHANGED <<bank, operator, verifier, using>>

HpbRefused == /\ request = "hpb" /\ reply.kind = "refused"
              /\ EndHpb("other")
              /\ UNCHANGED <<bank, operator, verifier, store, using>>

-----------------------------------------------------------------------------
\* A transaction under the keys held when it starts

Open == /\ Idle
        /\ held # None
        /\ using' = held
        /\ request' = "open" /\ result' = "none"
        /\ UNCHANGED <<bank, operator, verifier, store, reply>>

Authenticated == reply.signer = using["X002"].key

EndCall(outcome) == using' = None /\ request' = "none" /\ reply' = NoReply /\ result' = outcome

\* _post_verified and raise_for_return_code: the signature before the return code.
Answered == /\ request \in {"open", "step"}
            /\ reply.kind \in {"opened", "stale", "other"}
            /\ \/ ~Authenticated /\ EndCall("unauthenticated")
               \/ Authenticated /\ reply.kind # "opened" /\ EndCall(reply.kind)
               \/ /\ Authenticated /\ reply.kind = "opened"
                  /\ request' = "none" /\ reply' = NoReply /\ result' = "opened"
                  /\ UNCHANGED using
            /\ UNCHANGED <<bank, operator, verifier, store>>

\* The next request of the transaction, or its end.
Step == /\ using # None /\ request = "none"
        /\ request' = "step" /\ result' = "none"
        /\ UNCHANGED <<bank, operator, verifier, store, using, reply>>

Finish == /\ using # None /\ request = "none"
          /\ using' = None /\ result' = "done"
          /\ UNCHANGED <<bank, operator, verifier, store, request, reply>>

\* An exchange fails, see Exchange; repeating it is left to UploadTransfer.
ExchangeFails == /\ request # "none"
                 /\ EndCall("failed")
                 /\ UNCHANGED <<bank, operator, verifier, store>>

\* A new process holds no keys of the bank.
Restart == /\ Idle
           /\ held # None
           /\ held' = None /\ heldPins' = None /\ heldAt' = 0
           /\ UNCHANGED <<bank, operator, verifier, call>>

-----------------------------------------------------------------------------
\* What EBICS 3.0 calls the hash value of a key (external).
Name(d) == IF d.certificate = None THEN d.key ELSE d.certificate

\* The operator

\* bank_key_hashes
BankKeyHashes(keys) == [r \in Roles |-> keys[r].key]

\* Trust on first use.
PinHeld == /\ Idle
           /\ held # None
           /\ pins' = BankKeyHashes(held) /\ pinned' = held
           /\ UNCHANGED <<bank, verifier, store, call>>

\* The hashes the bank publishes, in either form for each key.
PinPublished == /\ Idle
                /\ pins' \in {p \in Pins : \A r \in Roles : p[r] \in {current[r].key, Name(current[r])}}
                /\ pinned' = current
                /\ UNCHANGED <<bank, verifier, store, call>>

Unpin == /\ Idle
         /\ pins # None
         /\ pins' = None
         /\ UNCHANGED <<bank, pinned, verifier, store, call>>

-----------------------------------------------------------------------------
\* Bank (external)

Waiting == request # "none" /\ reply = NoReply

\* It replaces a key, renews its certificate, or starts or stops to certify it.
Change == /\ changes < MaxChanges
          /\ changes' = changes + 1
          /\ \E r \in Roles : \E d \in Deliveries \ {current[r]} :
                 current' = [current EXCEPT ![r] = d]
          /\ UNCHANGED <<sent, operator, verifier, store, call>>

SendKeys == /\ Waiting /\ request = "hpb"
            /\ reply' = [kind |-> "keys", keys |-> current, at |-> changes]
            /\ sent' = sent \cup {current}
            /\ UNCHANGED <<current, changes, operator, verifier, store, using, request, result>>

RefuseHpb == /\ Waiting /\ request = "hpb"
             /\ reply' = [kind |-> "refused"]
             /\ UNCHANGED <<bank, operator, verifier, store, using, request, result>>

\* It checks the hash of the certificate, or of a key it has no certificate for.
NamesCurrent == Digests(using) = [r \in Roles |-> Name(current[r])]

AnswerOpen == /\ Waiting /\ request = "open"
              /\ \E kind \in {IF NamesCurrent THEN "opened" ELSE "stale", "other"} :
                     reply' = [kind |-> kind, signer |-> current["X002"].key]
              /\ UNCHANGED <<bank, operator, verifier, store, using, request, result>>

\* Later requests name no keys. It signs with its key, or with the one it had at the start.
AnswerStep == /\ Waiting /\ request = "step"
              /\ \E kind \in {"opened", "other"}, signer \in {using["X002"].key, current["X002"].key} :
                     reply' = [kind |-> kind, signer |-> signer]
              /\ UNCHANGED <<bank, operator, verifier, store, using, request, result>>

-----------------------------------------------------------------------------
Next == \/ Hpb \/ HpbReturns \/ HpbRejects \/ HpbRefused
        \/ Open \/ Answered \/ Step \/ Finish
        \/ ExchangeFails \/ Restart
        \/ PinHeld \/ PinPublished \/ Unpin
        \/ Change \/ SendKeys \/ RefuseHpb \/ AnswerOpen \/ AnswerStep

Spec == Init /\ [][Next]_vars

-----------------------------------------------------------------------------
(***************************************************************************)
(* Properties                                                              *)
(***************************************************************************)

\* Each of the keys held matches its own pin, has a trusted certificate if there is a
\* verifier, and is not weak: what the documentation of hpb promises, for both keys.
HeldKeysVouched ==
    held # None =>
        \A r \in Roles : /\ heldPins # None => heldPins[r] \in Forms(held[r])
                         /\ verifier = "anchors" => held[r].certificate \in Trusted
                         /\ held[r].key \notin Weak

\* The keys held are those of one answer: an HPB that raises replaces neither of them.
HeldIsOneAnswer == held # None => held \in sent

\* A request is refused as stale, or its answer cannot be verified, only if the bank has
\* changed its keys since it sent them: the digests name them the way HPB delivered them.
TroubleOnlyAfterChange ==
    result \in {"stale", "unauthenticated"} => changes > heldAt

\* A key pinned by its own hash differs, or the certificate it is pinned by does.
FoundedMismatch ==
    result = "none" /\ result' = "mismatch" =>
        \E r \in Roles : \/ pinned[r].key # reply.keys[r].key
                         \/ /\ pins[r] # pinned[r].key
                            /\ pinned[r].certificate # reply.keys[r].certificate

\* Under pins, HPB fails with a mismatch only if the key that is pinned was replaced, or
\* if it is pinned by the hash of a certificate that was: a renewed certificate does not
\* break the pins of bank_key_hashes.
MismatchMeansChange == [][FoundedMismatch]_vars
-----------------------------------------------------------------------------
\* The pins are hashes of the pair they were taken from.
PinsInOrder == pins # None => \A r \in Roles : pins[r] \in Forms(pinned[r])

\* The keys held are the bank's own unless it has changed them since.
StoreInOrder == /\ heldAt <= changes
                /\ held # None /\ changes = heldAt => held = current

\* A transaction runs under the keys held.
CallInOrder == /\ using # None => held # None /\ using = held
               /\ request \in {"open", "step"} => using # None
               /\ request = "hpb" => using = None
               /\ result \in {"stale", "unauthenticated"} => request = "none"

\* An answer is to the request, and comes from the keys the bank had when it gave it.
ReplyInOrder ==
    /\ reply.kind \in {"keys", "refused"} => request = "hpb"
    /\ reply.kind = "keys" => /\ reply.keys \in sent
                              /\ reply.at <= changes
                              /\ reply.at = changes => reply.keys = current
    /\ reply.kind \in {"opened", "stale", "other"} => /\ request \in {"open", "step"}
                                                      /\ changes = heldAt =>
                                                            reply.kind # "stale" /\ Authenticated

\* The inductive invariant.
BankKeysInvariant == /\ TypeOK
                     /\ PinsInOrder
                     /\ StoreInOrder
                     /\ CallInOrder
                     /\ ReplyInOrder
                     /\ HeldKeysVouched
                     /\ HeldIsOneAnswer
                     /\ TroubleOnlyAfterChange
=============================================================================
