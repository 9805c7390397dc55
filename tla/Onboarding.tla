----------------------------- MODULE Onboarding -----------------------------
(***************************************************************************)
(* A subscriber is brought online and suspended: Client.ini, hia, hpb and  *)
(* suspend_access, the keyring file of examples/zkb_handshake.py and the   *)
(* procedure of docs/05-zkb-onboarding.md around them (new keys after a    *)
(* suspension, letters only once both orders returned SUBMITTED).          *)
(*                                                                         *)
(* Neither the answer to INI or HIA nor its absence says which keys the    *)
(* bank holds: 091002 comes back for the same keys, for others and for an  *)
(* unknown subscriber, and a request whose answer was lost may arrive      *)
(* later, even after the bank has reset the subscriber.                    *)
(***************************************************************************)
EXTENDS Naturals

CONSTANT MaxKeyrings  \* bound: how many keyrings are generated

ASSUME OnboardingAssumption == MaxKeyrings \in Nat

VARIABLES
    \* The operator
    generated,  \* how many keyrings were generated so far
    stored,     \* the one in the keyring file, or None
    confirmed,  \* the orders that returned SUBMITTED for it, noted for the letters
    letter,     \* the keyring whose signed letters are in the mail, or None
    suspect,    \* the keyrings that were to be suspended
    \* The client
    bankKeys,   \* the keyring of the client that holds the bank's keys, or None
    suspended,  \* the keyrings for which suspend_access returned
    request,    \* what it waits with, or NoRequest
    reply,      \* the answer that is on its way to it
    late,       \* requests it gave up on that may still arrive
    \* The bank
    state,      \* of the subscriber (spec 4.4.1.2, docs/12)
    bankIni,    \* the keyring whose A006 key it holds, or None
    bankHia     \* the keyring whose X002 and E002 keys it holds, or None

operator == <<generated, stored, confirmed, letter, suspect>>
exchange == <<request, reply, late>>
bank     == <<state, bankIni, bankHia>>
vars     == <<operator, bankKeys, suspended, exchange, bank>>

Generations == 1..MaxKeyrings
None        == 0
KeyOrders   == {"INI", "HIA"}
Orders      == KeyOrders \cup {"HPB", "SPR"}
Requests    == [order : Orders, keyring : Generations]
NoRequest   == [order |-> "none", keyring |-> None]
States      == {"New", "IniReceived", "HiaReceived", "Initialised", "Ready", "Suspended"}
\* "state" is 091002, "other" any answer that raises, be it a code the client knows, one
\* it does not, or none at all; "transaction" a success that names a transaction.
Replies     == {"none", "ok", "state", "other", "transaction"}

TypeOK == /\ generated \in 0..MaxKeyrings
          /\ confirmed \subseteq KeyOrders
          /\ {stored, letter, bankKeys, bankIni, bankHia} \subseteq Generations \cup {None}
          /\ suspect \subseteq Generations
          /\ suspended \subseteq Generations
          /\ request \in Requests \cup {NoRequest}
          /\ reply \in Replies
          /\ late \subseteq Requests
          /\ state \in States

Init == /\ generated = 0 /\ stored = None /\ confirmed = {} /\ letter = None /\ suspect = {}
        /\ bankKeys = None /\ suspended = {}
        /\ request = NoRequest /\ reply = "none" /\ late = {}
        /\ state = "New" /\ bankIni = None /\ bankHia = None

Idle == request = NoRequest

-----------------------------------------------------------------------------
\* The keyring file and the letters

\* Mutant: generate writes over the keyring that is there.
Overwrite == TRUE
\* path.exists()
NoKeyringFile == stored = None

Generate == /\ Idle
            /\ NoKeyringFile
            /\ generated < MaxKeyrings
            /\ generated' = generated + 1
            /\ stored' = generated + 1
            /\ confirmed' = {}
            /\ bankKeys' = None
            /\ UNCHANGED <<letter, suspect, suspended, exchange, bank>>

\* The operator removes keys that are suspect, or that the bank never activated.
RemoveKeyring == /\ Idle
                 /\ stored # None
                 /\ stored \in suspect \/ (letter = None /\ state # "Ready")
                 /\ stored' = None
                 /\ confirmed' = {}
                 /\ bankKeys' = None
                 /\ UNCHANGED <<generated, letter, suspect, suspended, exchange, bank>>

\* make_ini_letter, printed, signed and mailed: only after both orders returned SUBMITTED.
PrintLetters == /\ Idle
                /\ stored # None
                /\ confirmed = KeyOrders
                /\ letter' = stored
                /\ UNCHANGED <<generated, stored, confirmed, suspect, bankKeys, suspended,
                               exchange, bank>>

\* The operator has the bank reset the subscriber, which voids the letters.
Reset == /\ Idle
         /\ confirmed' = {} /\ letter' = None
         /\ state' = "New" /\ bankIni' = None /\ bankHia' = None
         /\ UNCHANGED <<generated, stored, suspect, bankKeys, suspended, exchange>>

\* The keys are lost: the operator suspends by telephone (Client.suspend_access).
Telephone == /\ Idle
             /\ stored # None
             /\ state = "Ready"
             /\ state' = "Suspended"
             /\ suspect' = suspect \cup {stored}
             /\ UNCHANGED <<generated, stored, confirmed, letter, bankKeys, suspended,
                            exchange, bankIni, bankHia>>

-----------------------------------------------------------------------------
\* Client

\* What the requests carry of a keyring: INI its A006 certificate and HIA the two others,
\* unsigned, HPB an X002 signature over the header, SPR an A006 signature over a dummy file
\* of one blank besides.
IniRequest(keyring)        == [order |-> "INI", keyring |-> keyring]
HiaRequest(keyring)        == [order |-> "HIA", keyring |-> keyring]
HpbRequest(keyring)        == [order |-> "HPB", keyring |-> keyring]
SuspensionRequest(keyring) == [order |-> "SPR", keyring |-> keyring]

Send(r) == /\ Idle
           /\ stored # None
           /\ request' = r
           /\ reply' = "none"
           /\ UNCHANGED <<late, bank>>

\* ini and hia; after a suspension with new keys only.
SubmitKeys == /\ Send(IniRequest(stored)) \/ Send(HiaRequest(stored))
              /\ stored \notin suspect
              /\ UNCHANGED <<operator, bankKeys, suspended>>

RequestBankKeys == /\ Send(HpbRequest(stored))
                   /\ UNCHANGED <<operator, bankKeys, suspended>>

\* suspend_access: without the bank's keys it raises ClientStateError.
Suspend == /\ Send(SuspensionRequest(stored))
           /\ bankKeys # None
           /\ suspect' = suspect \cup {stored}
           /\ UNCHANGED <<generated, stored, confirmed, letter, bankKeys, suspended>>

EndExchange == request' = NoRequest /\ reply' = "none"

\* Mutant: a subscriber that is already initialised counts as submitted.
SubmittedOrKnown == reply \in {"ok", "state"}
\* _submit_keys returns SUBMITTED; 091002 returns ALREADY_INITIALISED, which the operator
\* must not take for it.
Submitted == reply = "ok"

KeysSubmitted == /\ request.order \in KeyOrders
                 /\ Submitted
                 /\ confirmed' = confirmed \cup {request.order}
                 /\ EndExchange
                 /\ UNCHANGED <<generated, stored, letter, suspect, bankKeys, suspended, late,
                                bank>>

BankKeysReceived == /\ request.order = "HPB"
                    /\ reply = "ok"
                    /\ bankKeys' = stored
                    /\ EndExchange
                    /\ UNCHANGED <<operator, suspended, late, bank>>

\* Mutant: an answer that opens a transaction passes for the suspension.
OkCode == reply \in {"ok", "transaction"}
\* parse_suspension_response
SuspensionConfirmed == reply = "ok"

SuspendReturns == /\ request.order = "SPR"
                  /\ SuspensionConfirmed
                  /\ suspended' = suspended \cup {request.keyring}
                  /\ EndExchange
                  /\ UNCHANGED <<operator, bankKeys, late, bank>>

\* Any other answer raises or returns ALREADY_INITIALISED: nothing is noted.
NotDone == /\ reply \notin {"none", "ok"}
           /\ EndExchange
           /\ UNCHANGED <<operator, bankKeys, suspended, late, bank>>

\* The exchange fails (see Exchange): the answer is lost, or the request is late.
ExchangeFails == /\ ~Idle
                 /\ late' = IF reply = "none" THEN late \cup {request} ELSE late
                 /\ EndExchange
                 /\ UNCHANGED <<operator, bankKeys, suspended, bank>>

\* A new process: each step of zkb_handshake.py builds its own Client.
Restart == /\ Idle
           /\ bankKeys # None
           /\ bankKeys' = None
           /\ UNCHANGED <<operator, suspended, exchange, bank>>

Client == \/ SubmitKeys \/ RequestBankKeys \/ Suspend
          \/ KeysSubmitted \/ BankKeysReceived \/ SuspendReturns \/ NotDone
          \/ ExchangeFails \/ Restart

-----------------------------------------------------------------------------
\* Bank (external): what docs/05, docs/09 and docs/12 record of it

Accepts(keyring) == state = "Ready" /\ bankIni = keyring /\ bankHia = keyring

TakeIni(keyring) == /\ state \in {"New", "Suspended", "HiaReceived"}
                    /\ bankIni' = keyring
                    /\ IF state = "HiaReceived"
                         THEN state' = "Initialised" /\ bankHia' = bankHia
                         ELSE state' = "IniReceived" /\ bankHia' = None

TakeHia(keyring) == /\ state \in {"New", "Suspended", "IniReceived"}
                    /\ bankHia' = keyring
                    /\ IF state = "IniReceived"
                         THEN state' = "Initialised" /\ bankIni' = bankIni
                         ELSE state' = "HiaReceived" /\ bankIni' = None

\* It suspends the subscriber at once.
TakeSuspension(keyring) == /\ Accepts(keyring)
                           /\ state' = "Suspended"
                           /\ UNCHANGED <<bankIni, bankHia>>

Take(r) == \/ r.order = "INI" /\ TakeIni(r.keyring)
           \/ r.order = "HIA" /\ TakeHia(r.keyring)
           \/ r.order = "SPR" /\ TakeSuspension(r.keyring)

Waiting == ~Idle /\ reply = "none"

\* What it did it says, or it says it in a way that raises.
BankTakes == /\ Waiting
             /\ Take(request)
             /\ reply' \in {"ok", "other"}
             /\ UNCHANGED <<operator, bankKeys, suspended, request, late>>

BankSendsKeys == /\ Waiting
                 /\ request.order = "HPB"
                 /\ Accepts(request.keyring)
                 /\ reply' = "ok"
                 /\ UNCHANGED <<operator, bankKeys, suspended, request, late, bank>>

\* It does nothing: not admissible in this state, subscriber unknown, keys wrong, an
\* internal error, or a suspension it wants to process in a transaction.
BankRefuses == /\ Waiting
               /\ \/ reply' \in {"state", "other"}
                  \/ request.order = "SPR" /\ reply' = "transaction"
               /\ UNCHANGED <<operator, bankKeys, suspended, request, late, bank>>

LateRequestArrives == \E r \in late :
                          /\ late' = late \ {r}
                          /\ Take(r) \/ UNCHANGED bank
                          /\ UNCHANGED <<operator, bankKeys, suspended, request, reply>>

\* A person compares the letters with the keys received and activates the subscriber, or
\* refuses to (error 17104), which LettersMatch shows not to happen here.
LettersCorrect == letter = bankIni /\ letter = bankHia

Activate == /\ state = "Initialised"
            /\ letter # None
            /\ LettersCorrect
            /\ state' = "Ready"
            /\ letter' = None
            /\ confirmed' = {}
            /\ UNCHANGED <<generated, stored, suspect, bankKeys, suspended, exchange, bankIni,
                           bankHia>>

Bank == BankTakes \/ BankSendsKeys \/ BankRefuses \/ LateRequestArrives \/ Activate

-----------------------------------------------------------------------------
Next == \/ Generate \/ RemoveKeyring \/ PrintLetters \/ Reset \/ Telephone
        \/ Client
        \/ Bank

Spec == Init /\ [][Next]_vars

-----------------------------------------------------------------------------
(***************************************************************************)
(* Properties                                                              *)
(***************************************************************************)

\* Letters printed by the rule of docs/05 (INI and HIA both returned SUBMITTED) are those
\* of the keys the bank holds, whatever earlier requests arrive late: the bank has no
\* cause for error 17104.
LettersMatch == letter # None => state = "Initialised" /\ LettersCorrect

\* The keys of an active subscriber are in the keyring file, unless the operator gave
\* them up: no step of the ceremony loses them (_generate refuses to overwrite).
KeysInHand == state = "Ready" /\ bankIni \notin suspect => stored = bankIni

\* Once suspend_access has returned, the bank never again accepts the suspended keys,
\* although it admits INI and HIA in the state Suspended and old ones may arrive late.
SuspensionHolds == \A keyring \in suspended : ~Accepts(keyring)

-----------------------------------------------------------------------------
\* What an exchange that waits for its answer has achieved at the bank.
AnswerIsTrue ==
    reply = "ok" =>
        /\ request.order = "INI" => bankIni = stored /\ state \in {"IniReceived", "Initialised"}
        /\ request.order = "HIA" => bankHia = stored /\ state \in {"HiaReceived", "Initialised"}
        /\ request.order \in KeyOrders => letter = None
        /\ request.order = "SPR" => /\ stored \in suspect
                                    /\ confirmed = {}
                                    /\ letter # stored
                                    /\ ~Accepts(stored)

NotesAreTrue ==
    /\ "INI" \in confirmed => bankIni = stored /\ state \in {"IniReceived", "Initialised"}
    /\ "HIA" \in confirmed => bankHia = stored /\ state \in {"HiaReceived", "Initialised"}

\* No keyring that was suspended can be activated again.
OutForGood == \A keyring \in suspended : /\ keyring \in suspect
                                         /\ letter # keyring
                                         /\ stored = keyring => confirmed = {}

\* The inductive invariant.
OnboardingInvariant ==
    /\ TypeOK
    /\ ~Idle => request.keyring = stored
    /\ request.order = "SPR" => stored \in suspect
    /\ request.order \in KeyOrders => stored \notin suspect
    /\ reply # "none" => ~Idle
    /\ AnswerIsTrue
    /\ NotesAreTrue
    /\ state = "Ready" => bankIni = bankHia /\ bankIni # None
    /\ letter # None => letter \in {stored} \cup suspect
    /\ OutForGood
    /\ LettersMatch
    /\ KeysInHand
    /\ SuspensionHolds
=============================================================================
