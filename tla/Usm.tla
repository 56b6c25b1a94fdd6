--------------------------------- MODULE Usm ---------------------------------
(***************************************************************************)
(* The user-based security model as v3.rs computes it, and the search for  *)
(* the authentication parameters of v3_client.rs.                          *)
(*                                                                         *)
(* Keys and MACs are symbolic.  A key is named by the password it is       *)
(* derived from: "right" is the one the agent knows.  A MAC is the key and *)
(* what stood in the message's authentication parameters when it was       *)
(* computed; the rest of the message is as sent, so a MAC leaves it out.   *)
(***************************************************************************)
EXTENDS Integers, Sequences

CONSTANTS
    SaltSize,     \* 2^64, how many salts there are
    DesSaltSize,  \* 2^32, how many of them DES tells apart
    EarlyZeros    \* whether a run of zero bytes as long as a MAC stands in
                  \* the engine id or the user name

ASSUME UsmAssumption ==
    /\ SaltSize \in Nat \ {0}
    /\ DesSaltSize \in 1..SaltSize
    /\ SaltSize % DesSaltSize = 0
    /\ EarlyZeros \in BOOLEAN

Password == {"none", "right", "wrong"}

\* UsmCredentials: whether there is an auth_protocol, and the Options of the
\* other public fields.
Credentials == [auth : BOOLEAN, authPassword : Password,
                priv : {"none", "Des", "Aes128"}, privPassword : Password]

\* The three constructors.
NoAuthUser == [auth |-> FALSE, authPassword |-> "none",
               priv |-> "none", privPassword |-> "none"]

AuthOnly(password) == [NoAuthUser EXCEPT !.auth = TRUE, !.authPassword = password]

AuthPriv(password, priv, privPassword) ==
    [auth |-> TRUE, authPassword |-> password,
     priv |-> priv, privPassword |-> privPassword]

Constructed ==
    {NoAuthUser} \cup {AuthOnly(p) : p \in Password \ {"none"}} \cup
    {AuthPriv(p, proto, q) : p \in Password \ {"none"},
        proto \in {"Des", "Aes128"}, q \in Password \ {"none"}}

SecurityLevel(c) ==
    (IF c.auth THEN {"auth"} ELSE {}) \cup
    (IF c.priv # "none" THEN {"priv"} ELSE {})

\* derive_keys: a privacy key only beside an authentication key.
AuthKey(c) == IF c.auth THEN c.authPassword ELSE "none"

\* A mutant: the privacy key is derived in the branch without an
\* authentication key.
PrivKeyElsewhere(c) ==
    IF AuthKey(c) = "none" /\ c.priv # "none" THEN c.privPassword ELSE "none"

PrivKey(c) ==
    IF AuthKey(c) # "none" /\ c.priv # "none" THEN c.privPassword ELSE "none"

-----------------------------------------------------------------------------
\* msgAuthenticationParameters: absent, the placeholder of zeros, or a MAC.
NoAuth == <<>>

Placeholder == <<"zeros">>

ComputeAuth(key, params) == <<key>> \o params

VerifyAuth(key, covered, params) == ComputeAuth(key, covered) = params

\* find_auth_placeholder: the first run of zeros, wherever it stands.
FindPlaceholder(params) ==
    IF EarlyZeros THEN "early"
    ELSE IF params = Placeholder THEN "params" ELSE "none"

\* The parameters once the run of zeros it finds is zeroed.
Zeroed(params) ==
    IF FindPlaceholder(params) = "params" THEN Placeholder ELSE params

-----------------------------------------------------------------------------
\* A mutant: the salt is read and not advanced.
NextSaltStuck(salt) == salt

NextSalt(salt) == (salt + 1) % SaltSize

\* The initialization vectors of encrypt_des, up to the XOR with the key's
\* pre-IV, and of encrypt_aes128.
DesIv(boots, salt) == <<boots, salt % DesSaltSize>>

AesIv(boots, time, salt) == <<boots, time, salt>>

Iv(priv, boots, time, salt) ==
    IF priv = "Des" THEN DesIv(boots, salt) ELSE AesIv(boots, time, salt)

=============================================================================
