------------------------------ MODULE CAConfig ------------------------------
(***************************************************************************)
(* The start-up configuration of the CAs of a fabric-ca-gm server          *)
(* (src/lib/util.go, src/util/configurebccsp.go, src/lib/keyrequest.go).  *)
(*                                                                         *)
(* Each CA reads its config file (UnmarshalConfig), configures its BCCSP   *)
(* options in place (ConfigureBCCSP, handed &cfg.CSP) and asks for the key *)
(* request of its signing key (GetKeyRequest).  ConfigureBCCSP also        *)
(* records the provider with SetProviderName of its own package util (not *)
(* in src/), in util's package variable providerName.  lib/util.go's       *)
(* providerName, read by lib.IsGMConfig, is another variable: lib imports  *)
(* util, so util cannot write it, and nothing in src/ calls                *)
(* lib.SetProviderName; it is not modelled.  The server that calls these   *)
(* for each CA is outside src/; the model lets the CAs' steps interleave   *)
(* in any order.                                                           *)
(*                                                                         *)
(* The BCCSP options are records with NONE for a nil pointer.  A path is a *)
(* sequence of path segments, "/" first for an absolute one.  The factory  *)
(* initialisation (factory.InitFactories, outside src/) succeeds or fails. *)
(***************************************************************************)
EXTENDS MaxEnrollments, Sequences, SequencesExt

CONSTANTS
    CAs,         \* the CAs of the server
    Names,       \* ProviderName values a config file can carry
    Hashes,      \* HashFamily values a config file can carry ("" unset)
    SecLevels,   \* SecLevel values a config file can carry (0 unset)
    UserPaths,   \* KeyStorePath values a config file can carry
    MspDirs,     \* the mspDir argument of ConfigureBCCSP
    Home,        \* the (absolute) home directory
    UserValues,  \* MaxEnrollments values of registration requests
    CAValues,    \* MaxEnrollments values a CA can be configured with
    NONE         \* nil

VARIABLES
    phase,        \* phase[ca]: how far the CA's start-up got
    csp,          \* csp[ca]: cfg.CSP, the CA's *factory.FactoryOpts
    msp,          \* msp[ca]: the mspDir its ConfigureBCCSP was given
    keyReq,       \* keyReq[ca]: what GetKeyRequest(cfg) returned
    maxEnroll,    \* maxEnroll[ca]: cfg.Registry.MaxEnrollments
    providerName  \* package util's variable providerName

vars == <<phase, csp, msp, keyReq, maxEnroll, providerName>>

(* strings.ToUpper on the provider names of the model *)
Upper(n) == CASE n = "gm" -> "GM" [] n = "sw" -> "SW" [] OTHER -> n

(* the bccsp section of a config file: absent, or provider, SW and PKCS11 *)
(* options as viper decodes them                                           *)
SwFileOpts == [hash : Hashes, sec : SecLevels,
               ks : {NONE} \cup [path : UserPaths]]
FileOpts == [provider : Names, sw : {NONE} \cup SwFileOpts,
             pkcs11 : {NONE} \cup [sec : SecLevels \ {0}]]

-----------------------------------------------------------------------------
(* util.SetProviderName(name) *)
SetProviderName(name) == providerName' = name

(* util.MakeFileAbs (outside src/): "" stays, an absolute path stays, a   *)
(* relative one is joined to the home directory                            *)
MakeFileAbs(p, home) ==
    IF p = <<>> \/ Head(p) = "/" THEN p ELSE home \o p

(* makeFileNamesAbsolute: the file keystore path is made absolute *)
MakeFileNamesAbsolute(o, home) ==
    IF o.sw # NONE /\ o.sw.ks # NONE
    THEN [o EXCEPT !.sw.ks.path = MakeFileAbs(@, home)]
    ELSE o

NewSwOpts == [hash |-> "", sec |-> 0, ks |-> NONE]

(* the SW (or GM) branch with the security level left unset *)
SwDefaultsNoSecLevel(sw, family, mspDir) ==
    LET s == IF sw = NONE THEN NewSwOpts ELSE sw
        t == [s EXCEPT !.hash = IF @ = "" THEN family ELSE @,
                       !.ks   = IF @ = NONE THEN [path |-> <<>>] ELSE @]
    IN [t EXCEPT !.ks.path = IF mspDir # <<>> THEN mspDir \o <<"keystore">>
                             ELSE IF @ = <<>> THEN <<"msp", "keystore">> ELSE @]

(* the branch with a configured keystore path taking precedence over      *)
(* mspDir                                                                  *)
SwDefaultsUserPathFirst(sw, family, mspDir) ==
    LET s == IF sw = NONE THEN NewSwOpts ELSE sw
        t == [s EXCEPT !.hash = IF @ = "" THEN family ELSE @,
                       !.sec  = IF @ = 0 THEN 256 ELSE @,
                       !.ks   = IF @ = NONE THEN [path |-> <<>>] ELSE @]
    IN [t EXCEPT !.ks.path = IF @ # <<>> THEN @
                             ELSE IF mspDir # <<>> THEN mspDir \o <<"keystore">>
                             ELSE <<"msp", "keystore">>]

(* The SW and the GM branch of ConfigureBCCSP: create the SwOpts, default *)
(* the hash family (SHA2 or GMSM3) and the security level (256), create   *)
(* the file keystore options; mspDir overrides the keystore path,         *)
(* otherwise an unset one defaults to msp/keystore.                        *)
SwDefaults(sw, family, mspDir) ==
    LET s == IF sw = NONE THEN NewSwOpts ELSE sw
        t == [s EXCEPT !.hash = IF @ = "" THEN family ELSE @,
                       !.sec  = IF @ = 0 THEN 256 ELSE @,
                       !.ks   = IF @ = NONE THEN [path |-> <<>>] ELSE @]
    IN [t EXCEPT !.ks.path = IF mspDir # <<>> THEN mspDir \o <<"keystore">>
                             ELSE IF @ = <<>> THEN <<"msp", "keystore">> ELSE @]

(* the two branches, chosen by strings.ToUpper(opts.ProviderName) *)
ProviderDefaults(o, mspDir) ==
    CASE Upper(o.provider) = "SW" -> [o EXCEPT !.sw = SwDefaults(@, "SHA2", mspDir)]
      [] Upper(o.provider) = "GM" -> [o EXCEPT !.sw = SwDefaults(@, "GMSM3", mspDir)]
      [] OTHER                    -> o

-----------------------------------------------------------------------------
(* UnmarshalConfig: ReadInConfig may fail, the Unmarshal into the config  *)
(* may fail, and for a server config the second Unmarshal into its CAcfg  *)
(* may fail.  On an error the caller stops the CA, so what a failed       *)
(* Unmarshal left half-decoded is never read.                              *)
UnmarshalConfig(ca) ==
    /\ phase[ca] = "start"
    /\ \E f \in {NONE} \cup FileOpts, m \in CAValues, server \in BOOLEAN :
       \E err \in {"none", "read", "format"} \cup (IF server THEN {"caFormat"} ELSE {}) :
          IF err = "none"
          THEN /\ phase' = [phase EXCEPT ![ca] = "loaded"]
               /\ csp' = [csp EXCEPT ![ca] = f]
               /\ maxEnroll' = [maxEnroll EXCEPT ![ca] = m]
          ELSE phase' = [phase EXCEPT ![ca] = "failed"] /\ UNCHANGED <<csp, maxEnroll>>
    /\ UNCHANGED <<msp, keyReq, providerName>>

(* ConfigureBCCSP(&cfg.CSP, mspDir, homeDir).  optsPtr is the address of  *)
(* a field, never nil.  A nil *optsPtr is replaced by empty options; the  *)
(* provider is set to "GM" whatever the file said (the check for an unset *)
(* name is commented out) and recorded by SetProviderName; the branch for *)
(* the provider fills in defaults; the keystore path is made absolute;    *)
(* the factories are initialised.  Only on success is *optsPtr assigned,  *)
(* but opts is *optsPtr when that was not nil, so a failure still leaves  *)
(* the caller's options changed in place.                                 *)
ConfigureBCCSP(ca) ==
    /\ phase[ca] = "loaded"
    /\ \E mspDir \in MspDirs, initOk \in BOOLEAN :
          LET o0 == IF csp[ca] = NONE THEN [provider |-> "", sw |-> NONE, pkcs11 |-> NONE]
                    ELSE csp[ca]
              o1 == [o0 EXCEPT !.provider = "GM"]
              o  == MakeFileNamesAbsolute(ProviderDefaults(o1, mspDir), Home)
          IN /\ SetProviderName(o1.provider)
             /\ msp' = [msp EXCEPT ![ca] = mspDir]
             /\ phase' = [phase EXCEPT ![ca] = IF initOk THEN "configured" ELSE "failed"]
             /\ csp' = [csp EXCEPT ![ca] = IF initOk \/ csp[ca] # NONE THEN o ELSE NONE]
    /\ UNCHANGED <<keyReq, maxEnroll>>

(* api.NewBasicKeyRequest (outside src/) *)
NewBasicKeyRequest == [algo |-> "ecdsa", size |-> 256]

(* GetKeyRequest consulting the PKCS11 options before the SW ones *)
KeyRequestPkcs11First(o) ==
    CASE o.pkcs11 # NONE -> [algo |-> "ecdsa", size |-> o.pkcs11.sec]
      [] o.sw # NONE     -> [algo |-> "ecdsa", size |-> o.sw.sec]
      [] OTHER           -> NewBasicKeyRequest

(* GetKeyRequest(cfg): the SW options' security level if there are SW     *)
(* options, else the PKCS11 options', else the default request            *)
KeyRequest(o) ==
    CASE o.sw # NONE     -> [algo |-> "ecdsa", size |-> o.sw.sec]
      [] o.pkcs11 # NONE -> [algo |-> "ecdsa", size |-> o.pkcs11.sec]
      [] OTHER           -> NewBasicKeyRequest

(* the CA builds the request for its signing key *)
GetKeyRequest(ca) ==
    /\ phase[ca] = "configured" /\ keyReq[ca] = NONE
    /\ keyReq' = [keyReq EXCEPT ![ca] = KeyRequest(csp[ca])]
    /\ UNCHANGED <<phase, csp, msp, maxEnroll, providerName>>

Init ==
    /\ phase = [ca \in CAs |-> "start"]
    /\ csp = [ca \in CAs |-> NONE]
    /\ msp = [ca \in CAs |-> <<>>]
    /\ keyReq = [ca \in CAs |-> NONE]
    /\ maxEnroll = [ca \in CAs |-> 0]
    /\ providerName = ""

Next == \E ca \in CAs : UnmarshalConfig(ca) \/ ConfigureBCCSP(ca) \/ GetKeyRequest(ca)

(* every CA has stopped or has its key request: start-up is over *)
Done ==
    /\ \A ca \in CAs : phase[ca] = "failed" \/ keyReq[ca] # NONE
    /\ UNCHANGED vars

Spec == Init /\ [][Next \/ Done]_vars


-----------------------------------------------------------------------------
(* Properties *)

KeyRequests == [algo : {"ecdsa"}, size : (SecLevels \cup {256}) \ {0}]

(* the CA's key request asks for a real key size *)
TypeOK ==
    /\ phase \in [CAs -> {"start", "loaded", "configured", "failed"}]
    /\ csp \in [CAs -> {NONE} \cup [provider : Names \cup {"GM"},
                                    sw : {NONE} \cup [hash : Hashes \cup {"SHA2", "GMSM3"},
                                                      sec : SecLevels \cup {256},
                                                      ks : {NONE} \cup [path : Seq(STRING)]],
                                    pkcs11 : {NONE} \cup [sec : SecLevels \ {0}]]]
    /\ keyReq \in [CAs -> {NONE} \cup KeyRequests]
    /\ maxEnroll \in [CAs -> CAValues \cup {0}]
    /\ providerName \in Names \cup {"", "GM"}

(* the options of the provider the CA's options name *)
ProviderOpts(o) == IF Upper(o.provider) = "PKCS11" THEN o.pkcs11 ELSE o.sw

(* GetKeyRequest picks the SW options' security level whenever there are *)
(* SW options, whatever the provider: the key a CA requests must have the *)
(* security level of the provider its BCCSP is initialised with, whatever *)
(* mix of SW and PKCS11 options its config file held.                     *)
KeyRequestMatchesProvider ==
    \A ca \in CAs :
       keyReq[ca] # NONE =>
          /\ ProviderOpts(csp[ca]) # NONE
          /\ keyReq[ca].size = ProviderOpts(csp[ca]).sec

(* A CA configured for a software provider keeps its keys in a file      *)
(* keystore at an absolute path, inside the msp directory it was given    *)
(* when it was given one, whatever keystore path its config file named.   *)
KeystoreInPlace ==
    \A ca \in CAs :
       (phase[ca] = "configured" /\ Upper(csp[ca].provider) \in {"SW", "GM"}) =>
          LET p == csp[ca].sw.ks.path IN
          /\ p # <<>> /\ Head(p) = "/"
          /\ msp[ca] # <<>> => IsPrefix(MakeFileAbs(msp[ca], Home), p)

(* A registration at a CA whose config was read checks the requested     *)
(* limit with getMaxEnrollments against the CA's configured limit: for    *)
(* every request, and every CA limit the code's comments speak of (-1      *)
(* unlimited, 0 disabled, a positive maximum), the result follows the      *)
(* policy those comments state.  A configured limit below -1, which        *)
(* Unmarshal accepts, falls into the positive-maximum branch, for which    *)
(* the comments promise nothing; the model reaches it but this property    *)
(* does not speak of it.                                                   *)
RegistrationFollowsPolicy ==
    \A ca \in CAs :
       (phase[ca] \in {"loaded", "configured"} /\ maxEnroll[ca] >= -1) =>
          \A u \in UserValues :
             GetMaxEnrollments(u, maxEnroll[ca]) = Policy(u, maxEnroll[ca])
=============================================================================
