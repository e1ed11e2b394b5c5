---------------------------- MODULE SignerWiring ----------------------------
(***************************************************************************)
(* From a keystore file to a signing capability: settings.load,            *)
(* root_agent_capability_signer, build_capability_signer and               *)
(* load_encrypted_pem (config/settings.py, identity/capability.py,         *)
(* identity/wiring.py, identity/keystore.py).                              *)
(*                                                                         *)
(* The path is looked at eight times on the way, each time as it then is:  *)
(*                                                                         *)
(*   settings -> inside -> symlink -> exists -> is_file -> mode -> parent  *)
(*            -> read -> match -> capability                               *)
(*                                                                         *)
(* and whoever owns the file (rotating a key, restoring a backup, changing *)
(* a mode) may change it between any two.  The passphrase is measured      *)
(* between is_file and mode.                                               *)
(***************************************************************************)
EXTENDS DidKey

CONSTANTS ROOT_AGENT,    \* the committed did:key
          Overrides,     \* values FLOPOFFICE_ROOT_AGENT_DID may have
          NoOverride,    \* it is not set
          Passphrases,   \* what a caller may pass for one, "None" included
          Short,         \* those too short, or neither str nor bytes
          Stores         \* what may be found at the keystore path

(* config/public_identity.py validates the committed did when it is imported; *)
(* an override may be any string.                                             *)
ASSUME RootAssumption == /\ ROOT_AGENT \in Dids /\ Overrides \subseteq Dids
                         /\ decode_did_key(ROOT_AGENT).error = "none"

VARIABLES call,          \* the call in progress: its stage, arguments, what it knows
          store,         \* what is at the path
          capability,    \* the capability the program holds
          outcome        \* how the last call ended

wiringVars == <<call, store, capability, outcome>>

NoCall == [at |-> "idle"]
NoCapability == [held |-> FALSE]
Unobserved == [kind |-> "unobserved"]

WiringInit == /\ call = NoCall
              /\ store = Unobserved
              /\ capability = NoCapability
              /\ outcome = "none"

(* The call is over; nobody looks at the path any more. *)
EndCall(how) == /\ call' = NoCall /\ store' = Unobserved /\ outcome' = how

Refuse(how) == EndCall(how) /\ UNCHANGED capability

OnTo(stage) == /\ call' = [call EXCEPT !.at = stage]
               /\ UNCHANGED <<store, capability, outcome>>

-----------------------------------------------------------------------------
(* root_agent_capability_signer up to settings.load *)
CallSigner(enable, passphrase, allow_notes, found) ==
    /\ call.at = "idle"
    /\ enable /\ passphrase # "None"
    /\ store' = found
    /\ call' = [at |-> "settings", passphrase |-> passphrase,
                allow_notes |-> allow_notes, override |-> NoOverride,
                expected |-> ROOT_AGENT, key |-> <<>>]
    /\ outcome' = "none"
    /\ UNCHANGED capability

(* The gate is closed, or there is no passphrase: nothing is looked at. *)
CallRefused(enable, passphrase) ==
    /\ call.at = "idle"
    /\ ~enable \/ passphrase = "None"
    /\ outcome' = IF enable THEN "KeystoreError" ELSE "KeyNotWiredError"
    /\ UNCHANGED <<call, store, capability>>

(* Mutant: an override is checked, and the committed did is expected.        *)
ExpectedDidCommitted(override) ==
    [error |-> IF override = NoOverride THEN "none"
               ELSE IF decode_did_key(override).error = "DidKeyError" THEN "ConfigError"
               ELSE decode_did_key(override).error,
     did |-> ROOT_AGENT]

(* Which did settings.load expects, or what it raises: only DidKeyError is   *)
(* turned into ConfigError.                                                  *)
ExpectedDid(override) ==
    IF override = NoOverride THEN [error |-> "none", did |-> ROOT_AGENT]
    ELSE LET parsed == decode_did_key(override)
         IN  [error |-> IF parsed.error = "DidKeyError" THEN "ConfigError"
                        ELSE parsed.error, did |-> override]

(* load(environ) and the check that a keystore is configured. *)
LoadSettings(env) ==
    /\ call.at = "settings"
    /\ LET root == ExpectedDid(env.override)
       IN  CASE env.secret_shaped -> Refuse("ConfigError")
             [] ~env.secret_shaped /\ root.error # "none" -> Refuse(root.error)
             [] ~env.secret_shaped /\ root.error = "none"
                   /\ (~env.keystore_set \/ store.inside_repo) -> Refuse("ConfigError")
             [] OTHER -> /\ call' = [call EXCEPT !.at = "inside", !.expected = root.did,
                                               !.override = env.override]
                         /\ UNCHANGED <<store, capability, outcome>>

-----------------------------------------------------------------------------
(* load_encrypted_pem, one look at the path at a time *)

Check(stage, ok, next, refusal) ==
    /\ call.at = stage
    /\ IF ok THEN OnTo(next) ELSE Refuse(refusal)

Inside  == Check("inside",  ~store.inside_repo,     "symlink",    "KeystoreError")
Symlink == Check("symlink", ~store.symlink,         "exists",     "KeystoreError")
Exists  == Check("exists",  store.kind # "absent",  "is_file",    "KeystoreError")
IsFile  == Check("is_file", store.kind = "file",    "passphrase", "KeystoreError")

MeasurePassphrase ==
    Check("passphrase", call.passphrase \notin Short, "mode", "KeystoreError")

(* stat() of a file that has gone raises an OSError of its own. *)
Mode == IF call.at = "mode" /\ store.kind = "absent" THEN Refuse("OSError")
        ELSE Check("mode", store.private, "parent", "KeystorePermissionError")

Parent == Check("parent", store.parent_private, "read", "KeystorePermissionError")

(* What load_pem_private_key makes of the bytes, and the type check. *)
Readable(content, passphrase) ==
    content.form = "encrypted" /\ content.passphrase = passphrase
    /\ content.type = "Ed25519"

(* read_bytes, decryption and the handle: a file that has gone, a directory, *)
(* an unencrypted key and a wrong passphrase are all KeystoreError.          *)
ReadKeystore ==
    /\ call.at = "read"
    /\ IF store.kind = "file" /\ Readable(store.content, call.passphrase)
       THEN /\ call' = [call EXCEPT !.at = "match", !.key = store.content.key]
            /\ UNCHANGED <<store, capability, outcome>>
       ELSE Refuse("KeystoreError")

-----------------------------------------------------------------------------
(* wiring.assert_key_matches_did, and the capability *)

Match ==
    /\ call.at = "match"
    /\ LET got == encode_did_key(call.key)
       IN  IF call.key # decode_did_key(call.expected).key
           THEN Refuse("DidMismatchError")
           ELSE IF got # call.expected THEN Refuse("DidMismatchError: ambiguous")
           ELSE /\ capability' = [held |-> TRUE, key |-> call.key, did |-> got,
                                  allow_notes |-> call.allow_notes,
                                  configured |-> call.override]
                /\ EndCall("granted")

(* Whoever owns the keystore changes what is at the path. *)
ChangeStore(found) ==
    /\ call.at \notin {"idle", "match"}
    /\ found # store
    /\ store' = found
    /\ UNCHANGED <<call, capability, outcome>>

Environs == [secret_shaped : BOOLEAN, keystore_set : BOOLEAN,
             override : Overrides \cup {NoOverride}]

Wiring ==
    \/ \E enable \in BOOLEAN, passphrase \in Passphrases :
          \/ CallRefused(enable, passphrase)
          \/ \E notes \in BOOLEAN, found \in Stores :
                CallSigner(enable, passphrase, notes, found)
    \/ \E env \in Environs : LoadSettings(env)
    \/ Inside \/ Symlink \/ Exists \/ IsFile \/ MeasurePassphrase
    \/ Mode \/ Parent \/ ReadKeystore \/ Match
    \/ \E found \in Stores : ChangeStore(found)

-----------------------------------------------------------------------------
(* Properties *)

(* Whatever happened to the file and whatever the environment said: the key  *)
(* that signs is the key of the did that was configured (the override, or    *)
(* the committed one), and signs under exactly that did (wiring.py).         *)
CapabilityMatchesDid ==
    capability.held =>
        LET did == IF capability.configured = NoOverride THEN ROOT_AGENT
                   ELSE capability.configured
        IN  /\ capability.did = did
            /\ decode_did_key(did) = [error |-> "none", key |-> capability.key]

(* wiring.py:95 says "unreachable while encoding is canonical": no did:key   *)
(* string the validator lets through is a second name of the same key.       *)
DidsUnambiguous == outcome # "DidMismatchError: ambiguous"
=============================================================================
