CONSTANTS
    Base = 3
    Byte = 4
    ED25519_MULTICODEC <- MCMulticodec
    KEY_LENGTH = 2
    ROOT_AGENT <- MCRoot
    Overrides <- MCOverrides
    NoOverride = NoOverride
    Passphrases = {"None", "short", "p", "q"}
    Short = {"short"}
    Stores <- MCStores
    MAX_MESSAGE_CHARS = 3
    MAX_NOTE_BYTES = 3
    MAX_NONCE_DIGITS = 2
    Rooms <- MCRooms
    Names <- MCNames
    Nonces = {0, 1, 111}
    Texts <- MCTexts
    Strangers <- MCStrangers
SPECIFICATION Spec
INVARIANTS CapabilityMatchesDid DidsUnambiguous SignedIsAccepted VerifiedIsAuthentic
ACTION_CONSTRAINT OneSigner
