CONSTANTS
    ca1 = ca1
    ca2 = ca2
    NONE = NONE
    CAs <- MCCAs
    Names <- MCNames
    Hashes <- MCHashes
    SecLevels <- MCSecLevels
    UserPaths <- MCUserPaths
    MspDirs <- MCMspDirs
    Home <- MCHome
    UserValues <- MCUserValues
    CAValues <- MCCAValues
SYMMETRY MCSymmetry
SPECIFICATION Spec
INVARIANT TypeOK
INVARIANT KeyRequestMatchesProvider
INVARIANT KeystoreInPlace
INVARIANT RegistrationFollowsPolicy
