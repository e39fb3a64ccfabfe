----------------------------- MODULE MC_CAConfig -----------------------------
EXTENDS CAConfig, TLC

CONSTANTS ca1, ca2

MCCAs == {ca1, ca2}
\* unset, GM in lower case, SW in lower case, PKCS11
MCNames == {"", "gm", "sw", "PKCS11"}
\* unset, and the SHA2 of the default fabric-ca config file
MCHashes == {"", "SHA2"}
MCSecLevels == {0, 384}
\* unset, and a relative path
MCUserPaths == {<<>>, <<"ks">>}
MCMspDirs == {<<>>, <<"m">>}
MCHome == <<"/", "h">>
\* requests from below the floor to past the largest CA limit
MCUserValues == -3 .. 5
\* a limit below -1 (Unmarshal takes any int), an unlimited CA, a disabled
\* one, and limits 1 to 4
MCCAValues == -2 .. 4
\* the CAs are interchangeable
MCSymmetry == Permutations(MCCAs)
=============================================================================
