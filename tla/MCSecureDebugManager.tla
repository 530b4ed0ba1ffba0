------------------------ MODULE MCSecureDebugManager ------------------------
EXTENDS SecureDebugManager, TLC

\* Two certificates with a TLV of another type between them.
MCChain == <<"PSA_BINARY_CRT", "other", "PSA_BINARY_CRT">>

Build(type, lock, reset) == [remoteReset |-> type, lockOnClose |-> lock, resetOnClose |-> reset]

\* Three builds, one for each way of opening, with the ways of closing spread over them.
MCConfigs ==
    {Build("NONE", TRUE, FALSE), Build("SYSTEM", FALSE, FALSE), Build("COM", TRUE, TRUE)}

\* The module says nothing of an address but that it is one.
MCSymmetry == Permutations(Addresses)
=============================================================================
