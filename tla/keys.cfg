SPECIFICATION Spec
CONSTANT MaxFaults = 3
INVARIANTS
    TypeOK
    ServedPairIsSound
    NewPairsHaveACause
    CertificateHeals
