SPECIFICATION ConfigSpec
CONSTANTS
    Uint16 = 8
    Uint32 = 16
    MaxFeeStatsRetentionWindow = 6
    DefaultNumber <- MCDefaultNumber
    Texts <- MCTexts
    MaxSettings = 4
INVARIANTS
    StrongestSourceWins
    NetworkCoherent
    GeneratedFileReproduces
