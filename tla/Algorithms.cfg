SPECIFICATION Spec
CONSTANTS
    Subjects = {"coding", "crc", "bloom", "random", "text"}
    Beginnings <- MCBeginnings
    Alphabet <- MCAlphabet
    Header <- MCHeader
    kMaxUint64 = 255
    kStackBufferSize = 6
INVARIANTS CodingExact InternalKeysExact CrcIsDivision ReaderAcceptsWriter NoFalseNegatives NextIsProductModM DecimalExact LinesWhole
