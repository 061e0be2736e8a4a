\* Every pair of name-lists of up to three of three names, every key length
\* up to two and a half digests, sessions set up once or rekeyed, and
\* exchange hashes over every choice of two identification lines,
\* KEXINITs, host keys, points and secrets.
CONSTANTS
    Names = {"a", "b", "c"}
    MaxList = 3
    h1 = h1
    h2 = h2
    Hashes <- MC_Hashes
    Secrets <- MC_Secrets
    Idents <- MC_Idents
    Blobs <- MC_Blobs
    Sha2Len = 2
    MaxKeySize = 5
    EncAlgs <- MC_EncAlgs
SPECIFICATION Spec
INVARIANT FindFollowsRfc
INVARIANT DeriveKeyFollowsRfc
INVARIANT SessionKeysFollowRfc
INVARIANT ExchangeHashFollowsRfc
