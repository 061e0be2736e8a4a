---------------------------- MODULE MC_KexCrypto ----------------------------
(* Model-checking instance of KexCrypto.  Sizes are in units of 16 bytes   *)
(* where they divide: the 32-byte digest is 2 and chacha20-poly1305's      *)
(* 64-byte key is 4; aes256-gcm's 32-byte key is 2 and its 12-byte IV,     *)
(* shorter than a digest, is 1.                                            *)
EXTENDS KexCrypto

CONSTANTS h1, h2

MC_Hashes == {h1, h2}

\* A secret whose first byte has the high bit set, and one without.
MC_Secrets == {<<200, 1>>, <<1, 200>>}

\* Identification lines of two lengths, each ending in CR LF as the
\* server's own line does (ServerConfig) and as the comment of
\* key_exchange_hash expects the client's to.
MC_Idents == {<<"S", 13, 10>>, <<"S", "v", 13, 10>>}

MC_Blobs == {<<"x">>, <<"y">>}

MC_EncAlgs ==
    [a \in {"chacha20-poly1305@openssh.com", "aes256-gcm@openssh.com"} |->
        IF a = "chacha20-poly1305@openssh.com" THEN [key |-> 4, iv |-> 0]
                                               ELSE [key |-> 2, iv |-> 1]]
=============================================================================
