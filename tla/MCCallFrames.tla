--------------------------- MODULE MCCallFrames ---------------------------
(* Instances of CallFrames for TLC.  Addresses 1 and 2 have accounts, the  *)
(* first with code, 3 has none; the hash spreads words over all three.     *)
EXTENDS CallFrames, TLC

MCCodeWords == [c \in Codes \cup {NoCode} |->
                   IF c = NoCode THEN 0 ELSE IF c \in EofCodes THEN 2 ELSE 1]
MCCodeHash  == [c \in Codes \cup {NoCode} |-> MCCodeWords[c]]
MCRehash    == [n \in 0..WordMod - 1 |-> (n % 3) + 1]

Contract(balance, code, value) ==
    [balance |-> balance, code |-> code, storage |-> [k \in Keys |-> value],
     transient_storage |-> << >>]
LegacyCode == CHOOSE c \in Codes : c \notin EofCodes

EofCode    == CHOOSE c \in EofCodes : TRUE

MCAccounts ==
    {(1 :> Contract(2, LegacyCode, 0)) @@ (2 :> Contract(0, code, 1)) :
        code \in {NoCode, EofCode}}

Message(recipient, sender, is_static, gas, revision, code) ==
    [recipient |-> recipient, sender |-> sender, is_static |-> is_static,
     gas |-> gas, rev |-> revision, code |-> code]

MCMessages ==
    {Message(1, 2, FALSE, 10, SHANGHAI, LegacyCode),
     Message(1, 3, FALSE, 8, HOMESTEAD, LegacyCode),
     Message(3, 2, FALSE, 8, CONSTANTINOPLE, LegacyCode)}
    \cup {Message(1, 2, is_static, 8, PRAGUE, EofCode) : is_static \in BOOLEAN}

=============================================================================
