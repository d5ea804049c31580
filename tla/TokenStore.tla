----------------------------- MODULE TokenStore -----------------------------
(***************************************************************************)
(* What a shared ITokenStorage promises its callers (auth/types.ts): `set` *)
(* and `delete` change the record of one character and leave every other   *)
(* record as it is.                                                        *)
(***************************************************************************)
CONSTANTS Character, Token, NoToken

VARIABLE tokens   \* tokens[c]: the stored record of character c, or NoToken

Init == tokens = [c \in Character |-> NoToken]

Put(c, t) == tokens' = [tokens EXCEPT ![c] = t]

Next == \E c \in Character, t \in Token \cup {NoToken} : Put(c, t)

Spec == Init /\ [][Next]_tokens
=============================================================================
