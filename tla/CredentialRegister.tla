------------------------- MODULE CredentialRegister -------------------------
(***************************************************************************)
(* What credential.json promises to every process that reads it, whatever  *)
(* the processes that write it do and wherever they stop: it is absent,    *)
(* or it holds one whole credential, whose token belongs to its key.  It   *)
(* is written in one step or not at all, and a file nobody can decode      *)
(* stays until a logout or relogin removes it.                             *)
(*                                                                         *)
(* Login.tla is the login as it is written, and implements this one.       *)
(***************************************************************************)
CONSTANTS
  Keys,        \* random_secret_key values
  NoKey,       \* "no key"
  NoToken,     \* "no token"
  Absent,      \* there is no credential.json
  Undecodable  \* credential.json is not JSON: edited by hand, or torn

VARIABLE register

(* A token can be decrypted with one key (or with none that is known), and *)
(* is signed with a key pair that is built in or not.                      *)
Tokens == [key : Keys \cup {NoKey}, known : BOOLEAN]
Credentials == [key : Keys \cup {NoKey}, token : Tokens \cup {NoToken}]

Decodes(token, key) == token # NoToken /\ key # NoKey /\ token.key = key

(* Whole: it has a key, and a token, when there is one, is of that key.    *)
Whole ==
  {[key |-> k, token |-> NoToken] : k \in Keys}
    \cup {[key |-> k, token |-> [key |-> k, known |-> b]] :
            k \in Keys, b \in BOOLEAN}

TypeOK == register \in Whole \cup {Absent, Undecodable}

Init == TypeOK

Clear == register' = Absent

Store(c) ==
  /\ register # Undecodable
  /\ register' = c

Next == Clear \/ \E c \in Whole : Store(c)

Spec == Init /\ [][Next]_register
=============================================================================
