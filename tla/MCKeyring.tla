------------------------------ MODULE MCKeyring ------------------------------
(* Small instances of Keyring for TLC. *)
EXTENDS Keyring, TLC

KeyringSymmetry ==
    Permutations(Keys) \union Permutations(Tools) \union Permutations(Mailboxes)

=============================================================================
