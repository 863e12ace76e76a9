---------------------------- MODULE MCAccounts ----------------------------
\* Small instances of Accounts for TLC.
EXTENDS Accounts, TLC

\* One number in two spellings, another one, and a text that is no number.
Spellings == {<<"+", "1", "2">>, <<" ", "+", "1", "-", "2">>, <<"+", "2", "1">>,
              <<"1", "2">>}

Symmetry == Permutations(AccountIds) \cup Permutations(Tokens)
            \cup Permutations(Requests) \cup Permutations(Clients)
=============================================================================
