---------------------------- MODULE PoolDirectory ----------------------------
(***************************************************************************)
(* What the program promises about where pools live: a directory that only *)
(* grows.  A pool is entered once and for good, at the one home of its     *)
(* config and token pair or at an address that is nobody's home, while its *)
(* config is open, and its payer pays the price the config asks; only a    *)
(* payer permitted at that moment enters a pool that pays its creator.     *)
(***************************************************************************)
EXTENDS Integers

CONSTANTS
    Places,           \* addresses a pool may be at
    Homes,            \* those reserved for one config and pair of mints each
    Users, ConfigIds,
    Mints,            \* numbered in the order of their keys
    home(_, _, _)     \* the home of a config and two mints

VARIABLES directory, permitted, terms, paid

NoEntry == [taken |-> FALSE]

Entries == [taken : {TRUE}, config : ConfigIds, token_0 : Mints, token_1 : Mints,
            creator : Users, pays_creator : BOOLEAN]

Terms == [open : BOOLEAN, price : Nat]

Init ==
    /\ directory = [a \in Places |-> NoEntry]
    /\ permitted = {}
    /\ terms = [c \in ConfigIds |-> [open |-> FALSE, price |-> 0]]
    /\ paid = [u \in Users |-> 0]

\* The entry e of a pool is written.
Enter(a, payer) ==
    LET e == directory'[a]
    IN  /\ directory[a] = NoEntry
        /\ e \in Entries
        /\ terms[e.config].open
        /\ e.token_0 < e.token_1
        /\ a \in Homes => a = home(e.config, e.token_0, e.token_1)
        /\ IF e.pays_creator THEN payer \in permitted ELSE e.creator = payer
        /\ directory' = [directory EXCEPT ![a] = e]
        /\ paid' = [paid EXCEPT ![payer] = @ + terms[e.config].price]
        /\ UNCHANGED <<permitted, terms>>

Permit ==
    /\ permitted' \in SUBSET Users
    /\ UNCHANGED <<directory, terms, paid>>

SetTerms ==
    /\ terms' \in [ConfigIds -> Terms]
    /\ UNCHANGED <<directory, permitted, paid>>

Next ==
    \/ \E a \in Places, payer \in Users : Enter(a, payer)
    \/ Permit
    \/ SetTerms

Spec == Init /\ [][Next]_<<directory, permitted, terms, paid>>
=============================================================================
