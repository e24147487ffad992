---------------------------- MODULE PoolRegistry ----------------------------
(***************************************************************************)
(* Where pools are created and by whom: the accounts on the ledger, the    *)
(* permission accounts and the creation half of initialize and             *)
(* initialize_with_permission, whose liquidity half is in Pool.tla.        *)
(*                                                                         *)
(* An account is known by its address.  A derived address is the tuple of  *)
(* its seeds; only the program signs for it.  The address of a keypair is  *)
(* a model value; whoever holds the keypair signs for it.  Anybody may     *)
(* send lamports to any address before an account is created there, and    *)
(* an address that holds lamports cannot be created the usual way.         *)
(***************************************************************************)
EXTENDS Integers

CONSTANTS
    ADMIN,                \* crate::admin::ID
    Wallets,              \* users who pay, create or are permitted
    Keypairs,             \* fresh keys a pool may be created at
    ConfigIds,            \* indices of the amm configs
    Mints,                \* mints, ordered as their keys are
    mint_program,         \* the token program of each mint
    mint_whitelist,       \* MINT_WHITELIST
    mint_extensions,      \* the Token-2022 extensions of each mint
    RENT,                 \* lamports that make an account rent exempt
    Gifts,                \* lamports sent to an address
    Fundable,             \* bound: the addresses somebody sends lamports to
    CreatePoolFees        \* create_pool_fee arguments

ASSUME RegistryAssumption ==
    /\ ADMIN \in Wallets
    /\ Mints \subseteq Nat
    /\ mint_program \in [Mints -> {"token", "token_2022"}]
    /\ mint_whitelist \subseteq Mints
    /\ DOMAIN mint_extensions = Mints
    /\ RENT \in Nat \ {0}
    /\ Gifts \subseteq Nat \ {0}
    /\ CreatePoolFees \subseteq Nat

\* Derived addresses, by their seeds.
pool_address(c, mint_0, mint_1) == <<"pool", c, mint_0, mint_1>>
vault_address(pool, mint)       == <<"pool_vault", pool, mint>>
lp_mint_address(pool)           == <<"pool_lp_mint", pool>>
observation_address(pool)       == <<"observation", pool>>
permission_address(authority)   == <<"permission", authority>>

DerivedPools == {pool_address(c, m, n) : c \in ConfigIds, m \in Mints, n \in Mints}

PoolAddresses == DerivedPools \cup Keypairs

DerivedAddresses ==
    DerivedPools
        \cup {vault_address(p, m) : p \in PoolAddresses, m \in Mints}
        \cup {lp_mint_address(p) : p \in PoolAddresses}
        \cup {observation_address(p) : p \in PoolAddresses}
        \cup {permission_address(w) : w \in Wallets}

Addresses == Keypairs \cup DerivedAddresses

\* A derived address is off the curve: no keypair has it.
ASSUME KeypairAssumption == Keypairs \cap DerivedAddresses = {}

ASSUME FundableAssumption == Fundable \subseteq Addresses

VARIABLES
    account,           \* owner and lamports of every address
    pool_state,        \* the PoolState at an address
    amm_config,        \* the AmmConfig accounts, as far as creation reads them
    create_pool_fee    \* lamports create_pool_fee_reveiver got from each payer

vars == <<account, pool_state, amm_config, create_pool_fee>>

Accounts == [owner : {"system", "program", "token"}, lamports : Nat]

NoPool == [taken |-> FALSE]

PoolStates == [taken : {TRUE}, config : ConfigIds, token_0 : Mints, token_1 : Mints,
               creator : Wallets, pays_creator : BOOLEAN]

Configs == [created : BOOLEAN, disable_create_pool : BOOLEAN, create_pool_fee : Nat]

NoConfig == [created |-> FALSE, disable_create_pool |-> FALSE, create_pool_fee |-> 0]

Init ==
    /\ account = [a \in Addresses |-> [owner |-> "system", lamports |-> 0]]
    /\ pool_state = [a \in PoolAddresses |-> NoPool]
    /\ amm_config = [c \in ConfigIds |-> NoConfig]
    /\ create_pool_fee = [w \in Wallets |-> 0]

-----------------------------------------------------------------------------
(* utils/token.rs *)

SupportedExtensions ==
    {"TransferFeeConfig", "MetadataPointer", "TokenMetadata", "InterestBearingConfig"}

is_supported_mint(mint) ==
    \/ mint_program[mint] = "token"
    \/ mint \in mint_whitelist
    \/ mint_extensions[mint] \subseteq SupportedExtensions

\* The system program creates an account on an empty address only, and
\* allocates and assigns one it still owns.
unallocated(a) == account[a].owner = "system"

\* Mutant: an address that holds lamports is not treated apart.
can_create_empty(a) == unallocated(a) /\ account[a].lamports = 0

can_create(a) == unallocated(a)

\* Mutant: lamports found on the address are taken for enough.
created_without_top_up(a, program_id) ==
    [owner |-> program_id,
     lamports |-> IF account[a].lamports = 0 THEN RENT ELSE account[a].lamports]

\* create_or_allocate_account: an empty address is created with the rent; one
\* that holds lamports is topped up, allocated and assigned.  Anchor's `init`
\* does the same.
created(a, program_id) ==
    [owner |-> program_id,
     lamports |-> IF account[a].lamports >= RENT THEN account[a].lamports ELSE RENT]

-----------------------------------------------------------------------------
(* instructions/initialize.rs and initialize_with_permission.rs *)

\* Mutant: the order of the mints is not looked at.
mints_accepted_in_any_order(mint_0, mint_1) ==
    /\ mint_0 # mint_1
    /\ is_supported_mint(mint_0)
    /\ is_supported_mint(mint_1)

mints_accepted(mint_0, mint_1) ==
    /\ mint_0 < mint_1
    /\ is_supported_mint(mint_0)
    /\ is_supported_mint(mint_1)

\* The accounts a creation adds next to the pool, with their owners.
pool_accounts(pool, mint_0, mint_1) ==
    {<<pool, "program">>, <<observation_address(pool), "program">>,
     <<lp_mint_address(pool), "token">>,
     <<vault_address(pool, mint_0), "token">>, <<vault_address(pool, mint_1), "token">>}

\* Mutant: the receiver pays.
fee_given(c, payer) == [create_pool_fee EXCEPT ![payer] = @ - amm_config[c].create_pool_fee]

\* What the receiver got after a creation under config c.
fee_received(c, payer) ==
    [create_pool_fee EXCEPT ![payer] = @ + amm_config[c].create_pool_fee]

\* The pool is at the derived address or any other one that signs the
\* transaction; derived addresses cannot sign.
creation_accepted(pool, c, mint_0, mint_1) ==
    /\ amm_config[c].created
    /\ ~amm_config[c].disable_create_pool
    /\ mints_accepted(mint_0, mint_1)
    /\ pool = pool_address(c, mint_0, mint_1) \/ pool \in Keypairs
    /\ \A n \in pool_accounts(pool, mint_0, mint_1) : can_create(n[1])

CreatePool(payer, creator, pool, c, mint_0, mint_1, pays_creator) ==
    LET new == pool_accounts(pool, mint_0, mint_1)
    IN  /\ creation_accepted(pool, c, mint_0, mint_1)
        /\ account' = [a \in Addresses |->
               IF \E n \in new : n[1] = a
               THEN created(a, (CHOOSE n \in new : n[1] = a)[2])
               ELSE account[a]]
        /\ pool_state' = [pool_state EXCEPT ![pool] =
               [taken |-> TRUE, config |-> c, token_0 |-> mint_0, token_1 |-> mint_1,
                creator |-> creator, pays_creator |-> pays_creator]]
        /\ create_pool_fee' = fee_received(c, payer)
        /\ UNCHANGED amm_config

Initialize(creator, pool, c, mint_0, mint_1) ==
    CreatePool(creator, creator, pool, c, mint_0, mint_1, FALSE)

\* Mutant: the permission looked at is that of the creator, who signs nothing.
permission_of_creator(payer, creator) ==
    account[permission_address(creator)].owner = "program"

\* The permission account must exist at the address derived from the payer.
permission_given(payer, creator) ==
    account[permission_address(payer)].owner = "program"

\* The creator, who earns the creator fees, is any account the payer names.
InitializeWithPermission(payer, creator, pool, c, mint_0, mint_1) ==
    /\ permission_given(payer, creator)
    /\ CreatePool(payer, creator, pool, c, mint_0, mint_1, TRUE)

-----------------------------------------------------------------------------
(* instructions/admin *)

CreatePermissionPda(owner, permission_authority) ==
    LET permission == permission_address(permission_authority)
    IN  /\ owner = ADMIN
        /\ can_create(permission)
        /\ account' = [account EXCEPT ![permission] = created(permission, "program")]
        /\ UNCHANGED <<pool_state, amm_config, create_pool_fee>>

\* Anchor's `close`: the lamports go to the admin and the account is gone.
ClosePermissionPda(owner, permission_authority) ==
    LET permission == permission_address(permission_authority)
    IN  /\ owner = ADMIN
        /\ account[permission].owner = "program"
        /\ account' = [account EXCEPT ![permission] = [owner |-> "system", lamports |-> 0]]
        /\ UNCHANGED <<pool_state, amm_config, create_pool_fee>>

\* The rates of a config are in AmmConfig.tla.
CreateAmmConfig(owner, index, pool_fee) ==
    /\ owner = ADMIN
    /\ ~amm_config[index].created
    /\ amm_config' = [amm_config EXCEPT ![index] =
           [created |-> TRUE, disable_create_pool |-> FALSE, create_pool_fee |-> pool_fee]]
    /\ UNCHANGED <<account, pool_state, create_pool_fee>>

\* Params 5 and 6 of update_amm_config.
UpdateAmmConfig(owner, index, param, value) ==
    /\ owner = ADMIN
    /\ amm_config[index].created
    /\ \/ param = 5 /\ amm_config' = [amm_config EXCEPT ![index].create_pool_fee = value]
       \/ param = 6 /\ amm_config' = [amm_config EXCEPT
                           ![index].disable_create_pool = (value # 0)]
    /\ UNCHANGED <<account, pool_state, create_pool_fee>>

-----------------------------------------------------------------------------
(* The ledger and the client. *)

Fund(a, lamports) ==
    /\ account[a].lamports = 0
    /\ account' = [account EXCEPT ![a].lamports = lamports]
    /\ UNCHANGED <<pool_state, amm_config, create_pool_fee>>

\* InitializePool of the client sorts the mints it is given.
client_mints(mint0, mint1) == IF mint0 > mint1 THEN <<mint1, mint0>> ELSE <<mint0, mint1>>

\* Where it creates the pool: at random_pool, a set of one new keypair, which
\* signs, or without one at the derived address.
client_pool(index, mints, random_pool) ==
    IF random_pool = {}
    THEN pool_address(index, mints[1], mints[2])
    ELSE CHOOSE key \in random_pool : TRUE

\* What the client asks for is accepted.
client_accepted(index, mint0, mint1, random_pool) ==
    LET mints == client_mints(mint0, mint1)
    IN  creation_accepted(client_pool(index, mints, random_pool), index, mints[1], mints[2])

Next ==
    \/ \E w, x \in Wallets, p \in PoolAddresses, c \in ConfigIds, m, n \in Mints :
         \/ Initialize(w, p, c, m, n)
         \/ InitializeWithPermission(w, x, p, c, m, n)
    \/ \E w, x \in Wallets : CreatePermissionPda(w, x) \/ ClosePermissionPda(w, x)
    \/ \E w \in Wallets, c \in ConfigIds :
         \/ \E pool_fee \in CreatePoolFees : CreateAmmConfig(w, c, pool_fee)
         \/ \E param \in {5, 6}, value \in CreatePoolFees : UpdateAmmConfig(w, c, param, value)
    \/ \E a \in Fundable, lamports \in Gifts : Fund(a, lamports)

Spec == Init /\ [][Next]_vars

-----------------------------------------------------------------------------

TypeOK ==
    /\ account \in [Addresses -> Accounts]
    /\ pool_state \in [PoolAddresses -> PoolStates \cup {NoPool}]
    /\ amm_config \in [ConfigIds -> Configs]
    /\ create_pool_fee \in [Wallets -> Nat]

\* The accounts on the ledger and the pools agree: an address holds a pool
\* exactly when the program owns it, and then all its accounts, and only
\* those, are there, owned by the right programs and rent exempt, whatever
\* lamports were on them before (initialize.rs:184, token.rs:245).
AccountsBelongToPools ==
    \A p \in PoolAddresses :
        LET made == {a \in {p, lp_mint_address(p), observation_address(p)}
                             \cup {vault_address(p, m) : m \in Mints} :
                         account[a].owner # "system"}
        IN  IF pool_state[p] = NoPool
            THEN made = {}
            ELSE /\ made = {n[1] : n \in pool_accounts(p, pool_state[p].token_0,
                                                       pool_state[p].token_1)}
                 /\ \A n \in pool_accounts(p, pool_state[p].token_0, pool_state[p].token_1) :
                        account[n[1]].owner = n[2] /\ account[n[1]].lamports >= RENT

\* One derived pool for a config and a pair of tokens, in whichever order the
\* pair is named, under any number of creators, permitted or not
\* (initialize.rs:54, 350).
OneDerivedPoolPerPair ==
    \A p, q \in DerivedPools :
        /\ pool_state[p] # NoPool
        /\ pool_state[q] # NoPool
        /\ pool_state[p].config = pool_state[q].config
        /\ {pool_state[p].token_0, pool_state[p].token_1}
               = {pool_state[q].token_0, pool_state[q].token_1}
        => p = q

\* Nobody can keep a pool from being created: while its config is open, the
\* client, given two supported mints in any order, is accepted at the derived
\* address unless the pool is there already, and at a new keypair, whatever
\* lamports lie on any of the accounts to create (token.rs:256, main.rs:159).
CreationNeverBlocked ==
    \A c \in ConfigIds, m, n \in Mints, random_pool \in {{}} \cup {{k} : k \in Keypairs} :
        /\ amm_config[c].created
        /\ ~amm_config[c].disable_create_pool
        /\ is_supported_mint(m) /\ is_supported_mint(n)
        /\ m # n
        /\ LET sorted == IF m < n THEN <<m, n>> ELSE <<n, m>>
           IN  pool_state[client_pool(c, sorted, random_pool)] = NoPool
        => client_accepted(c, m, n, random_pool)

\* What lib.rs and the instructions promise of the registry: PoolDirectory.tla.
Directory == INSTANCE PoolDirectory WITH
    Places <- PoolAddresses,
    Homes <- DerivedPools,
    Users <- Wallets,
    home <- pool_address,
    directory <- pool_state,
    permitted <- {w \in Wallets : account[permission_address(w)].owner = "program"},
    terms <- [c \in ConfigIds |->
                 [open |-> amm_config[c].created /\ ~amm_config[c].disable_create_pool,
                  price |-> amm_config[c].create_pool_fee]],
    paid <- create_pool_fee

\* A pool is created once, at its own address, paid for at the price of the
\* moment, and with a creator fee only by a payer whose permission account is
\* there at that moment: a permission closed, or created again, while the
\* creation is on its way decides it (initialize_with_permission.rs:175).
ImplementsDirectory == Directory!Spec
=============================================================================
