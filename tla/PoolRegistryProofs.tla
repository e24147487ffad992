-------------------------- MODULE PoolRegistryProofs --------------------------
(***************************************************************************)
(* The registry of PoolRegistry.tla for any wallets, keypairs, configs and *)
(* mints: every account keeps its type and its pool, one derived pool      *)
(* serves a pair, nobody can keep a pool from being created, and the       *)
(* registry implements PoolDirectory.tla.                                  *)
(*                                                                         *)
(* The proofs rest on the addresses: no two accounts of any two pools      *)
(* share one, so that a creation changes the accounts of its own pool only *)
(* and never a permission.                                                 *)
(***************************************************************************)
EXTENDS PoolRegistry, TLAPS

-----------------------------------------------------------------------------
(* Addresses. *)

LEMMA AddressesOfPool ==
    ASSUME NEW p \in PoolAddresses
    PROVE  /\ p \in Addresses
           /\ observation_address(p) \in Addresses
           /\ lp_mint_address(p) \in Addresses
           /\ \A m \in Mints : vault_address(p, m) \in Addresses
  BY DEF PoolAddresses, Addresses, DerivedAddresses

LEMMA PermissionAddresses == \A w \in Wallets : permission_address(w) \in Addresses
  BY DEF Addresses, DerivedAddresses

\* The accounts next to a pool have addresses no pool has.
LEMMA NotAPool ==
    ASSUME NEW p \in PoolAddresses, NEW q \in PoolAddresses
    PROVE  /\ observation_address(p) # q
           /\ lp_mint_address(p) # q
           /\ \A m \in Mints : vault_address(p, m) # q
           /\ \A w \in Wallets : permission_address(w) # q
<1>1. CASE q \in Keypairs
  BY <1>1, KeypairAssumption DEF DerivedAddresses
<1>2. CASE q \in DerivedPools
  <2>1. PICK c \in ConfigIds, m \in Mints, n \in Mints : q = <<"pool", c, m, n>>
    BY <1>2 DEF DerivedPools, pool_address
  <2>2. QED
    BY <2>1 DEF observation_address, lp_mint_address, vault_address, permission_address
<1>3. QED
  BY <1>1, <1>2 DEF PoolAddresses

\* They differ from each other, and from those of another pool.
LEMMA DistinctAccounts ==
    ASSUME NEW p \in PoolAddresses, NEW q \in PoolAddresses
    PROVE  /\ observation_address(p) # lp_mint_address(q)
           /\ observation_address(p) = observation_address(q) => p = q
           /\ lp_mint_address(p) = lp_mint_address(q) => p = q
           /\ \A n \in Mints : /\ observation_address(p) # vault_address(q, n)
                               /\ lp_mint_address(p) # vault_address(q, n)
           /\ \A m, n \in Mints : vault_address(p, m) = vault_address(q, n) => p = q /\ m = n
           /\ \A w \in Wallets : /\ permission_address(w) # observation_address(q)
                                 /\ permission_address(w) # lp_mint_address(q)
           /\ \A w \in Wallets, n \in Mints : permission_address(w) # vault_address(q, n)
  BY DEF observation_address, lp_mint_address, vault_address, permission_address

-----------------------------------------------------------------------------
(* What a creation does to the accounts. *)

LEMMA CreatedAccounts ==
    ASSUME NEW payer, NEW creator, NEW pool \in PoolAddresses, NEW c, NEW mint_0 \in Mints,
           NEW mint_1 \in Mints, NEW pays_creator,
           CreatePool(payer, creator, pool, c, mint_0, mint_1, pays_creator)
    PROVE  /\ account'[pool] = created(pool, "program")
           /\ account'[observation_address(pool)]
                  = created(observation_address(pool), "program")
           /\ account'[lp_mint_address(pool)] = created(lp_mint_address(pool), "token")
           /\ \A m \in {mint_0, mint_1} :
                  account'[vault_address(pool, m)] = created(vault_address(pool, m), "token")
           /\ \A a \in Addresses :
                  a \notin {n[1] : n \in pool_accounts(pool, mint_0, mint_1)}
                      => account'[a] = account[a]
<1> DEFINE new == pool_accounts(pool, mint_0, mint_1)
           After(a) == IF \E n \in new : n[1] = a
                       THEN created(a, (CHOOSE n \in new : n[1] = a)[2])
                       ELSE account[a]
<1>1. account' = [a \in Addresses |-> After(a)]
  BY DEF CreatePool
<1>2. \A n \in new : n[1] \in Addresses
  BY AddressesOfPool DEF pool_accounts
<1>3. \A n, o \in new : n[1] = o[1] => n = o
  <2>1. /\ \A m \in {mint_0, mint_1} :
              /\ pool # vault_address(pool, m)
              /\ observation_address(pool) # vault_address(pool, m)
              /\ lp_mint_address(pool) # vault_address(pool, m)
        /\ pool # observation_address(pool)
        /\ pool # lp_mint_address(pool)
        /\ observation_address(pool) # lp_mint_address(pool)
    BY NotAPool, DistinctAccounts
  <2>2. QED
    BY <2>1 DEF pool_accounts
<1>4. \A n \in new : account'[n[1]] = created(n[1], n[2])
  <2> SUFFICES ASSUME NEW n \in new
               PROVE  account'[n[1]] = created(n[1], n[2])
    OBVIOUS
  <2>1. (CHOOSE o \in new : o[1] = n[1]) = n
    BY <1>3
  <2>2. account'[n[1]] = After(n[1])
    BY <1>1, <1>2
  <2>3. QED
    BY <2>1, <2>2
<1>5. /\ <<pool, "program">> \in new
      /\ <<observation_address(pool), "program">> \in new
      /\ <<lp_mint_address(pool), "token">> \in new
      /\ \A m \in {mint_0, mint_1} : <<vault_address(pool, m), "token">> \in new
  BY DEF pool_accounts
<1>6. \A a \in Addresses : a \notin {n[1] : n \in new} => account'[a] = account[a]
  BY <1>1
<1> HIDE DEF new
<1>7. QED
  BY <1>4, <1>5, <1>6 DEF new

-----------------------------------------------------------------------------
(* Types. *)

LEMMA CreatedType ==
    ASSUME NEW a \in Addresses, NEW id \in {"program", "token"}, account \in [Addresses -> Accounts]
    PROVE  /\ created(a, id) \in Accounts
           /\ created(a, id).owner = id
           /\ created(a, id).lamports >= RENT
<1>1. account[a].lamports \in Nat /\ RENT \in Nat
  BY RegistryAssumption DEF Accounts
<1>2. QED
  BY <1>1 DEF created, Accounts

\* The creation of a pool keeps the types.
LEMMA CreatePoolType ==
    ASSUME TypeOK, NEW payer \in Wallets, NEW creator \in Wallets, NEW pool \in PoolAddresses,
           NEW c \in ConfigIds, NEW mint_0 \in Mints, NEW mint_1 \in Mints,
           NEW pays_creator \in BOOLEAN,
           CreatePool(payer, creator, pool, c, mint_0, mint_1, pays_creator)
    PROVE  TypeOK'
<1> DEFINE new == pool_accounts(pool, mint_0, mint_1)
<1>1. \A n \in new : n[1] \in Addresses /\ n[2] \in {"program", "token"}
  BY AddressesOfPool DEF pool_accounts
<1>2. account' \in [Addresses -> Accounts]
  <2>1. \A a \in Addresses : \A n \in new : n[1] = a => created(a, n[2]) \in Accounts
    BY <1>1, CreatedType DEF TypeOK
  <2>2. \A a \in Addresses : (\E n \in new : n[1] = a) =>
            /\ (CHOOSE n \in new : n[1] = a) \in new
            /\ (CHOOSE n \in new : n[1] = a)[1] = a
    OBVIOUS
  <2> DEFINE After(a) == IF \E n \in new : n[1] = a
                         THEN created(a, (CHOOSE n \in new : n[1] = a)[2])
                         ELSE account[a]
  <2>3. account' = [a \in Addresses |-> After(a)]
    BY DEF CreatePool
  <2> HIDE DEF new
  <2>4. \A a \in Addresses : After(a) \in Accounts
    BY <2>1, <2>2 DEF TypeOK
  <2>5. QED
    BY <2>3, <2>4
<1>3. pool_state' \in [PoolAddresses -> PoolStates \cup {NoPool}]
  BY DEF CreatePool, TypeOK, PoolStates
<1>4. amm_config' \in [ConfigIds -> Configs]
  BY DEF CreatePool, TypeOK
<1>5. create_pool_fee' \in [Wallets -> Nat]
  BY DEF CreatePool, TypeOK, fee_received, Configs
<1>6. QED
  BY <1>2, <1>3, <1>4, <1>5 DEF TypeOK

THEOREM InitType == Init => TypeOK
  BY DEF Init, TypeOK, Accounts, Configs, NoConfig

\* Every step keeps the types, action by action.
LEMMA StepType == TypeOK /\ [Next]_vars => TypeOK'
<1> SUFFICES ASSUME TypeOK, [Next]_vars PROVE TypeOK'
  OBVIOUS
<1>1. ASSUME NEW w \in Wallets, NEW x \in Wallets, NEW p \in PoolAddresses,
             NEW c \in ConfigIds, NEW m \in Mints, NEW n \in Mints,
             Initialize(w, p, c, m, n) \/ InitializeWithPermission(w, x, p, c, m, n)
      PROVE  TypeOK'
  BY <1>1, CreatePoolType DEF Initialize, InitializeWithPermission
<1>2. ASSUME NEW w \in Wallets, NEW x \in Wallets, CreatePermissionPda(w, x)
      PROVE  TypeOK'
  BY <1>2, PermissionAddresses, CreatedType DEF CreatePermissionPda, TypeOK
<1>3. ASSUME NEW w \in Wallets, NEW x \in Wallets, ClosePermissionPda(w, x)
      PROVE  TypeOK'
  BY <1>3, PermissionAddresses DEF ClosePermissionPda, TypeOK, Accounts
<1>4. ASSUME NEW w \in Wallets, NEW c \in ConfigIds, NEW pool_fee \in CreatePoolFees,
             CreateAmmConfig(w, c, pool_fee)
      PROVE  TypeOK'
  BY <1>4, RegistryAssumption DEF CreateAmmConfig, TypeOK, Configs
<1>5. ASSUME NEW w \in Wallets, NEW c \in ConfigIds, NEW param \in {5, 6},
             NEW value \in CreatePoolFees, UpdateAmmConfig(w, c, param, value)
      PROVE  TypeOK'
  <2> DEFINE closed == (value # 0)
  <2>1. closed \in BOOLEAN /\ value \in Nat
    BY RegistryAssumption
  <2>2. \/ amm_config' = [amm_config EXCEPT ![c].create_pool_fee = value]
        \/ amm_config' = [amm_config EXCEPT ![c].disable_create_pool = closed]
    BY <1>5 DEF UpdateAmmConfig
  <2> HIDE DEF closed
  <2>3. amm_config' \in [ConfigIds -> Configs]
    BY <2>1, <2>2 DEF TypeOK, Configs
  <2>4. QED
    BY <1>5, <2>3 DEF UpdateAmmConfig, TypeOK
<1>6. ASSUME NEW a \in Fundable, NEW lamports \in Gifts, Fund(a, lamports)
      PROVE  TypeOK'
  BY <1>6, RegistryAssumption, FundableAssumption DEF Fund, TypeOK, Accounts
<1>7. CASE UNCHANGED vars
  BY <1>7 DEF vars, TypeOK
<1>8. QED
  BY <1>1, <1>2, <1>3, <1>4, <1>5, <1>6, <1>7 DEF Next

\* The accounts, pools and configs keep their types, whoever creates, funds,
\* permits and updates.
THEOREM TypeCorrect == Spec => []TypeOK
  BY InitType, StepType, PTL DEF Spec

-----------------------------------------------------------------------------
(* The inductive invariant: each pool and its accounts, in one place. *)

\* The accounts of p are those of its pool, or nobody's.
Belongs(p) ==
    LET taken == pool_state[p] # NoPool
        owned(a, id) == /\ account[a].owner = (IF taken THEN id ELSE "system")
                        /\ taken => account[a].lamports >= RENT
    IN  /\ owned(p, "program")
        /\ owned(observation_address(p), "program")
        /\ owned(lp_mint_address(p), "token")
        /\ \A m \in Mints :
              LET a == vault_address(p, m)
              IN  IF taken /\ m \in {pool_state[p].token_0, pool_state[p].token_1}
                  THEN account[a].owner = "token" /\ account[a].lamports >= RENT
                  ELSE account[a].owner = "system"

\* A pool's mints are in order, and a derived address is its own pool's.
Registered(p) ==
    pool_state[p] # NoPool =>
        /\ pool_state[p] \in PoolStates
        /\ pool_state[p].token_0 < pool_state[p].token_1
        /\ p \in DerivedPools =>
               p = pool_address(pool_state[p].config, pool_state[p].token_0,
                                pool_state[p].token_1)

IInv ==
    /\ TypeOK
    /\ \A p \in PoolAddresses : Belongs(p) /\ Registered(p)

LEMMA InitIInv == Init => IInv
<1> SUFFICES ASSUME Init PROVE IInv
  OBVIOUS
<1>1. TypeOK
  BY InitType
<1>2. ASSUME NEW p \in PoolAddresses PROVE Belongs(p)
  <2>1. pool_state[p] = NoPool
    BY DEF Init
  <2>2. \A a \in Addresses : account[a].owner = "system"
    BY DEF Init
  <2>3. QED
    BY <2>1, <2>2, AddressesOfPool DEF Belongs
<1>3. ASSUME NEW p \in PoolAddresses PROVE Registered(p)
  BY DEF Init, Registered
<1>4. QED
  BY <1>1, <1>2, <1>3 DEF IInv

\* A step that leaves the accounts of p alone, but for lamports sent to them,
\* leaves p as it was.
LEMMA Untouched ==
    ASSUME NEW p \in PoolAddresses, Belongs(p), Registered(p),
           pool_state'[p] = pool_state[p],
           \A a \in {p, observation_address(p), lp_mint_address(p)}
                        \cup {vault_address(p, m) : m \in Mints} :
               /\ account'[a].owner = account[a].owner
               /\ account[a].lamports >= RENT => account'[a].lamports >= RENT
    PROVE  Belongs(p)' /\ Registered(p)'
<1>1. Registered(p)'
  BY DEF Registered
<1>2. Belongs(p)'
  <2> DEFINE kept(a) == /\ account'[a].owner = account[a].owner
                        /\ account[a].lamports >= RENT => account'[a].lamports >= RENT
  <2>1. /\ kept(p) /\ kept(observation_address(p)) /\ kept(lp_mint_address(p))
        /\ \A m \in Mints : kept(vault_address(p, m))
    OBVIOUS
  <2>2. QED
    BY <2>1 DEF Belongs
<1>3. QED
  BY <1>1, <1>2

\* A creation makes its pool and leaves every other one alone.
LEMMA CreatePoolIInv ==
    ASSUME IInv, NEW payer \in Wallets, NEW creator \in Wallets, NEW pool \in PoolAddresses,
           NEW c \in ConfigIds, NEW mint_0 \in Mints, NEW mint_1 \in Mints,
           NEW pays_creator \in BOOLEAN,
           CreatePool(payer, creator, pool, c, mint_0, mint_1, pays_creator)
    PROVE  /\ IInv'
           /\ pool_state[pool] = NoPool
           /\ pool \in DerivedPools => pool = pool_address(c, mint_0, mint_1)
<1> DEFINE made == [taken |-> TRUE, config |-> c, token_0 |-> mint_0, token_1 |-> mint_1,
                    creator |-> creator, pays_creator |-> pays_creator]
           new == {n[1] : n \in pool_accounts(pool, mint_0, mint_1)}
<1>1. TypeOK'
  BY CreatePoolType DEF IInv
<1>2. pool_state[pool] = NoPool
  <2>1. account[pool].owner = "system"
    BY DEF CreatePool, creation_accepted, pool_accounts, can_create, unallocated
  <2>2. QED
    BY <2>1 DEF IInv, Belongs
<1>3. pool \in DerivedPools => pool = pool_address(c, mint_0, mint_1)
  BY KeypairAssumption DEF CreatePool, creation_accepted, DerivedAddresses
<1>4. pool_state' = [pool_state EXCEPT ![pool] = made]
  BY DEF CreatePool
<1>5. /\ pool_state'[pool] = made
      /\ \A q \in PoolAddresses : q # pool => pool_state'[q] = pool_state[q]
  BY <1>4 DEF IInv, TypeOK
<1>6. made \in PoolStates /\ made # NoPool
  BY DEF PoolStates, NoPool
<1>7. new = {pool, observation_address(pool), lp_mint_address(pool),
             vault_address(pool, mint_0), vault_address(pool, mint_1)}
  BY DEF pool_accounts
<1>8. ASSUME NEW q \in PoolAddresses, q # pool
      PROVE  Belongs(q)' /\ Registered(q)'
  <2> DEFINE family == {q, observation_address(q), lp_mint_address(q)}
                           \cup {vault_address(q, m) : m \in Mints}
  <2>1. \A a \in family : a \in Addresses /\ a \notin new
    BY <1>7, <1>8, AddressesOfPool, NotAPool, DistinctAccounts
  <2>2. \A a \in Addresses : a \notin new => account'[a] = account[a]
    BY CreatedAccounts
  <2>3. \A a \in family : account'[a] = account[a]
    BY <2>1, <2>2
  <2>4. pool_state'[q] = pool_state[q]
    BY <1>5, <1>8
  <2>5. Belongs(q) /\ Registered(q)
    BY DEF IInv
  <2>6. QED
    BY <2>3, <2>4, <2>5, Untouched
<1>9. Registered(pool)'
  <2>1. mint_0 < mint_1
    BY DEF CreatePool, creation_accepted, mints_accepted
  <2>2. QED
    BY <1>3, <1>5, <1>6, <2>1 DEF Registered
<1>10. Belongs(pool)'
  <2>1. account \in [Addresses -> Accounts]
    BY DEF IInv, TypeOK
  <2>2. /\ account'[pool].owner = "program"
        /\ account'[pool].lamports >= RENT
        /\ account'[observation_address(pool)].owner = "program"
        /\ account'[observation_address(pool)].lamports >= RENT
        /\ account'[lp_mint_address(pool)].owner = "token"
        /\ account'[lp_mint_address(pool)].lamports >= RENT
    BY <2>1, CreatedAccounts, CreatedType, AddressesOfPool
  <2>3. \A m \in {mint_0, mint_1} : /\ account'[vault_address(pool, m)].owner = "token"
                                    /\ account'[vault_address(pool, m)].lamports >= RENT
    BY <2>1, CreatedAccounts, CreatedType, AddressesOfPool
  <2>4. ASSUME NEW m \in Mints, m \notin {mint_0, mint_1}
        PROVE  account'[vault_address(pool, m)].owner = "system"
    <3>1. vault_address(pool, m) \notin new
      BY <1>7, <2>4, NotAPool, DistinctAccounts
    <3>2. account'[vault_address(pool, m)] = account[vault_address(pool, m)]
      BY <3>1, CreatedAccounts, AddressesOfPool
    <3>3. account[vault_address(pool, m)].owner = "system"
      BY <1>2 DEF IInv, Belongs
    <3>4. QED
      BY <3>2, <3>3
  <2>5. /\ pool_state'[pool] # NoPool
        /\ pool_state'[pool].token_0 = mint_0
        /\ pool_state'[pool].token_1 = mint_1
    BY <1>5, <1>6
  <2> HIDE DEF new, made
  <2>6. QED
    BY <2>2, <2>3, <2>4, <2>5 DEF Belongs
<1>11. QED
  BY <1>1, <1>2, <1>3, <1>8, <1>9, <1>10 DEF IInv

\* Every step keeps the invariant; a permission is no pool's account, and
\* lamports never make one.
LEMMA StepIInv == IInv /\ [Next]_vars => IInv'
<1> SUFFICES ASSUME IInv, [Next]_vars PROVE IInv'
  OBVIOUS
<1>1. TypeOK'
  BY StepType DEF IInv
<1>2. ASSUME NEW w \in Wallets, NEW x \in Wallets, NEW p \in PoolAddresses,
             NEW c \in ConfigIds, NEW m \in Mints, NEW n \in Mints,
             Initialize(w, p, c, m, n) \/ InitializeWithPermission(w, x, p, c, m, n)
      PROVE  IInv'
  BY <1>2, CreatePoolIInv DEF Initialize, InitializeWithPermission
<1>3. ASSUME NEW x \in Wallets, UNCHANGED pool_state,
             \A a \in Addresses : a # permission_address(x) => account'[a] = account[a]
      PROVE  IInv'
  <2>1. ASSUME NEW p \in PoolAddresses PROVE Belongs(p)' /\ Registered(p)'
    <3> DEFINE family == {p, observation_address(p), lp_mint_address(p)}
                             \cup {vault_address(p, m) : m \in Mints}
    <3>1. \A a \in family : a \in Addresses /\ a # permission_address(x)
      BY AddressesOfPool, NotAPool, DistinctAccounts
    <3>2. \A a \in family : account'[a] = account[a]
      BY <1>3, <3>1
    <3>3. Belongs(p) /\ Registered(p) /\ pool_state'[p] = pool_state[p]
      BY <1>3 DEF IInv
    <3>4. QED
      BY <3>2, <3>3, Untouched
  <2>2. QED
    BY <1>1, <2>1 DEF IInv
<1>4. ASSUME NEW w \in Wallets, NEW x \in Wallets,
             CreatePermissionPda(w, x) \/ ClosePermissionPda(w, x)
      PROVE  IInv'
  <2>1. UNCHANGED pool_state
    BY <1>4 DEF CreatePermissionPda, ClosePermissionPda
  <2>2. \A a \in Addresses : a # permission_address(x) => account'[a] = account[a]
    BY <1>4 DEF CreatePermissionPda, ClosePermissionPda, IInv, TypeOK
  <2>3. QED
    BY <1>3, <2>1, <2>2
<1>5. CASE UNCHANGED <<account, pool_state>>
  <2>1. \A p \in PoolAddresses : Belongs(p)' /\ Registered(p)'
    BY <1>5 DEF IInv, Belongs, Registered
  <2>2. QED
    BY <1>1, <2>1 DEF IInv
<1>6. ASSUME NEW w \in Wallets, NEW c \in ConfigIds,
             \/ \E pool_fee \in CreatePoolFees : CreateAmmConfig(w, c, pool_fee)
             \/ \E param \in {5, 6}, value \in CreatePoolFees : UpdateAmmConfig(w, c, param, value)
      PROVE  IInv'
  BY <1>5, <1>6 DEF CreateAmmConfig, UpdateAmmConfig
<1>7. ASSUME NEW a \in Fundable, NEW lamports \in Gifts, Fund(a, lamports)
      PROVE  IInv'
  <2>1. \A b \in Addresses : /\ account'[b].owner = account[b].owner
                             /\ account[b].lamports >= RENT => account'[b].lamports >= RENT
    <3>1. /\ RENT \in Nat /\ RENT > 0
          /\ a \in Addresses
          /\ account[a].lamports = 0
      BY <1>7, RegistryAssumption, FundableAssumption DEF Fund
    <3>2. account \in [Addresses -> Accounts]
      BY DEF IInv, TypeOK
    <3>3. account' = [account EXCEPT ![a].lamports = lamports]
      BY <1>7 DEF Fund
    <3>4. ASSUME NEW b \in Addresses, b # a PROVE account'[b] = account[b]
      BY <3>2, <3>3, <3>4
    <3>5. account'[a].owner = account[a].owner /\ ~(account[a].lamports >= RENT)
      BY <3>1, <3>2, <3>3 DEF Accounts
    <3>6. QED
      BY <3>4, <3>5
  <2>2. ASSUME NEW p \in PoolAddresses PROVE Belongs(p)' /\ Registered(p)'
    <3>1. Belongs(p) /\ Registered(p) /\ pool_state'[p] = pool_state[p]
      BY <1>7 DEF IInv, Fund
    <3>2. QED
      BY <2>1, <3>1, AddressesOfPool, Untouched
  <2>3. QED
    BY <1>1, <2>2 DEF IInv
<1>8. CASE UNCHANGED vars
  BY <1>5, <1>8 DEF vars
<1>9. QED
  BY <1>2, <1>4, <1>6, <1>7, <1>8 DEF Next

LEMMA Invariant == Spec => []IInv
  BY InitIInv, StepIInv, PTL DEF Spec

-----------------------------------------------------------------------------
(* The properties. *)

\* The accounts on the ledger are those of the pools, owned by the right
\* programs and rent exempt, whatever lamports others send to any of them.
THEOREM AccountsBelong == Spec => []AccountsBelongToPools
<1>1. ASSUME IInv, NEW p \in PoolAddresses
      PROVE  LET made == {a \in {p, lp_mint_address(p), observation_address(p)}
                                   \cup {vault_address(p, m) : m \in Mints} :
                               account[a].owner # "system"}
             IN  IF pool_state[p] = NoPool
                 THEN made = {}
                 ELSE /\ made = {n[1] : n \in pool_accounts(p, pool_state[p].token_0,
                                                            pool_state[p].token_1)}
                      /\ \A n \in pool_accounts(p, pool_state[p].token_0,
                                                pool_state[p].token_1) :
                             account[n[1]].owner = n[2] /\ account[n[1]].lamports >= RENT
  <2> DEFINE family == {p, lp_mint_address(p), observation_address(p)}
                           \cup {vault_address(p, m) : m \in Mints}
  <2>1. Belongs(p) /\ Registered(p)
    BY <1>1 DEF IInv
  <2>2. CASE pool_state[p] = NoPool
    <3>1. \A a \in family : account[a].owner = "system"
      BY <2>1, <2>2 DEF Belongs
    <3>2. QED
      BY <2>2, <3>1
  <2>3. CASE pool_state[p] # NoPool
    <3> DEFINE t0 == pool_state[p].token_0
               t1 == pool_state[p].token_1
    <3>1. t0 \in Mints /\ t1 \in Mints
      BY <2>1, <2>3 DEF Registered, PoolStates
    <3> HIDE DEF t0, t1
    <3>2. /\ account[p].owner = "program" /\ account[p].lamports >= RENT
          /\ account[observation_address(p)].owner = "program"
          /\ account[observation_address(p)].lamports >= RENT
          /\ account[lp_mint_address(p)].owner = "token"
          /\ account[lp_mint_address(p)].lamports >= RENT
          /\ \A m \in {t0, t1} : /\ account[vault_address(p, m)].owner = "token"
                                 /\ account[vault_address(p, m)].lamports >= RENT
          /\ \A m \in Mints : m \notin {t0, t1} =>
                 account[vault_address(p, m)].owner = "system"
      BY <2>1, <2>3, <3>1 DEF Belongs, t0, t1
    <3>3. {n[1] : n \in pool_accounts(p, t0, t1)}
              = {p, observation_address(p), lp_mint_address(p),
                 vault_address(p, t0), vault_address(p, t1)}
      BY DEF pool_accounts
    <3>4. {a \in family : account[a].owner # "system"}
              = {p, observation_address(p), lp_mint_address(p),
                 vault_address(p, t0), vault_address(p, t1)}
      BY <3>1, <3>2
    <3>5. \A n \in pool_accounts(p, t0, t1) :
              account[n[1]].owner = n[2] /\ account[n[1]].lamports >= RENT
      BY <3>2 DEF pool_accounts
    <3>6. QED
      BY <2>3, <3>3, <3>4, <3>5 DEF t0, t1
  <2>4. QED
    BY <2>2, <2>3
<1>2. IInv => AccountsBelongToPools
  BY <1>1 DEF AccountsBelongToPools
<1>3. QED
  BY <1>2, Invariant, PTL

\* A config has one derived pool for two tokens, for any configs and mints.
THEOREM OneDerivedPool == Spec => []OneDerivedPoolPerPair
<1>1. ASSUME IInv, NEW p \in DerivedPools, NEW q \in DerivedPools,
             pool_state[p] # NoPool, pool_state[q] # NoPool,
             pool_state[p].config = pool_state[q].config,
             {pool_state[p].token_0, pool_state[p].token_1}
                 = {pool_state[q].token_0, pool_state[q].token_1}
      PROVE  p = q
  <2>1. Registered(p) /\ Registered(q)
    BY <1>1 DEF IInv, PoolAddresses
  <2>2. /\ pool_state[p].token_0 \in Nat /\ pool_state[p].token_1 \in Nat
        /\ pool_state[q].token_0 \in Nat /\ pool_state[q].token_1 \in Nat
    BY <1>1, <2>1, RegistryAssumption DEF Registered, PoolStates
  <2>3. /\ pool_state[p].token_0 < pool_state[p].token_1
        /\ pool_state[q].token_0 < pool_state[q].token_1
    BY <1>1, <2>1 DEF Registered
  <2>4. /\ pool_state[p].token_0 = pool_state[q].token_0
        /\ pool_state[p].token_1 = pool_state[q].token_1
    BY <1>1, <2>2, <2>3
  <2>5. QED
    BY <1>1, <2>1, <2>4 DEF Registered
<1>2. IInv => OneDerivedPoolPerPair
  BY <1>1 DEF OneDerivedPoolPerPair
<1>3. QED
  BY <1>2, Invariant, PTL

\* The client finds what it asks for accepted wherever no pool is, whatever was
\* sent to the addresses before: the accounts of an absent pool are nobody's,
\* and lamports alone do not take one (token.rs:256, main.rs:159).
THEOREM NeverBlocked == Spec => []CreationNeverBlocked
<1>1. ASSUME IInv, NEW c \in ConfigIds, NEW m \in Mints, NEW n \in Mints,
             NEW random_pool \in {{}} \cup {{k} : k \in Keypairs},
             amm_config[c].created, ~amm_config[c].disable_create_pool,
             is_supported_mint(m), is_supported_mint(n), m # n,
             LET sorted == IF m < n THEN <<m, n>> ELSE <<n, m>>
             IN  pool_state[client_pool(c, sorted, random_pool)] = NoPool
      PROVE  client_accepted(c, m, n, random_pool)
  <2> DEFINE mints == client_mints(m, n)
             pool == client_pool(c, mints, random_pool)
  <2>1. /\ mints = (IF m < n THEN <<m, n>> ELSE <<n, m>>)
        /\ mints[1] \in Mints /\ mints[2] \in Mints
        /\ mints_accepted(mints[1], mints[2])
    <3>1. m \in Nat /\ n \in Nat
      BY RegistryAssumption
    <3>2. CASE m < n
      BY <1>1, <3>1, <3>2 DEF client_mints, mints_accepted
    <3>3. CASE n < m
      BY <1>1, <3>1, <3>3 DEF client_mints, mints_accepted
    <3>4. QED
      BY <1>1, <3>1, <3>2, <3>3
  <2> HIDE DEF mints
  <2>2. /\ pool \in PoolAddresses
        /\ pool = pool_address(c, mints[1], mints[2]) \/ pool \in Keypairs
    BY <2>1 DEF client_pool, PoolAddresses, DerivedPools
  <2>3. pool_state[pool] = NoPool
    BY <1>1, <2>1
  <2> HIDE DEF pool
  <2>4. Belongs(pool)
    BY <1>1, <2>2 DEF IInv
  <2>5. \A a \in {pool, observation_address(pool), lp_mint_address(pool),
                  vault_address(pool, mints[1]), vault_address(pool, mints[2])} :
            can_create(a)
    BY <2>1, <2>3, <2>4 DEF Belongs, can_create, unallocated
  <2>6. \A a \in pool_accounts(pool, mints[1], mints[2]) : can_create(a[1])
    BY <2>5 DEF pool_accounts
  <2>7. creation_accepted(pool, c, mints[1], mints[2])
    BY <1>1, <2>1, <2>2, <2>6 DEF creation_accepted
  <2>8. QED
    BY <2>7 DEF client_accepted, mints, pool
<1>2. IInv => CreationNeverBlocked
  BY <1>1 DEF CreationNeverBlocked
<1>3. QED
  BY <1>2, Invariant, PTL

-----------------------------------------------------------------------------
(* The registry implements the directory. *)

\* The refinement mapping of Directory.
permitted_now == {w \in Wallets : account[permission_address(w)].owner = "program"}

terms_now == [c \in ConfigIds |->
                 [open |-> amm_config[c].created /\ ~amm_config[c].disable_create_pool,
                  price |-> amm_config[c].create_pool_fee]]

LEMMA InitRefines == Init => Directory!Init
<1> SUFFICES ASSUME Init PROVE Directory!Init
  OBVIOUS
<1>1. pool_state = [a \in PoolAddresses |-> Directory!NoEntry]
  BY DEF Init, NoPool, Directory!NoEntry
<1>2. permitted_now = {}
  BY PermissionAddresses DEF Init, permitted_now
<1>3. terms_now = [c \in ConfigIds |-> [open |-> FALSE, price |-> 0]]
  BY DEF Init, NoConfig, terms_now
<1>4. create_pool_fee = [u \in Wallets |-> 0]
  BY DEF Init
<1>5. QED
  BY <1>1, <1>2, <1>3, <1>4 DEF Directory!Init, permitted_now, terms_now

\* A creation by one who pays for himself, or is permitted, enters the pool.
LEMMA CreationEnters ==
    ASSUME IInv, NEW payer \in Wallets, NEW creator \in Wallets, NEW pool \in PoolAddresses,
           NEW c \in ConfigIds, NEW mint_0 \in Mints, NEW mint_1 \in Mints,
           NEW pays_creator \in BOOLEAN,
           CreatePool(payer, creator, pool, c, mint_0, mint_1, pays_creator),
           IF pays_creator THEN payer \in permitted_now ELSE creator = payer
    PROVE  Directory!Enter(pool, payer)
<1> DEFINE e == [taken |-> TRUE, config |-> c, token_0 |-> mint_0, token_1 |-> mint_1,
                 creator |-> creator, pays_creator |-> pays_creator]
<1>1. /\ pool_state[pool] = NoPool
      /\ pool \in DerivedPools => pool = pool_address(c, mint_0, mint_1)
  BY CreatePoolIInv
<1>2. /\ pool_state' = [pool_state EXCEPT ![pool] = e]
      /\ pool_state'[pool] = e
  BY DEF CreatePool, IInv, TypeOK
<1>3. e \in Directory!Entries
  BY DEF Directory!Entries
<1>4. terms_now[e.config].open /\ UNCHANGED terms_now
  BY DEF CreatePool, creation_accepted, terms_now
<1>5. UNCHANGED permitted_now
  <2>1. ASSUME NEW w \in Wallets
        PROVE  account'[permission_address(w)] = account[permission_address(w)]
    <3>1. permission_address(w) \notin {n[1] : n \in pool_accounts(pool, mint_0, mint_1)}
      BY NotAPool, DistinctAccounts DEF pool_accounts
    <3>2. QED
      BY <3>1, CreatedAccounts, PermissionAddresses
  <2>2. QED
    BY <2>1 DEF permitted_now
<1>6. create_pool_fee' = [create_pool_fee EXCEPT ![payer] = @ + terms_now[e.config].price]
  BY DEF CreatePool, fee_received, terms_now
<1>7. e.token_0 < e.token_1
  BY DEF CreatePool, creation_accepted, mints_accepted
<1>8. pool \in DerivedPools =>
          pool = pool_address(e.config, e.token_0, e.token_1)
  BY <1>1
<1> HIDE DEF e
<1>9. e.pays_creator = pays_creator /\ e.creator = creator
  BY DEF e
<1>10. QED
  BY <1>1, <1>2, <1>3, <1>4, <1>5, <1>6, <1>7, <1>8, <1>9
     DEF Directory!Enter, Directory!NoEntry, NoPool, permitted_now, terms_now

\* Every step of the registry is one of the directory, or none.
LEMMA StepRefines ==
    IInv /\ [Next]_vars =>
        [Directory!Next]_<<pool_state, permitted_now, terms_now, create_pool_fee>>
<1> SUFFICES ASSUME IInv, Next
             PROVE  Directory!Next \/ UNCHANGED <<pool_state, permitted_now, terms_now,
                                                  create_pool_fee>>
  BY DEF vars, permitted_now, terms_now
<1>1. ASSUME NEW w \in Wallets, NEW x \in Wallets, NEW p \in PoolAddresses,
             NEW c \in ConfigIds, NEW m \in Mints, NEW n \in Mints,
             Initialize(w, p, c, m, n) \/ InitializeWithPermission(w, x, p, c, m, n)
      PROVE  Directory!Enter(p, w)
  <2>1. CASE Initialize(w, p, c, m, n)
    BY <2>1, CreationEnters DEF Initialize
  <2>2. CASE InitializeWithPermission(w, x, p, c, m, n)
    BY <2>2, CreationEnters DEF InitializeWithPermission, permission_given, permitted_now
  <2>3. QED
    BY <1>1, <2>1, <2>2
<1>2. ASSUME NEW w \in Wallets, NEW x \in Wallets,
             CreatePermissionPda(w, x) \/ ClosePermissionPda(w, x)
      PROVE  Directory!Permit
  <2>1. permitted_now' \in SUBSET Wallets
    BY DEF permitted_now
  <2>2. UNCHANGED <<pool_state, terms_now, create_pool_fee>>
    BY <1>2 DEF CreatePermissionPda, ClosePermissionPda, terms_now
  <2>3. QED
    BY <2>1, <2>2 DEF Directory!Permit, permitted_now, terms_now
<1>3. ASSUME NEW w \in Wallets, NEW c \in ConfigIds,
             \/ \E pool_fee \in CreatePoolFees : CreateAmmConfig(w, c, pool_fee)
             \/ \E param \in {5, 6}, value \in CreatePoolFees : UpdateAmmConfig(w, c, param, value)
      PROVE  Directory!SetTerms
  <2>1. amm_config' \in [ConfigIds -> Configs]
    BY StepType DEF IInv, TypeOK
  <2>2. terms_now' \in [ConfigIds -> Directory!Terms]
    <3>1. \A d \in ConfigIds :
              [open |-> amm_config'[d].created /\ ~amm_config'[d].disable_create_pool,
               price |-> amm_config'[d].create_pool_fee] \in Directory!Terms
      BY <2>1 DEF Configs, Directory!Terms
    <3>2. QED
      BY <3>1 DEF terms_now
  <2>3. UNCHANGED <<pool_state, permitted_now, create_pool_fee>>
    BY <1>3 DEF CreateAmmConfig, UpdateAmmConfig, permitted_now
  <2>4. QED
    BY <2>2, <2>3 DEF Directory!SetTerms, permitted_now, terms_now
<1>4. ASSUME NEW a \in Fundable, NEW lamports \in Gifts, Fund(a, lamports)
      PROVE  UNCHANGED <<pool_state, permitted_now, terms_now, create_pool_fee>>
  <2>1. \A b \in Addresses : account'[b].owner = account[b].owner
    BY <1>4, FundableAssumption DEF Fund, IInv, TypeOK, Accounts
  <2>2. QED
    BY <1>4, <2>1, PermissionAddresses DEF Fund, permitted_now, terms_now
<1>5. QED
  BY <1>1, <1>2, <1>3, <1>4 DEF Next, Directory!Next

\* Pools are entered once and for good, at their own address, while their
\* config is open and at its price, and one that pays its creator only by a
\* payer who is permitted at that moment (initialize.rs:13, 338,
\* initialize_with_permission.rs:175).
THEOREM RegistryImplementsDirectory == Spec => ImplementsDirectory
<1>1. Spec => [][Directory!Next]_<<pool_state, permitted_now, terms_now, create_pool_fee>>
  BY Invariant, StepRefines, PTL DEF Spec
<1>2. QED
  BY <1>1, InitRefines, PTL DEF Spec, ImplementsDirectory, Directory!Spec,
     permitted_now, terms_now
=============================================================================
