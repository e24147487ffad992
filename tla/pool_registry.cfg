SPECIFICATION Spec
CONSTANTS
    ADMIN = admin
    Wallets = {admin, alice}
    Keypairs = {key}
    ConfigIds = {0}
    Mints = {1, 2, 3}
    mint_program <- MCPrograms
    mint_whitelist <- MCWhitelist
    mint_extensions <- MCExtensions
    RENT = 2
    Gifts = {1, 3}
    Fundable <- MCFundable
    key = key
    alice = alice
    CreatePoolFees = {0, 1}
INVARIANTS TypeOK AccountsBelongToPools OneDerivedPoolPerPair CreationNeverBlocked
PROPERTY ImplementsDirectory
