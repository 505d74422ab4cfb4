\* Three calls for one token, from two wallets, and one that is refused; the
\* chain may be Sokol.
SPECIFICATION Spec
CONSTANTS
    c1 = c1  c2 = c2  c3 = c3  c4 = c4
    token = token  stranger = stranger  w1 = w1  w2 = w2
    Creators = {c1, c2, c3, c4}
    Entities = {token, stranger}
    Wallets = {w1, w2}
    EntityOf <- OneToken
    WalletOf <- TwoWallets
    Registered = {token}
INVARIANTS
    NeverOlderProcess
    OwnProcessWhenAlone
    ProcessesComplete
    OnePendingPerWallet
