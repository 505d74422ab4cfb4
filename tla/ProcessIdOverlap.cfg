\* Two wallets that create a process for one token.
SPECIFICATION Spec
CONSTANTS
    c1 = c1  c2 = c2  c3 = c3  c4 = c4
    token = token  stranger = stranger  w1 = w1  w2 = w2
    Creators = {c1, c3}
    Entities = {token, stranger}
    Wallets = {w1, w2}
    EntityOf <- OneToken
    WalletOf <- TwoWallets
    Registered = {token}
INVARIANTS
    ReturnsOwnProcess
