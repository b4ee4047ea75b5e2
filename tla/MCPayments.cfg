SPECIFICATION MCSpec
CONSTANTS
    Users = {u1, u2}
    Orders = {o1, o2}
    ClickTxns = {t1, t2}
    PaynetTxns = {p1}
    CardTokens = {k1, k2}
    Handlers = {h1, h2}
    Clients = {c1, c2}
    NoTxn = NoTxn
    NoToken = NoToken
    NoUser = NoUser
    NoOrder = NoOrder
    Amounts <- MCAmounts
    Percents <- MCPercents
    References <- MCReferences
SYMMETRY MCSymmetry
INVARIANTS
    PaymentsCreditOnce
    BonusIsCreditedOnce
    
    
    TokensAreSafe
PROPERTIES
    ImplementsTopUps
