SPECIFICATION AdminSpec
CONSTANTS
    o1 = o1
    o2 = o2
    r1 = r1
    r2 = r2
    r3 = r3
    h1 = h1
    h2 = h2
    any = any
    A1 = A1
    B2 = B2
    ana = ana
    bob = bob
    pro = pro
    vip = vip
    t1 = t1
    OwnLots = {o1, o2}
    Rivals = {r1, r2, r3}
    Prices = {1000, 1100}
    AnyLot = any
    Users = {u1}
    Handlers = {h1, h2}
    Workers = {w1, w2}
    Nobody = nobody
    RuleIds = {1, 2, 3}
    TemplateIds = {t1, t2}
    Statuses = {"online", "away"}
    Texts = {ana}
    Words = {bob}
    Lists = {"sellers", "words"}
    Blank = blank
    AppliedLimit = 1
    Market <- MCMarket
    Answers <- MCAnswers
    Topics = {"topic", "stray"}
    Orders = {A1, B2}
    MaxGists = 2
    ChatOf <- MCChatOf
    Scenarios <- MCScenarios
SYMMETRY Symmetric
INVARIANTS
    TypeOK
    SavedOnce
    RightRule
    Kept
    WorkersAsSwitched
    OneLinkEach
CHECK_DEADLOCK FALSE
