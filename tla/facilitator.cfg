\* Two calls, a clock of four minutes, two faults, one restart.
SPECIFICATION Spec
CONSTANTS
    c1 = c1
    c2 = c2
    sepolia = sepolia
    elsewhere = elsewhere
    shop = shop
    usdc = usdc
    alice = alice
    mallory = mallory
    nonce1 = nonce1
    nonce2 = nonce2
    shouted1 = shouted1
    bytes1 = bytes1
    bytes2 = bytes2
    Bytes32 <- MCBytes32
    Absent = Absent
    Unreadable = Unreadable
    Calls = {c1, c2}
    Requests <- MCRequests
    NETWORKS <- MCNetworks
    MaxUint256 = 100000
    Backdate = 1
    PaymentTimeout = 2
    EndOfTime = 4
    MaxFaults = 2
    MaxLives = 2
SYMMETRY CallsAreAlike
INVARIANT SpellingsTransferOnce
INVARIANT TransfersWereOwed
INVARIANT VerdictsOnlyAge
INVARIANT HonestPaymentsClear
CHECK_DEADLOCK FALSE
