SPECIFICATION FairLockSpec
CONSTANTS
    Writers = {w1, w2}
    Readers = {r1, r2}
    Tables <- MCTables
    Values = {v1, v2}
    NoEntry = NoEntry
INVARIANT LockInv
PROPERTIES
    ActsAtomically
    CallsReturn
