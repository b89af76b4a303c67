\* Both user-reset tests after TB.config, every timing of the transfer.
CONSTANTS
    Params <- MC_Params
    ConfigOrder <- MC_ConfigOrder
    SNM <- MC_SNM
    RST = RST
    CFG = CFG
    MaxRounds = 2
    Vals = {RST, CFG, NEW_SNM}

SPECIFICATION Spec

INVARIANT TypeOK
INVARIANT AppliedAfterTransaction
PROPERTY ResetTestReturns

\* Each test is a finite script that ends after its last assert.
CHECK_DEADLOCK FALSE
