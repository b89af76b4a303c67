\* The assert of run_test_user_reset_rx made right after the RES pulse.
CONSTANTS
    Params <- MC_Params
    ConfigOrder <- MC_ConfigOrder
    SNM <- MC_SNM
    RST = RST
    CFG = CFG
    MaxRounds = 2
    Vals = {RST, CFG, NEW_SNM}

SPECIFICATION Spec

INVARIANT NotAppliedDuringTransaction

\* Each test is a finite script that ends after its last assert.
CHECK_DEADLOCK FALSE
