--------------------------- MODULE MC_ConfigApplier ---------------------------
EXTENDS ConfigApplier

\* The eight parameter registers of TB.config, in the order it writes them.
MC_ConfigOrder == <<"MAC_0", "MAC_1", "GW_0", "SNM_0", "IP_LOC_0", "SHMEM_0",
                    "UDP_RANGE_L_0", "UDP_RANGE_H_0">>

MC_Params == {MC_ConfigOrder[i] : i \in 1 .. Len(MC_ConfigOrder)}

MC_SNM == "SNM_0"

=============================================================================
