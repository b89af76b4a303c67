----------------------------- MODULE MC_SlotCheck -----------------------------
EXTENDS SlotCheck

\* The addresses of the tests: ext_ip 192.168.2.100 sends to dut_ip
\* 192.168.2.128, from port 1234 to port 5678.
MC_SRC_IP == <<192, 168, 2, 100>>
MC_DST_IP == <<192, 168, 2, 128>>

\* A slot of 44 bytes: room for the 40-byte header and 4 payload bytes.
\* Payloads of 1, 4 and 5 bytes give a record that fits, one that fills
\* the slot exactly and one that is one byte too long.
MC_PayloadSizes == {1, 4, 5}


=============================================================================
