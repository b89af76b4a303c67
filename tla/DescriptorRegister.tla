-------------------------- MODULE DescriptorRegister --------------------------
(***************************************************************************)
(* The packed 32-bit RX buffer descriptor of test_fpga_core.py and the TB  *)
(* code that reads and writes it: the field layout of class TB, the        *)
(* decoding of get_buffer_rx_param, replace_bits, and the read-modify-     *)
(* write of set_buffer_rx_popped / set_buffer_rx_opensocket.  The          *)
(* hardware drives head, tail, full and empty; the TB owns popped and      *)
(* open_socket.  The register word desc is modelled as the number it is,  *)
(* fields is what each owner last put into its field.  The read and the   *)
(* write of a read-modify-write are separate AXI-Lite transactions, and   *)
(* the hardware may update its fields between them.                       *)
(***************************************************************************)
EXTENDS Naturals, Bitwise

CONSTANTS C_BUFFRX_INDEX_WIDTH,  \* TB.C_BUFFRX_INDEX_WIDTH
          IndexValues            \* head and tail values the hardware drives

VARIABLES desc,    \* the word held at get_buffer_rx_addr_control(id)
          fields,  \* the value each field was last given by its owner
          rmw      \* an unfinished set_buffer_rx_*: the field, the value
                   \* and original_value, or NoRmw

vars == <<desc, fields, rmw>>

-----------------------------------------------------------------------------
(* The layout of class TB.                                                 *)

BUFFER_POPPED_OFFSET   == 0
BUFFER_PUSHED_OFFSET   == 1
BUFFER_FULL_OFFSET     == 2
BUFFER_EMPTY_OFFSET    == 3
BUFFER_TAIL_OFFSET     == 4
BUFFER_HEAD_OFFSET     == BUFFER_TAIL_OFFSET + C_BUFFRX_INDEX_WIDTH
\* Mutant: the open_socket bit placed past the 32 bits of the register.
BUFFER_OPENSOCK_OFFSET_far == BUFFER_HEAD_OFFSET + 8 * C_BUFFRX_INDEX_WIDTH

BUFFER_OPENSOCK_OFFSET == BUFFER_HEAD_OFFSET + C_BUFFRX_INDEX_WIDTH

\* Each field with its offset and its width in the layout.
Layout == [popped   |-> <<BUFFER_POPPED_OFFSET, 1>>,
           pushed   |-> <<BUFFER_PUSHED_OFFSET, 1>>,
           full     |-> <<BUFFER_FULL_OFFSET, 1>>,
           empty    |-> <<BUFFER_EMPTY_OFFSET, 1>>,
           tail     |-> <<BUFFER_TAIL_OFFSET, C_BUFFRX_INDEX_WIDTH>>,
           head     |-> <<BUFFER_HEAD_OFFSET, C_BUFFRX_INDEX_WIDTH>>,
           opensock |-> <<BUFFER_OPENSOCK_OFFSET, 1>>]

Fields   == DOMAIN Layout
HwFields == {"full", "empty", "tail", "head"}
SwFields == {"popped", "opensock"}

FieldValues(f) == 0 .. 2^Layout[f][2] - 1

\* The values the hardware gives its fields.
HwValues(f) == IF f \in {"head", "tail"} THEN IndexValues ELSE FieldValues(f)

\* The word whose fields hold the values of fv, all other bits zero.
Encode(fv) ==
    LET F == [f \in Fields |-> fv[f] * 2^Layout[f][1]]
        RECURSIVE SumOver(_)
        SumOver(S) == IF S = {} THEN 0
                      ELSE LET f == CHOOSE x \in S : TRUE
                           IN F[f] + SumOver(S \ {f})
    IN SumOver(Fields)

-----------------------------------------------------------------------------
(* The TB's codec.                                                         *)

\* Mutant: the field width of head and tail taken as 4 bits.
get_buffer_rx_param_narrow(word, param_offset) ==
    LET num_bits == IF param_offset = BUFFER_TAIL_OFFSET
                         \/ param_offset = BUFFER_HEAD_OFFSET
                      THEN 4 ELSE 1
    IN shiftR(word, param_offset) & (2^num_bits - 1)

\* get_buffer_rx_param, after the register read: head and tail are taken
\* as 5 bits wide (a literal in the code), every other field as 1 bit.
get_buffer_rx_param(word, param_offset) ==
    LET num_bits == IF param_offset = BUFFER_TAIL_OFFSET
                         \/ param_offset = BUFFER_HEAD_OFFSET
                      THEN 5 ELSE 1
    IN shiftR(word, param_offset) & (2^num_bits - 1)

\* Mutant: the clearing mask built without the shift to pos.
replace_bits_unshifted(number, my_value, pos, n) ==
    LET field   == 2^n - 1
        cleared == number - (number & field)
    IN cleared | ((my_value & (2^n - 1)) * 2^pos)

\* replace_bits.  Python's number & ~m, with ~m a negative integer of
\* unbounded width, clears exactly the bits of m in the non-negative number.
replace_bits(number, my_value, pos, n) ==
    LET field   == (2^n - 1) * 2^pos
        cleared == number - (number & field)
    IN cleared | ((my_value & (2^n - 1)) * 2^pos)

-----------------------------------------------------------------------------

\* No read-modify-write under way.
NoRmw == [field |-> "none", value |-> 0, original_value |-> 0]

\* After reset every field is 0.
Init ==
    /\ fields = [f \in Fields |-> 0]
    /\ desc = 0
    /\ rmw = NoRmw

\* The circular buffer RTL drives one of its fields to v.
HwDriveField(f, v) ==
    /\ fields' = [fields EXCEPT ![f] = v]
    /\ desc' = Encode(fields')
    /\ UNCHANGED rmw

\* The bits of the software-owned fields.
SwMask == 2^BUFFER_POPPED_OFFSET + 2^BUFFER_OPENSOCK_OFFSET

\* Mutant: the register stores the whole written word.
HwRegisterWrite_whole(cur, w) == w

\* An AXI-Lite write of w onto the descriptor: the software-owned bits are
\* taken from w, the hardware keeps driving the others.
HwRegisterWrite(cur, w) == (cur - (cur & SwMask)) | (w & SwMask)

\* set_buffer_rx_popped / set_buffer_rx_opensocket(buffer_id, value), up to
\* the await of the read: original_value is the descriptor as read.
read_descriptor(f, value) ==
    /\ rmw = NoRmw
    /\ rmw' = [field |-> f, value |-> value, original_value |-> desc]
    /\ UNCHANGED <<desc, fields>>

\* The rest: replace the field's bits in original_value and write it back.
write_descriptor ==
    /\ rmw /= NoRmw
    /\ LET pos == Layout[rmw.field][1]
           new_value == replace_bits(rmw.original_value, rmw.value, pos,
                                     Layout[rmw.field][2])
       IN desc' = HwRegisterWrite(desc, new_value)
    /\ fields' = [fields EXCEPT ![rmw.field] = rmw.value]
    /\ rmw' = NoRmw

Next ==
    \/ \E f \in HwFields : \E v \in HwValues(f) : HwDriveField(f, v)
    \/ \E f \in SwFields : \E v \in {0, 1} : read_descriptor(f, v)
    \/ write_descriptor

Spec == Init /\ [][Next]_vars

-----------------------------------------------------------------------------

(* The descriptor is one 32-bit word (struct.pack('<I') of the write      *)
(* fails otherwise), so every field of the layout must fit in it, and     *)
(* each field holds a value of its width.                                 *)
TypeOK ==
    /\ \A f \in Fields : Layout[f][1] + Layout[f][2] <= 32
    /\ desc \in Nat
    /\ fields \in [Fields -> Nat]
    /\ \A f \in Fields : fields[f] \in FieldValues(f)
    /\ rmw = NoRmw \/ rmw.field \in SwFields

(* The word written by set_buffer_rx_popped and set_buffer_rx_opensocket  *)
(* changes only the bits of its own field: after any sequence of hardware *)
(* updates and TB read-modify-writes, including updates between the read  *)
(* and the write-back of the stale word, the register holds exactly the   *)
(* packing of the values each owner last gave its fields.                 *)
RegisterEncodesFields == desc = Encode(fields)

(* get_buffer_rx_param, with its hard-coded 5-bit width, returns the      *)
(* value the hardware last gave head, tail, full or empty, for every      *)
(* value those fields can take, whatever the TB has written around them. *)
ReadsReturnFields ==
    \A f \in HwFields :
        get_buffer_rx_param(desc, Layout[f][1]) = fields[f]

=============================================================================
