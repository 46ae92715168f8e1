--------------------------- MODULE MC_ArgDecoder ---------------------------
(* A small user address space for ArgDecoder: MAX_BUF_READ_SIZE is 3      *)
(* units, the 40-bit mask is mod 16, addresses 1..9 are mapped.            *)
(*   1: "a\0"            8: "b\0" ending at the last mapped unit          *)
(*   3: "cde..." longer than the limit                                    *)
(*   4: a pointer to the iovec at 6; 3: a pointer to the iovec at 7;     *)
(*      1: a tagged pointer (17) to 1; 8: a NULL pointer                   *)
(*   6: iovec {base 17 (tagged 1), len 2}; 7: iovec {base 12, len 5}      *)
EXTENDS ArgDecoder, TLC

MCMapped == 1..9
MCNulAt == {2, 9}
MCWordAt == [a \in MCMapped |-> CASE a = 4 -> 6 [] a = 3 -> 7 [] a = 1 -> 17 [] OTHER -> 0]
MCIovAt == [a \in MCMapped |->
              CASE a = 6 -> [base |-> 17, len |-> 2]
                [] a = 7 -> [base |-> 12, len |-> 5]
                [] OTHER -> [base |-> 0, len |-> 0]]

\* point_arg records; read_index REG, read in the phase given.
PA(flag, type, alias, size, persize, countidx, offset) ==
    [read_flag |-> flag, read_index |-> READ_INDEX_REG, alias_type |-> alias,
     type |-> type, size |-> size, item_persize |-> persize,
     item_countindex |-> countidx, read_offset |-> offset]

NumArg(ph)  == PA(ph, "num", "plain", 8, 1, READ_INDEX_SKIP, 0)
StrArg(ph)  == PA(ph, "string", "plain", 0, 1, READ_INDEX_SKIP, 0)
SmallStruct(ph) == PA(ph, "struct", "plain", 2, 1, READ_INDEX_SKIP, 0)
BigStruct(ph)   == PA(ph, "struct", "plain", 5, 1, READ_INDEX_SKIP, 0)
BufArg(ph)  == PA(ph, "buffer_t", "buffer", 0, 1, 2, 0)
IovArg(ph)  == PA(ph, "pointer", "iovec", 0, 1, READ_INDEX_SKIP, 0)
AttrArg(ph) == PA(ph, "pointer", "pthread_attr", 2, 1, READ_INDEX_SKIP, 0)
OffStr(ph)  == PA(ph, "string", "plain", 0, 1, READ_INDEX_SKIP, 7)
SkipArg == [NumArg("enter") EXCEPT !.read_index = READ_INDEX_SKIP]

Other(ph) == IF ph = SYS_ENTER THEN SYS_EXIT ELSE SYS_ENTER

ArgShapes(ph) ==
    {StrArg(ph), SmallStruct(ph), BigStruct(ph), BufArg(ph), IovArg(ph),
     AttrArg(ph), OffStr(ph), NumArg(ph), StrArg(Other(ph)), SkipArg}

\* Arguments 0 and 1 of every shape; argument 2 is the count register.
MCDescs(ph) ==
    {[count |-> 3, args |-> <<a0, a1, NumArg(ph)>>, ret |-> rd] :
        a0, a1 \in ArgShapes(ph), rd \in {NumArg(ph), StrArg(ph), IovArg(ph), BufArg(ph)}}

Addrs == {0, 1, 3, 4, 8, 17}
MCRegSets(counts) == {[k \in 0..2 |-> IF k = 2 THEN c ELSE a[k]] :
                         a \in [0..1 -> Addrs], c \in counts}

BothPhases == {SYS_ENTER, SYS_EXIT}
EnterPhase == {SYS_ENTER}
\* Descriptors whose argument 0 and 1 are read at entry, and those read at
\* exit (each with an argument read at the other phase among its shapes).
AllDescs == MCDescs(SYS_ENTER) \cup MCDescs(SYS_EXIT)
EnterDescs == MCDescs(SYS_ENTER)
CountRegs == MCRegSets({1, 4})
ZeroCountRegs == MCRegSets({0})
ExitRets == {0, 8}
=============================================================================
