----------------------------- MODULE ArgDecoder -----------------------------
(***************************************************************************)
(* The descriptor-driven argument decoder of src/src/utils.h (read_arg,    *)
(* read_ptr_arg, save_bytes_with_len) and the argument loop of the         *)
(* sys_enter/sys_exit handlers that drives it (src/src/syscall.c), writing *)
(* into the bounded per-CPU event buffer.                                  *)
(*                                                                         *)
(* One handler invocation: Init picks a descriptor, the argument registers *)
(* and the return value; each Step runs one iteration of the argument      *)
(* loop; Submit appends the exit-only return-value fields and the          *)
(* out_size trailer and submits the record.                                *)
(*                                                                         *)
(* Sizes are in abstract units: MaxBuf stands for MAX_BUF_READ_SIZE,       *)
(* MAX_BYTES_ARR_SIZE and MAX_STRING_SIZE (all 4096), a machine word for   *)
(* one unit.  User memory is a constant: the mapped addresses, where the   *)
(* NUL bytes are, and the word and iovec stored at an address.             *)
(***************************************************************************)
EXTENDS Integers, Sequences
LOCAL INSTANCE FiniteSetsExt

CONSTANTS
    Phases,     \* handlers modelled: a subset of {SYS_ENTER, SYS_EXIT}
    Descs,      \* candidate syscall_point_args entries
    RegSets,    \* candidate argument registers x0..xMaxReg
    Rets,       \* candidate return values (exit)
    MaxBuf,     \* MAX_BUF_READ_SIZE = MAX_BYTES_ARR_SIZE = MAX_STRING_SIZE
    RecordCap,  \* room in the event's argument buffer
    Mapped,     \* readable user addresses
    NulAt,      \* addresses holding a NUL byte
    WordAt,     \* address -> the word stored there
    IovAt,      \* address -> the struct iovec stored there
    MaskMod,    \* 2^40: the 0xffffffffff mask
    U32         \* 2^32: u32 wrap-around (TLC integers are 32-bit, so a smaller
                \* power of two above every value of the model stands for it)

\* Constants of utils.h; REG_ARM64_X29, SYS_ENTER and SYS_EXIT come from
\* headers that are not in the source tree, and are modelled from the spec.
MAX_POINT_ARG_COUNT == 10
READ_INDEX_SKIP == 100
READ_INDEX_REG == 101
REG_ARM64_X29 == 29
SYS_ENTER == "enter"
SYS_EXIT == "exit"

(* struct point_arg_t (utils.h 17-26), every field a u32.  type and       *)
(* alias_type are the TYPE_* / alias values the decoder tells apart,       *)
(* read_flag the phase the pointee is decoded in.                          *)
IsPointArg(pa) ==
    /\ DOMAIN pa = {"read_flag", "read_index", "alias_type", "type", "size",
                    "item_persize", "item_countindex", "read_offset"}
    /\ pa.read_flag \in {SYS_ENTER, SYS_EXIT}
    /\ pa.type \in {"none", "num", "string", "string_arr", "struct", "pointer", "buffer_t"}
    /\ \A f \in {"read_index", "size", "item_persize", "item_countindex", "read_offset"} :
           pa[f] \in 0..(U32 - 1)

(* struct syscall_point_args_t (syscall.c 19-24): the stored count, the    *)
(* point_args array (its first entries; the loop never reads past count   *)
(* capped at MAX_POINT_ARG_COUNT) and point_arg_ret.                       *)
IsSyscallPointArgs(d) ==
    /\ d.count \in 0..(U32 - 1)
    /\ Len(d.args) <= MAX_POINT_ARG_COUNT
    /\ d.count <= MAX_POINT_ARG_COUNT => Len(d.args) >= d.count
    /\ \A i \in DOMAIN d.args : IsPointArg(d.args[i])
    /\ IsPointArg(d.ret)

ASSUME Phases \subseteq {SYS_ENTER, SYS_EXIT}
ASSUME \A d \in Descs : IsSyscallPointArgs(d)
ASSUME \A d \in Descs : \A i \in DOMAIN d.args :
           d.args[i].read_index \in {READ_INDEX_SKIP, READ_INDEX_REG}

(* The size limits of common/consts.h, all PATH_MAX, all MaxBuf units.    *)
MAX_STRING_SIZE == MaxBuf
MAX_BYTES_ARR_SIZE == MaxBuf
MAX_BUF_READ_SIZE == MaxBuf

ReadMask(p) == p % MaskMod

\* bpf_probe_read_user of n units at p succeeds iff all of them are mapped.
Readable(p, n) == \A k \in p..(p + n - 1) : k \in Mapped

\* Length of the NUL-terminated string at p, NUL included, if it is mapped.
StrEnd(p) == {k \in Mapped : k >= p /\ k \in NulAt /\ Readable(p, k - p + 1)}

-----------------------------------------------------------------------------
(* The event buffer (common/buffer.h): a field is appended only if it fits *)
(* into the remaining room; otherwise it is dropped and the buffer is      *)
(* left as it was.  A field: its index, kind, payload length, whether it   *)
(* is a zero fill, and (history) the argument slot and part it encodes.    *)
Field(idx, kind, len, zero, slot, part) ==
    [idx |-> idx, kind |-> kind, len |-> len, zero |-> zero, slot |-> slot,
     part |-> part]

Cost(f) == 1 + f.len

\* b: [fields, off, dropped]
Fits(b, f) == b.off + Cost(f) <= RecordCap
\* Mutant: no room check.
PutUnchecked(b, f) == [b EXCEPT !.fields = Append(@, f), !.off = @ + Cost(f)]
Put(b, f) ==
    IF Fits(b, f)
    THEN [b EXCEPT !.fields = Append(@, f), !.off = @ + Cost(f)]
    ELSE [b EXCEPT !.dropped = @ \cup {f.idx}]

\* save_to_submit_buf of a u64/u32 value.
SaveNum(b, idx, slot, part) == Put(b, Field(idx, "num", 1, FALSE, slot, part))

\* save_bytes_to_buf(ptr, n): reads n units at ptr into the buffer; fails
\* (status 0) for n = 0, an unreadable source or a full buffer.
SaveBytesOk(b, ptr, n, slot, part) ==
    n > 0 /\ Readable(ptr, n) /\ Fits(b, Field(0, "bytes", n, FALSE, slot, part))
SaveBytes(b, ptr, n, idx, slot, part) ==
    IF SaveBytesOk(b, ptr, n, slot, part)
    THEN Put(b, Field(idx, "bytes", n, FALSE, slot, part))
    ELSE b
\* The same from the ZERO_BUF_IDX scratch buffer: always readable.
SaveZeros(b, n, idx, slot, part) ==
    IF n > 0 THEN Put(b, Field(idx, "bytes", n, TRUE, slot, part))
    ELSE [b EXCEPT !.dropped = @ \cup {idx}]

\* Read of n units at ptr, zero-filled when it fails; the index advances.
\* (The ZERO_BUF_IDX per-CPU slot always exists, so get_buf never fails.)
\* Mutant: no zero fill after a fault.
BytesOrZerosNoFill(b, ptr, n, idx, slot, part) ==
    [b |-> SaveBytes(b, ptr, n, idx, slot, part), idx |-> idx + 1]
BytesOrZeros(b, ptr, n, idx, slot, part) ==
    [b |-> IF SaveBytesOk(b, ptr, n, slot, part)
           THEN SaveBytes(b, ptr, n, idx, slot, part)
           ELSE SaveZeros(b, n, idx, slot, part),
     idx |-> idx + 1]

-----------------------------------------------------------------------------
(* save_bytes_with_len (utils.h 28-42).                                    *)
save_bytes_with_len(b, ptr, len, idx, slot) ==
    LET n == IF len > MAX_BUF_READ_SIZE THEN MAX_BUF_READ_SIZE ELSE len
    IN BytesOrZeros(b, ReadMask(ptr), n, idx, slot, "iov_data")

(* A struct of pa.size units at ptr, capped at MAX_BYTES_ARR_SIZE          *)
(* (utils.h 123-144).                                                      *)
\* Mutant: the MAX_BYTES_ARR_SIZE cap is dropped.
SaveStructUncapped(b, pa, ptr, idx, slot) ==
    BytesOrZeros(b, ReadMask(ptr), pa.size, idx, slot, "struct")
SaveStruct(b, pa, ptr, idx, slot) ==
    LET n == IF pa.size <= MAX_BYTES_ARR_SIZE THEN pa.size ELSE MAX_BYTES_ARR_SIZE
    IN BytesOrZeros(b, ReadMask(ptr), n, idx, slot, "struct")

(* read_ptr_arg (utils.h 44-89): the pointee of a TYPE_POINTER argument.   *)
read_ptr_arg(b, pa, ptr, idx, slot) ==
    IF pa.alias_type = "pthread_attr" THEN SaveStruct(b, pa, ptr, idx, slot)
    ELSE IF pa.alias_type = "iovec" /\ Readable(ptr, 1)
    THEN LET b1 == SaveNum(b, idx, slot, "iovec")
         IN save_bytes_with_len(b1, IovAt[ptr].base, IovAt[ptr].len % U32, idx + 1, slot)
    ELSE [b |-> b, idx |-> idx]

(* The string field (utils.h 103-117): a raw read of MAX_STRING_SIZE      *)
(* units, else bpf_probe_read_user_str; save_str_to_buf then takes the     *)
(* string up to its NUL, at most MaxBuf units with the NUL.  Two failed    *)
(* reads leave the scratch buffer zeroed: the empty string.  The pointer   *)
(* is not masked here: a tagged pointer faults the raw read, and the       *)
(* fallback reads it as its untagged address (the comment at utils.h 111:  *)
(* "MTE is in fact read normally").                                        *)
StrLenAt(p) ==
    LET ends == {k \in StrEnd(p) : k - p + 1 <= MAX_STRING_SIZE}
    IN IF ends # {} THEN Min(ends) - p + 1
       ELSE IF Readable(p, MAX_STRING_SIZE - 1) THEN MAX_STRING_SIZE
       ELSE 1
\* Mutant: no bpf_probe_read_user_str fallback.
StringLenRawOnly(ptr) ==
    IF Readable(ptr, MAX_STRING_SIZE) THEN StrLenAt(ptr) ELSE 1
StringLen(ptr) ==
    IF Readable(ptr, MAX_STRING_SIZE) THEN StrLenAt(ptr) ELSE StrLenAt(ReadMask(ptr))

(* read_arg (utils.h 91-178): the  fields decoded from argument value ptr0 *)
(* with read count rc, starting at index idx.                              *)
read_arg(b, pa, ptr0, rc, idx, slot) ==
    LET ptr == ptr0 + pa.read_offset IN
    IF pa.type \in {"none", "num"} \/ ptr = 0 THEN [b |-> b, idx |-> idx]
    ELSE IF pa.type = "string"
    THEN [b |-> Put(b, Field(idx, "str", StringLen(ptr), FALSE, slot, "string")),
          idx |-> idx + 1]
    ELSE IF pa.type = "string_arr"
    THEN [b |-> Put(b, Field(idx, "strarr", 1, FALSE, slot, "string_arr")),
          idx |-> idx + 1]
    ELSE IF pa.type = "struct" THEN SaveStruct(b, pa, ptr, idx, slot)
    ELSE IF pa.alias_type = "buffer"
    THEN BytesOrZeros(b, ReadMask(ptr), (rc * pa.item_persize) % U32, idx, slot, "buffer")
    ELSE IF pa.type = "pointer"
    THEN LET addr == IF Readable(ptr, 1) THEN WordAt[ptr] ELSE 0
             b1 == SaveNum(b, idx, slot, "pointee")
         IN IF addr = 0 THEN [b |-> b1, idx |-> idx + 1]
            ELSE read_ptr_arg(b1, pa, addr, idx + 1, slot)
    ELSE [b |-> b, idx |-> idx]

-----------------------------------------------------------------------------
RetSlot == MAX_POINT_ARG_COUNT    \* the slot of point_arg_ret
HeaderSlot == -1                  \* sysno, lr, pc, sp

Reg(r, k) == IF k \in DOMAIN r THEN r[k] ELSE 0

ArgCount(d) ==
    IF d.count <= MAX_POINT_ARG_COUNT THEN d.count ELSE MAX_POINT_ARG_COUNT

(* read_count (syscall.c 220-233): from the register item_countindex      *)
(* (truncated to u32, x29 and above excluded), else from size; capped at  *)
(* MAX_BUF_READ_SIZE, and left at the cap when the count is 0.            *)
ReadCount(pa, live) ==
    IF pa.item_countindex # READ_INDEX_SKIP
    THEN LET item_count == IF pa.item_countindex < REG_ARM64_X29
                           THEN Reg(live, pa.item_countindex) % U32 ELSE 0
         IN IF item_count # 0 /\ item_count <= MAX_BUF_READ_SIZE
            THEN item_count ELSE MAX_BUF_READ_SIZE
    ELSE IF pa.size <= MAX_BUF_READ_SIZE THEN pa.size ELSE MAX_BUF_READ_SIZE

VARIABLES
    phase,  \* SYS_ENTER or SYS_EXIT: the handler running
    desc,   \* the syscall_point_args entry of this syscall
    regs,   \* the argument registers (the snapshot at exit)
    ret,    \* x0 at exit: the return value
    pos,    \* loop counter i
    idx,    \* next_arg_index
    buf,    \* the event buffer
    pc      \* "loop" | "done"

dvars == <<phase, desc, regs, ret, pos, idx, buf, pc>>

\* The buffer after the handler's leading fields: sysno, lr, pc, sp at entry
\* (syscall.c 156-174), sysno at exit (syscall.c 300-301).
Leading == IF phase = SYS_ENTER THEN 4 ELSE 1
Begin ==
    [fields |-> [i \in 1..Leading |-> Field(i - 1, "num", 1, FALSE, HeaderSlot, "header")],
     off |-> Leading * 2, dropped |-> {}]


\* The live registers the handler reads: x0 holds the return value at exit.
Live == IF phase = SYS_EXIT THEN [regs EXCEPT ![0] = ret] ELSE regs

Start(ph, d, r, rv) ==
    /\ phase = ph /\ desc = d /\ regs = r /\ ret = rv
    /\ pos = 0 /\ idx = Leading /\ buf = Begin /\ pc = "loop"

\* The return value exists at exit only.
Init ==
    \E ph \in Phases, d \in Descs, r \in RegSets :
        \E rv \in IF ph = SYS_EXIT THEN Rets ELSE {0} : Start(ph, d, r, rv)

(* One iteration of the argument loop (syscall.c 183-235 / 308-361) for a *)
(* READ_INDEX_REG or READ_INDEX_SKIP slot.                                 *)
StepSkip ==
    /\ pc = "loop" /\ pos < ArgCount(desc)
    /\ desc.args[pos + 1].read_index = READ_INDEX_SKIP
    /\ pos' = pos + 1
    /\ UNCHANGED <<phase, desc, regs, ret, idx, buf, pc>>

StepArg ==
    LET pa == desc.args[pos + 1]
        arg_ptr == Reg(regs, pos)
        b1 == SaveNum(buf, idx, pos, "raw")
        decoded == read_arg(b1, pa, arg_ptr, ReadCount(pa, Live), idx + 1, pos)
    IN
    /\ pc = "loop" /\ pos < ArgCount(desc)
    /\ pa.read_index = READ_INDEX_REG
    /\ IF pa.read_flag # phase \/ arg_ptr = 0
       THEN buf' = b1 /\ idx' = idx + 1
       ELSE buf' = decoded.b /\ idx' = decoded.idx
    /\ pos' = pos + 1
    /\ UNCHANGED <<phase, desc, regs, ret, pc>>

(* After the loop: at exit the return value and its decode (syscall.c     *)
(* 363-370), then out_size and events_perf_submit (237-239 / 371-374).    *)
Submit ==
    LET b1 == SaveNum(buf, idx, RetSlot, "ret")
        r == IF phase = SYS_EXIT
             THEN read_arg(b1, desc.ret, ret, 0, idx + 1, RetSlot)
             ELSE [b |-> buf, idx |-> idx]
    IN
    /\ pc = "loop" /\ pos = ArgCount(desc)
    /\ buf' = SaveNum(r.b, r.idx, HeaderSlot, "out_size")
    /\ idx' = r.idx
    /\ pc' = "done"
    /\ UNCHANGED <<phase, desc, regs, ret, pos>>

\* An invocation runs to completion and stops: invocations are independent
\* (each starts from a fresh per-CPU buffer), so one is modelled at a time.
Next == StepSkip \/ StepArg \/ Submit

Spec == Init /\ [][Next]_dvars

-----------------------------------------------------------------------------
FieldKinds == {"num", "bytes", "str", "strarr"}

TypeOK ==
    /\ phase \in Phases /\ regs \in RegSets /\ ret \in Rets \cup {0}
    /\ pos \in 0..MAX_POINT_ARG_COUNT
    /\ idx \in Nat
    /\ pc \in {"loop", "done"}
    /\ \A i \in DOMAIN buf.fields : buf.fields[i].kind \in FieldKinds
    /\ buf.off <= RecordCap

\* The descriptor and the address decoded for an argument slot.
SlotDesc(slot) == IF slot = RetSlot THEN desc.ret ELSE desc.args[slot + 1]
SlotPtr(slot) ==
    IF slot = RetSlot THEN ret + desc.ret.read_offset
    ELSE Reg(regs, slot) + desc.args[slot + 1].read_offset

MinOf(a, b) == IF a <= b THEN a ELSE b

\* The payload length the decoder promises (spec 4.5): min(byte_size, 4096)
\* for a struct, min(iov_len, 4096) for the first iovec element, and
\* read_count x element_size for a raw buffer, read_count being the count
\* register's value (or byte_size) capped at 4096.
RequestedCount(pa) ==
    MinOf(IF pa.item_countindex # READ_INDEX_SKIP
          THEN Reg(Live, pa.item_countindex) ELSE pa.size, MaxBuf)
SpecLen(f) ==
    LET pa == SlotDesc(f.slot) IN
    CASE f.part = "struct"   -> MinOf(pa.size, MaxBuf)
      [] f.part = "iov_data" -> MinOf(IovAt[WordAt[SlotPtr(f.slot)]].len, MaxBuf)
      [] f.part = "buffer"   -> RequestedCount(pa) * pa.item_persize
      [] OTHER               -> f.len

(* Every struct, iovec-data and raw-buffer field of a submitted record has *)
(* the length the descriptor asks for, whether it was read or zero-filled *)
(* after a fault (read_arg / read_ptr_arg / save_bytes_with_len with the   *)
(* read_count computed by the handler): a consumer can parse it by the     *)
(* descriptor alone.                                                       *)
PayloadLengthsAsSpecified ==
    pc = "done" =>
        \A i \in DOMAIN buf.fields : buf.fields[i].len = SpecLen(buf.fields[i])

(* Reference: scanning the user string one unit at a time, stopping at    *)
(* its NUL, at the MAX_STRING_SIZE limit, or (empty string) at an          *)
(* unreadable unit.                                                        *)
RECURSIVE ScanStr(_, _)
ScanStr(p, k) ==
    IF k = MaxBuf - 1 THEN MaxBuf
    ELSE IF p + k \notin Mapped THEN 1
    ELSE IF p + k \in NulAt THEN k + 1
    ELSE ScanStr(p, k + 1)

(* A string argument is emitted as the NUL-terminated string at its        *)
(* masked address (spec 4.5: every address is masked before a read),      *)
(* truncated to MAX_STRING_SIZE, even when the raw bounded read            *)
(* faults on a tagged pointer or a string ending near unmapped memory     *)
(* (read_arg's TYPE_STRING branch and its bpf_probe_read_user_str         *)
(* fallback).                                                              *)
StringFieldsAsScanned ==
    pc = "done" =>
        \A i \in DOMAIN buf.fields :
            buf.fields[i].kind = "str" =>
                buf.fields[i].len = ScanStr(ReadMask(SlotPtr(buf.fields[i].slot)), 0)

(* The indices of a submitted record increase strictly, and every index up *)
(* to the out_size trailer's is either a field of the record or one the    *)
(* serializer dropped: a fault never makes a field vanish without a gap    *)
(* the consumer can see, and never reuses an index (next_arg_index         *)
(* bookkeeping across read_arg, read_ptr_arg and the handler loop).        *)
IndexAccounting ==
    pc = "done" =>
        /\ \A i, j \in DOMAIN buf.fields :
               i < j => buf.fields[i].idx < buf.fields[j].idx
        /\ {buf.fields[i].idx : i \in DOMAIN buf.fields} \cup buf.dropped = 0..idx
=============================================================================
