# TLA+ models of stackplz's syscall tracer (src/src)

stackplz's kernel side is an eBPF program. It has three handlers:
- `raw_syscalls_sys_enter` and `raw_syscalls_sys_exit` (`syscall.c` 99-376) capture every syscall of the watched processes as a structured record.
- `tracepoint__sched__sched_process_fork` (`syscall.c` 48-97) extends the watched set to the children of a watched process.

The argument decoding helpers live in `utils.h`, and the maps in `maps.h`. The headers under `common/` (buffer primitives, `should_trace`, constants) are not in the source tree. What this project takes from them, it takes from `spec.md`, and PROJECT.json marks those definitions `spec_modelled`.

## The parts and how they interact

| Part | Code | Module |
|---|---|---|
| Scope tracker: `child_parent_map`, fork propagation | `syscall.c` 48-97, `maps.h` 34 | `ScopeTracker` |
| Scope resolution (`should_trace`) | `common/filtering.h` (absent) | input `inScope` of `SyscallEvents` |
| Filter pipeline (syscall_all / whitelist / blacklist) | `syscall.c` 128-144, 281-297 | `SyscallEvents!SyscallFilterPasses` |
| Cross-call store `args_map` (save / load / delete) | `syscall.c` 147-153, 275-279, `maps.h` 33 | `SyscallEvents` |
| Descriptor table `syscall_point_args_map` | `syscall.c` 19-39, 176-212, 303-338 | constant `Desc` / `Descs` |
| Argument decoder (`read_arg`, `read_ptr_arg`, `save_bytes_with_len`, read_count) | `utils.h` 28-178, `syscall.c` 183-235, 308-370 | `ArgDecoder` |
| Output serializer (`save_to_submit_buf`, `save_bytes_to_buf`) | `common/buffer.h` (absent) | `ArgDecoder` (spec_modelled) |
| Signal after capture | `syscall.c` 240-246 | `SyscallEvents` (`pendingSignal`) |
| Control plane updates of `sys_whitelist` | userspace, not in the tree | `SyscallEvents!UpdateWhitelist` (spec_modelled) |
| Perf transport, rest of the control plane | outside src | not modelled |

At run time the parts interact as follows:
1. The fork handler adds a child to `child_parent_map` when its parent is a seeded root.
2. `should_trace` (external) consults that map to give each thread its scope.
3. `sys_enter` looks up the descriptor and the filter. It then snapshots x0..x4 into `args_map[tid]` and decodes the arguments into the per-CPU record.
4. `sys_exit` loads and deletes the snapshot, applies the filters, and decodes the arguments and the return value.

The modules follow that split:
- `ScopeTracker` models step 1.
- `SyscallEvents` models the entry/exit correlation across threads. That covers the filters, `args_map`, which slots each handler emits and the raw values of those slots, thread death inside `exit_group`, and tid reuse.
- `ArgDecoder` models a single handler invocation's decode loop into the bounded buffer.

`SyscallEvents` abstracts a record to `slot -> raw value`. `ArgDecoder` takes the raw values as given and models what is appended after them. The two meet at the raw-value field of each slot. Composing them is left to a later stage (see "Plan").

## Modules

### `SyscallEvents` (`syscall.c` sys_enter / sys_exit, `maps.h` args_map)

**State.** Per thread it holds:
- `tstate`: user, kernel or dead.
- `cur`: the current syscall.
- `regs`: the live registers.
- `inScope`: the `should_trace` verdict.
- `argsMap`: `args_map`, keyed by tid.
- `pendingSignal`: set by `bpf_send_signal`.
- `sysWhitelist`: the keys of `sys_whitelist`, which the control plane may change.
- `call`: a history variable holding the entry registers, the scope at entry, and the entry and exit records.

**Actions.**
- `sys_enter(t, s, r)` is the whole entry handler. It checks scope, descriptor, filter entry and filters. It then calls `save_args`, whose failure on a full map is ignored. Next it builds the entry record; the dispatch, including the dead `read_index > READ_INDEX_SKIP` branch, is modelled as written. Finally it raises the signal.
- `sys_exit(t, ret, sc)` is the kernel writing the return value into x0 (and, for a `ScopeChanging` call such as prctl, changing scope), followed by the whole exit handler. Its steps run in the code's order: `should_trace`, descriptor, filter entry, `load_args` (return if absent), `del_args`, the filters, then the record. The record takes x0..x5 from the snapshot and the rest from live registers.
- `ThreadExit(t)` models a `NoReturn` call (exit_group): the thread dies in the kernel and `sys_exit` never runs.
- `ThreadStart(t, sc)` models a new thread that reuses the tid.
- `UpdateWhitelist(s)`: the control plane adds a syscall in `Reconfigurable` to `sys_whitelist`, or removes it, while threads run. With `AddsInFlight` FALSE, it adds only while no thread is inside a syscall. Spec 4.2 allows the configuration to differ between a call's entry and its exit.
- `LoadsSnapshot` is the `load_args` test of `sys_exit`. It comes before the white/blacklist checks, so an exit that the filters now reject still consumes its snapshot.

**Abstract specification.** `CallLog` states what the correlation promises per thread. Its `Enter(t)` starts a call whose arguments are captured, or not (None). `Complete(t)` emits the exit record with exactly the entry's arguments. `Abandon(t)` ends a captured call without an exit record. `SyscallEvents` maps onto it as follows:
- `inflight[t]` is the register-sourced fields of `call[t].entry` while the thread is in the kernel.
- `exits[t]` is the register-sourced fields of `call[t].exit`.

`CallLogRefinement` is `Log!Spec` under that mapping. An exit record for an uncaptured entry, or one with other arguments than its entry, has no abstract step.

### `ScopeTracker` (`syscall.c` 48-97, `maps.h` 34)

**State:**
- `alive` and `used`: the live pids and the pids ever given out.
- `tgid`: each task's process.
- `forker`: a history variable, the task whose fork created each task.
- `childParentMap`.

**Actions.**
- `Fork(p, c, thread)` runs the fork handler (`OnFork`). It looks up the forking thread's pid. If the map has no entry for it, nothing happens. If the entry equals that pid, `MapUpdate(child, parent)` is applied; it fails silently when 512 entries are in use. Any other value leaves the map as it was.
- `Exit(t)`: nothing removes an entry.
- `PidReuse` controls whether a freed pid may be given out again.

### `ArgDecoder` (`utils.h`, the argument loop of both handlers)

**Inputs.** One invocation is modelled. `Init` picks:
- a descriptor from `Descs`, each a `syscall_point_args_t` whose entries are `point_arg_t` records (`IsSyscallPointArgs`, `IsPointArg`, checked as ASSUMEs),
- the argument registers from `RegSets`,
- the return value from `Rets`.

`phase` selects the entry or the exit handler; one descriptor set serves both, as in the code, so an argument read at the other phase yields only its raw value.

**User memory** is a constant:
- `Mapped`: the addresses that can be read.
- `NulAt`: the NUL positions.
- `WordAt`: the pointer stored at an address.
- `IovAt`: the iovec stored at an address.
- `MaskMod`: stands for the `0xffffffffff` mask.

**Buffer.** The buffer is a sequence of fields, each with an index, kind, length, zero flag, and the slot and part it encodes. Its offset is bounded by `RecordCap`; fields that do not fit are recorded in `dropped`.

**Actions:**
- `StepSkip` and `StepArg` are one iteration of the loop at `syscall.c` 183-235 / 308-361. `StepArg` emits the raw value, then checks `read_flag` against the phase and `arg_ptr == 0`, then computes `ReadCount` and calls `read_arg`.
- `Submit` appends, at exit only, the return value and its decode with `read_count` 0. It then appends the `out_size` trailer and submits. The return descriptor ranges over number, string, iovec and raw-buffer shapes. A raw-buffer return descriptor therefore asks for 0 bytes: its field is dropped and only its index is consumed, which `IndexAccounting` accounts for.

**`read_arg` and `read_ptr_arg`** are pure operators that follow every branch in the code's order:
- the offset;
- none/num;
- NULL;
- string, with its raw read and `_str` fallback (the raw read faults on a tagged pointer; the fallback reads the untagged address, per the comment at `utils.h` 111);
- string array, where the external helper is abstracted to one field;
- struct;
- raw buffer;
- pointer, followed by pthread_attr or iovec.

Each one keeps the code's masking and zero-fill behaviour. Lengths are in abstract units: `MaxBuf` stands for 4096. The three limits of `common/consts.h` (`MAX_STRING_SIZE`, `MAX_BYTES_ARR_SIZE`, `MAX_BUF_READ_SIZE`) are definitions equal to `MaxBuf`, used where the code uses each one.

## Runs

| Run | Expect | What it shows |
|---|---|---|
| `SyscallEvents_core` | pass | Two threads run syscalls that are whitelisted, blacklisted, unlisted or undescribed. Threads die in `exit_group` and their tids are reused. The control plane removes `read` from the whitelist at any time, and adds it only while no thread is inside a syscall (`AddsInFlight` FALSE). `SnapshotOnlyInFlight`: a snapshot belongs to a captured in-flight call, even when the whitelist changes under it. `ExitReportsEntryArguments`: the exit reports the entry's argument registers. `EntryExitSameSlots`: entry and exit records frame the same slots. `CallLogRefinement`: the whole behaviour implements `CallLog`. |
| `SyscallEvents_stale_snapshot` | violation | The thread leaves scope inside a captured prctl. A later exit back in scope reports the stale snapshot's arguments. |
| `SyscallEvents_whitelist_add` | violation | A thread dies in `exit_group` and leaves its snapshot. Its tid is reused for a new thread, which enters `read` while `read` is not whitelisted. The control plane then adds `read`. The exit loads the dead thread's snapshot and emits an exit record for an uncaptured entry (`CallLogRefinement`). |
| `SyscallEvents_args_map_full` | violation | Snapshots left by dead threads fill `args_map`, and a captured call then loses its exit record. |
| `SyscallEvents_exit_arg5` | violation | The exit reports x5 as 0, because only x0..x4 are saved. |
| `SyscallEvents_entry_sp` | violation | An sp-sourced slot is emitted at exit but not at entry. |
| `ScopeTracker_core` | pass | Runs with and without room in the map. The map never exceeds `max_entries` (`TypeOK`). Only direct children of a root's main thread are linked, always to that root (`AncestryValuesAreRoots`, `LinkedTasksAreRootChildren`). Such a child is unlinked only once the map is full (`UnlinkedOnlyWhenFull`). |
| `ScopeTracker_thread_fork` | violation | A child process forked by a non-main thread of a root is not linked. |
| `ScopeTracker_map_full` | violation | Stale entries fill the map, and a new child of the root goes untraced. |
| `ScopeTracker_pid_reuse` | violation | A task that reuses the pid of an exited child is in scope. |
| `ArgDecoder_decode` | pass | Both handlers (`phase` is chosen in `Init`). Struct, iovec-data and buffer payloads have the specified width, read or zero-filled (`PayloadLengthsAsSpecified`). Strings equal a unit-by-unit reference scan of the string at the masked address, as spec 4.5 asks (`StringFieldsAsScanned`, checked against the RECURSIVE `ScanStr`). The string branch does not mask its pointer: a tagged pointer faults the raw read and is read by the `_str` fallback, which the comment at `utils.h` 111 says reads MTE-tagged pointers normally. Without the fallback the check fails. Indices increase strictly, and every gap is a dropped field (`IndexAccounting`). |
| `ArgDecoder_count_zero` | violation | A buffer whose count register is 0 is read as 4096 bytes. |

The findings these violations support are in PROJECT.json. Every property of a passing run has a mutant: a plausible bug in the mapped definition that TLC catches under the run's own cfg.

## Bounds and why they suffice

**SyscallEvents:**
- Two threads, because the `args_map` interactions need a second thread.
- Register values {0,1}.
- Five syscalls in the core run, one per path through the handlers: write (captured, with a SKIP slot), read (described but not whitelisted), prctl (whitelisted and blacklisted), getpid (no descriptor) and exit_group (never returns).
- `MaxReg` of 0-1 in most runs and 5 in `exit_arg5`.
- `ArgsMapCap` 1-2, standing for 1024. Filling the map is what matters, and one or two entries reach that with two threads.
- One reconfigurable syscall, `read`. It is described but not whitelisted at the start, so adding it and removing it both change whether a call in flight is captured.

**ScopeTracker:**
- Four pids, one root.
- `MapCap` 3 in the core run: the root and two children fit, and a third child does not. The violation runs use 4, or 2 with one live child at a time.

**ArgDecoder:**
- `MaxBuf` 3.
- Memory 1..9, containing:
  - a short string;
  - a string longer than the limit;
  - a string ending at the last mapped unit (needs the fallback);
  - a NULL pointer;
  - a tagged pointer;
  - a pointer to an iovec with a tagged base;
  - a pointer to an iovec whose base faults (so its data field is zero-filled).
- `RecordCap` 22, so two large payloads overflow the record.
- Every argument shape appears in two slots, plus a count register of 1 (in range) or 4 (above the cap).

**Deadlock checking.**
- `ScopeTracker` runs without pid reuse set `CHECK_DEADLOCK FALSE`, because every pid is used at most once and a behaviour ends.
- `ArgDecoder` models one invocation, which runs to completion and stops, so it sets `CHECK_DEADLOCK FALSE`. Invocations are independent: each starts from a fresh per-CPU buffer.

## Fairness

- **`ArgDecoder`** has no liveness property. Every step advances the bounded loop counter, so termination holds by the shape of the loop and would say nothing about the code. Its end-state properties are invariants guarded by `pc = "done"`.
- **`SyscallEvents` and `ScopeTracker`** have no fairness. Their steps are those of the traced program: entering a syscall, forking, exiting. That program owes the tracer no progress, so only safety and refinement (a safety property) are checked there.

## Not modelled

- The `out_size` trailer of a full record. It is dropped like any other field, and `IndexAccounting` shows the gap. A stronger property and its violation run, stating that every record ends with its trailer, existed earlier. It was given up for `SyscallEvents_whitelist_add` because the number of runs is limited. That finding depends on `common/buffer.h`, which is not in the tree.
- Changes to the descriptor table, the filter flags and the blacklist while calls are in flight. Only `sys_whitelist` is reconfigurable in the model.
- `CapturedCallsComplete` (a captured call that returns in scope has an exit record) is checked only by `SyscallEvents_args_map_full`, where it fails. Under the core bounds `args_map` cannot fill (capacity 2, two threads), so the property would hold there by configuration.

- The perf transport (`events_perf_submit`): its failure is ignored.
- `should_trace`, `init_program_data`, the thread-name and reverse-string filters: their code is outside the source tree.
- The rest of the control plane: loading, and seeding roots and descriptors. Those are constants of the model.
- Byte contents and the wire layout of fields.
- The `save_str_arr_to_buf` helper.

## Plan (later stages)

1. Compose `ArgDecoder` into `SyscallEvents`: the decoded payload of each slot, from the registers the correlation model tracks.
2. `CallLogRefinement` separates the two `args_map` hazards. With `SyscallEvents_args_map_full.cfg` and the property in place of the invariant, it holds (4,348 states): lost exits are `Abandon` steps. With `SyscallEvents_stale_snapshot.cfg` it fails: the exit of an uncaptured entry has no abstract step. Both checks were done by hand; they are not among the runs, because of the limit on the number of runs.
3. Model the u32 wrap of `read_count * item_persize` and of `iov_len` with larger values in a dedicated configuration.
4. Model perf submission loss as an unreliable channel between the handlers and a consumer that checks framing with `out_size`.
5. Let the control plane change the descriptor table and the `syscall_filter` entry while calls are in flight. `sys_exit` returns before `load_args` when either is missing (`syscall.c` 264-273), which leaves a stale snapshot, as `should_trace` does.
