# TLA+ models of the ark_js_runtime build and test scripts

This directory holds TLA+ specifications of the Python scripts in `src/`. They
are the build and test tooling of the ARK JavaScript runtime. Each is checked
with TLC. The scripts are short, but most of them coordinate with external
processes: a target under test, a linker, `readelf`, `nm`, `strip` and the build
tool that reruns them. The hard behaviours are in those interactions and in a
few list-processing loops whose edge cases no test exercises.

## Inventory

| Part | Source | State | Operations | Interacts with |
|---|---|---|---|---|
| Test harness (script variant) | `src/script/run_ark_executable.py` | the child process, its pipes, the timeout clock, `out`/`err`/`returncode` | `Popen`; `communicate(timeout)`; `kill`; a second `communicate`; judging in one of four modes; `isSubSequence` | the target process, which runs concurrently |
| Test harness (test variant) | `src/test/run_ark_executable.py` | the same, with a fixed 300 s timeout and stderr not piped | the same, with only the exit-code and file modes | the target |
| Shared-library link wrapper | `src/build/toolchain/gcc_solink_wrapper.py` | `.so`, `.TOC` (content and mtime), stripped output, libfile copy; the response file for `.dll` | `reformat_rsp_file`; link; `collect_soname`; `collect_dyn_sym`; `update_toc`; strip; `copy2`; exit | the linker and binutils; the build tool, which reruns failed steps and relinks dependents when the `.TOC` is newer |
| Executable link wrapper | `src/build/toolchain/gcc_link_wrapper.py` | the command list that `update_crt` mutates in place | `is_static_link`; `update_crt`; ASan early return; link; strip | the linker and strip |
| Concurrent-link estimator | `src/build/toolchain/get_concurrent_links.py` | memory, budget, hard cap, CPU cap | platform memory query; budget; cap; `cpu_count`; `min` | the host and the environment |
| Resource embedder | `src/script/build_resource_to_cpp.py` | the byte array and its length | hex rendering; template substitution; truncate and write | the C++ compiler that consumes the output |
| Resource copier | `src/test/copy_resource.py` | the destination directory | exists check; `makedirs`; `copyfile` | other copies running in parallel in the build |
| Static analyzer wrapper | `src/build/toolchain/clang_static_analyzer_wrapper.py` | two return codes | analyzer run; compile run; returns the second status | the compiler |

`wrapper_utils` is imported by the toolchain wrappers but is not in the
repository. Its `command_to_run` and `run_link_with_optional_map_file` are
modelled as external tools that succeed or fail.

## Modules

* **GateTypeCompare** holds pure operators, with no variables:
  * `IsSubSequence` is `isSubSequence` (lines 44-53) as a RECURSIVE loop.
  * `ErrList` and `GateTypePasses` are the gate-type comparison (lines 110-123), `zip()` included.
  * `IsOrderedSubsequence` is the reference: an ordered subsequence, given as a strictly increasing position function.
* **IsSubSequenceLoop** is the same loop as a state machine, one iteration per step. It has the actions `EmptyGroup`, `LoopStep`, `ReturnEarly` and `ReturnAtEnd`. Checking it shows that the step-by-step loop and the operator both agree with the reference.
* **ArkHarness** is `judge_output`.
  * The target process is an actor. It writes lines to stdout and stderr, and it exits or hangs.
  * The harness actions follow the code in order:
    * `Popen`
    * `CommunicateReturns` or `TimeoutExpires`
    * `Kill` (as `send_signal`, which polls first, so a child that exited after the timeout keeps its own status)
    * `Drain` (the second `communicate`, which returns everything written)
    * one `Judge*` action per mode, in the code's `elif` order
  * `KillStartedProcessOnly` and `OrphanExit` cover a target forked by the process Popen started. That process is `/bin/sh -c` under `shell=True`, or a `--script-file` that runs the binary. `kill()` then ends that process only. The target, now `"orphaned"`, keeps writing and holds both pipes, so `Drain` waits for `PipesClosed`. These two actions are in `ForkedNext`/`ForkedSpec` only. `Spec` keeps the case where the shell execs the target.
  * A stderr line is abstracted to three things: whether it contains `TestInfer:`, whether it contains the sub-output string, and its `&`-separated fields.
  * An expectation file is a sequence of lines, the 13 header lines included.
* **RspReformat** is `reformat_rsp_file` (lines 80-100). The for loop is a `FoldLeft` of `ReformatStep` over the tokens. The checked reference is the recursive `Relocated`.
* **SolinkWrapper** is `main()` of the solink wrapper, run repeatedly.
  * The environment has four actions: `Edit` changes the sources, `Invoke` runs the wrapper, `Interrupt` kills it between any two steps, and `RelinkDependent` relinks a dependent whenever the `.TOC` mtime is newer than the dependent.
  * The code actions are `Link`, `CollectSoname`, `CollectDynSym`, `UpdateToc`, `Strip`, `CopyLibfile` and `Exit`. Each tool may fail.
  * Whether the library is a `.dll` (`isDll`) is chosen once, at `Init`, from `DllKinds`. For a `.dll`, `Invoke` writes the rule's response file afresh, as the build does before every run. `RewriteRsp` is the branch at lines 136-143, which calls RspReformat's `ReformatRsp` on that file. `RewriteRspInterrupted` is the build stopped after `open(rspfile, "w")` truncated the file, before the write.
  * A library is a record of an exported surface and an implementation. The TOC text (`Toc`) depends on the kind of library, because line 57 keeps the first two columns of `nm`'s output:
    * For an ELF library, `nm --format=posix` prints `name type value size`. The TOC is the surface.
    * For a `.dll`, `nm --extern-only` prints `address type name`. The TOC is the address column, which follows the implementation; the names are dropped.
* **ConcurrentLinks** is `_get_default_concurrent_links` (lines 65-77), one action per statement group. `TotalMemory` covers every platform branch of `_get_total_memory_in_bytes`. Memory is counted in quarter-GiB units. The `2**32` default is the constant `NoCapDefault`.
* **LinkWrapper** is `main()` of the link wrapper. `update_crt`'s loop is modelled step by step over the live list, with `list.index` as `IndexOf`, the first equal position. The ASan return, the link and the strip follow.
* **HarnessAbstract** is what the harness promises (spec 4.6), with no pipes, clock or kill. The target starts, writes lines, and ends with a status or killed. The verdict is then success exactly when the selected mode's expectation holds of everything written and of the final status. `Start`, `End` and `Verdict` are weakly fair: a target always ends (the timeout ends it) and is always judged.
* **TestArkHarness** is `judge_output` of `src/test/run_ark_executable.py`. It reuses ArkHarness's `Popen`, `TimeoutExpires`, `Kill`, the target and the clock through `INSTANCE`. Its own actions are `CommunicateReturns` and `Drain` (stdout only: stderr is not piped) and the judges of the three modes it knows.
* **ArkHarnesses** composes the two variants. A variable `variant` picks the script or the test harness at start, and each step is one of that variant's. Both are mapped onto HarnessAbstract with `INSTANCE ... WITH`: the abstract phase is derived from `pc` and the child's state, and the abstract output, stderr and status are what the target wrote and ended with (`childOut`, `childErr`, `childCode`), not what the harness read. The refinement therefore says that what the harness read and judged is what the target produced.
* **ResourceToCpp** is `resource_file_to_cpp`. Text is a sequence of tokens. `Hex` is `str(hex(b))`, computed digit by digit with the RECURSIVE `HexDigits`. `Join` and `Replace` are `str.join` and `str.replace` of one-token patterns. The output file starts with a stale fragment or empty, and one action writes the new fragment. The properties read the fragment back as a compiler would: `Initializer`, `SplitAtComma`, `ParseHex` and `Decode`.
* **CopyResource** is `copy_xml` of `src/test/copy_resource.py`, run by several copiers at once into one shared destination directory. Its actions are `CheckSource`, `CheckDst` (`os.path.exists`), `MakeDirs` (raises if the directory now exists), `CopyFile` (`shutil.copyfile`'s truncating open) and `CopyWrite` (the write, after which `copy_xml` returns).

Each `MC*.tla` module gives model values and small sets to the constants of
one module. The `MC*.cfg` files select the properties.

## Runs

| Run | Checks | Bounds | Result |
|---|---|---|---|
| `subsequence_loop` | `TypeOK`, `OperatorIsOrderedSubsequence` | fields {x, y} plus the empty name; groups of up to 3 fields on each side | pass |
| `harness` | `TypeOK`, `HarnessesRefineAbstract` | both variants; all five modes (three for the test variant); exit codes {0, 2}; 2 output lines; at most 2 writes; timeout of 1 tick; gate-type lists of up to 2 groups of up to 2 fields | pass (about 139 000 states) |
| `harness_gatetype_vacuous` | `GateTypeComparesEveryGroup` | script variant, as above | violation |
| `harness_forked_target_hangs` | `HarnessTerminates` | script variant, exit-code and file modes, `ForkedSpec` | violation |
| `rsp_reformat` | `TypeOK`, `ImplibsRelocated` | two import libraries, one other argument, 6 tokens, one section | pass |
| `rsp_reformat_two_sections` | `TokensPreserved` | two sections | violation |
| `solink_toc` | `TypeOK`, `ElfUpToDateMeansCurrent`, `LinkReadsRewrittenRsp` | ELF and `.dll` libraries; two surfaces × two implementations, 2 edits, 4 runs, strip and libfile on, three response files | pass (about 332 000 states) |
| `solink_dll_toc_stale` | `UpToDateMeansCurrent` | as above, `.dll` only | violation |
| `concurrent_links` | `TypeOK`, `ResultIsSafeParallelism`, `EnvCapHonoured` | every platform and query outcome; memory {0, 31, 32, 64} quarters; mem_per_link {0, 1, 8}; reserve {0, 1}; caps {0, 1, 3}; CPUs {1, 2, 4} | pass |
| `link_wrapper` | `TypeOK`, `LinkedCommandIsRewritten` | `-static`, two dynamic CRTs, one other argument, commands of up to 4 tokens | pass |
| `resource_to_cpp` | `TypeOK`, `FragmentRoundTrips` | bytes {0, 9, 16, 255}; resources of up to 3 bytes, the empty one included; names of up to 2 tokens over {r, .}; an empty or stale output file | pass |
| `copy_resource_makedirs_race` | `NoCopierRaises` | 3 copiers (symmetric), 2 files, 2 contents, sources present or missing | violation |

What each passing run shows:

* **`harness`**: for every interleaving of the target's writes and exit with the timeout, the kill and the drain, both variants implement HarnessAbstract. Each verdict is the mode's expectation of the full output and final status, and every run reaches a verdict even when the target hangs.
* **`solink_toc`**: after any sequence of edits, tool failures and interrupts (including one in the middle of the response-file rewrite), a finished build of an ELF library is current: the dependents are linked against the current surface, and the `.TOC`, the library and the stripped output are up to date. Every link reads the rule's response file rewritten exactly once. The exhaustive check of the rewrite itself is the `rsp_reformat` run: crossing 2 642 response files with the build's states is out of TLC's reach.
* **`resource_to_cpp`**: the written file is exactly one declaration. Its initializer decodes back to the resource's bytes, and its declared sizes equal the byte count. This covers 0 (a single `0x0`), 255, the empty resource and dotted names.
* **`concurrent_links`**: on every platform branch and query outcome, the recommendation is at least one and at most the CPU count, and each link gets its memory unless the result is the floor of one. `EnvCapHonoured` adds that a `GYP_LINK_CONCURRENCY_MAX` of at least one is never exceeded, even when memory and CPUs would allow more. A cap of 0 or below gives exactly one link: `max(1, ...)` at line 70 raises it. The alternative, a ninja pool of depth 0, would not limit links at all.

Why these bounds are enough:

* **Harness.** A timeout of one tick is enough to make the target's exit race the expiry and the kill in both orders. Two writes give a line before and a line after the point where the first `communicate` would have returned.
* **isSubSequence.** Groups of three over two names contain repeats, out-of-order matches and early completion. The empty-name special case is included.
* **Response file.** Six tokens allow one section with both libraries and an argument inside it, plus tokens outside it.
* **Solink.** Two edits and four runs allow an edit that keeps the surface, one that changes it, and failures or interrupts between them. For a `.dll`, they allow an edit that renames an export without changing the implementation.
* **Link wrapper.** Four tokens allow a CRT token that is duplicated, which is the case `list.index` gets wrong if any case does.
* **Concurrent links.** The memory values straddle the budget of 8 GiB per link (32 quarters). The reserve can exceed memory. A memory of 0 models the failed queries.
* **Resource embedder.** The bytes include the one-digit and two-digit renderings and zero. A stale output of another fragment shows whether the truncation happens.
* **Copier.** Two copiers are enough for the `exists`/`makedirs` race. The third lets two copiers of the same file overlap while another creates the directory. No passing run checks the copier: each build step copies its own file, so nothing but the directory is shared, and the race is the violation run's subject.

## Fairness

In `ArkHarnesses`, the clock `Tick` and each variant's harness steps are weakly fair. The harness is a single sequential Python function, and the timeout of `communicate` always fires. The target is given no fairness: it may hang forever, and the abstract `End` must still happen. The kill is what makes it happen. `ArkHarness` keeps its own `Spec` for the gate-type violation run. `ForkedSpec` adds weak fairness for `KillStartedProcessOnly`, which is a harness step. It gives none to `OrphanExit`: the forked target may hang like any target, and the finding is that nothing then ends it.

The other modules check only safety. Their final steps stop, so `CHECK_DEADLOCK FALSE` is set where a run ends in a final state.

## Findings

* **A forked target hangs the harness.** At `run_ark_executable.py:72-73` the target runs under `shell=True`. On timeout, `subp.kill()` signals only the process Popen started. If that process forked the target, the target survives holding both pipes. The second `communicate()` then blocks until it exits, so a hanging target hangs the harness (`HarnessTerminates` fails). Spec 4.6 and 5 say the timeout is enforced by killing the child. `src/test/run_ark_executable.py:52-53` has the same kill and drain. Killing the process group (`start_new_session=True` and `os.killpg`) would end both.
* **Gate-type comparison stops short.** At line 117, `zip()` truncates, so missing `TestInfer` lines are never compared.
* **Import libraries are duplicated.** At `gcc_solink_wrapper.py:97`, `implibs` is never cleared. A second whole-archive section appends the first section's import libraries again.
* **A `.dll`'s TOC has no names.** At `gcc_solink_wrapper.py:48-57`, a `.dll` is listed with `nm --extern-only`, whose lines are `address type name`. The two-column cut keeps address and type. The spec glossary says the TOC summarises the exported symbol names. Renaming an export without moving code leaves the `.TOC` unchanged. The build then ends up to date with the dependents still linked against the old name (`solink_dll_toc_stale`: `UpToDateMeansCurrent` fails). The same cut also rewrites the TOC, and relinks every dependent, whenever an address moves. Keeping the name column for a `.dll` would fix both.
* **Parallel copies can fail.** At `copy_resource.py:47-48`, two copiers can both see the destination directory missing. The later `os.makedirs` then raises `FileExistsError`, although spec 5 says the copies need no locking.

Seen while modelling but not checked by a run (listed as hazards in `PROJECT.json`):

* At `run_ark_executable.py:85`, a killed target is judged like a finished one. It passes in sub-output and file mode when it wrote the expected output before hanging, and in gate-type mode even with no output. The spec says partial output is collected on expiry but not whether such a run may pass, and the abstract harness allows it.

* At `get_concurrent_links.py:69`, `--mem_per_link_gb 0` divides by zero.
* At `gcc_link_wrapper.py:94-95`, a static link given `--clang_rt_dso_path` returns 0 without linking.
* At `build_resource_to_cpp.py:46-50`, a file name containing `$2` or `$3` is substituted by the later replaces.

## Not modelled

* **Argument parsing, printing and log text.** No property depends on them.
* **More than one forked descendant.** `ForkedSpec` models a single orphaned target holding the pipes. More descendants behave the same way for the drain.
* **Two concurrent builds of one solink edge.** Ninja never runs one edge twice at once.
* **`--timeout-limit 0`.** The string `"0"` is truthy, so `communicate(timeout=0)` expires at once. The model's expiry may already come before the target's first write, so this case is among the interleavings the `harness` run checks.
* **`command_to_run`'s `.bat` split.** This is string handling.
* **The `.dll` choice of `nm` flags.** This is data.
* **The static analyzer wrapper** (`clang_static_analyzer_wrapper.py`). It runs two subprocesses one after the other and returns the second status, and its `interleave_args` is `zip` and `sum`. Nothing is shared between the two runs and nothing can happen out of order, so a model checker adds nothing to a unit test.

## Further work

1. **Larger harness instances.** `MCArkHarnesses.cfg` with `MaxWrites = 3` and `TimeoutLimit = 2` was checked once: 1 674 805 distinct states and no error, so no new interleaving of the drain breaks the refinement. It takes about five minutes with coverage on, too long to keep as a run, so the kept run stays at two writes and one tick.
2. **Solink liveness.** Under fairness of the build's reruns, a change of the sources should eventually lead to an up-to-date build once the tools stop failing.
