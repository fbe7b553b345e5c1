--------------------------- MODULE ConcurrentLinks ---------------------------
(***************************************************************************)
(* _get_default_concurrent_links of src/build/toolchain/                   *)
(* get_concurrent_links.py, lines 28-77:  how many links the build may    *)
(* run at once, from the host's memory, the GYP_LINK_CONCURRENCY_MAX       *)
(* variable and the CPU count.  One step per statement group.              *)
(*                                                                         *)
(* Memory is counted in units of 1/Quarters GiB.  The code divides floats  *)
(* and truncates with int(); the operands are non-negative and the memory  *)
(* sizes are whole numbers of bytes, so this is integer division here.     *)
(***************************************************************************)
EXTENDS Integers

CONSTANTS
    Quarters,       \* memory units per GiB
    Physical,       \* total physical memory the host may have, in units
    MemPerLink,     \* values of --mem_per_link_gb
    Reserve,        \* values of --reserve_mem_gb
    EnvCaps,        \* values GYP_LINK_CONCURRENCY_MAX may be set to
    CpuCounts,      \* values multiprocessing.cpu_count() may return
    NoCapDefault    \* the 2**32 default of os.getenv('GYP_LINK_CONCURRENCY_MAX', 2**32)

\* 2**32 does not fit TLC's integers; any value above every budget and CPU
\* count orders the same way.
ASSUME \A c \in CpuCounts : NoCapDefault > c

\* "win32" stands for win32 and cygwin.
Platforms == {"win32", "linux", "darwin", "other"}

MaxOf(a, b) == IF a >= b THEN a ELSE b
MinOf(a, b) == IF a <= b THEN a ELSE b

(***************************************************************************)
(* _get_total_memory_in_bytes, lines 28-62:  Windows always answers;      *)
(* Linux answers when /proc/meminfo has a MemTotal line; macOS when        *)
(* sysctl succeeds; any other platform, or a failed query, gives 0.        *)
(***************************************************************************)
TotalMemory(platform, physical, meminfoOk, sysctlOk) ==
    CASE platform = "win32"  -> physical
      [] platform = "linux"  -> IF meminfoOk THEN physical ELSE 0
      [] platform = "darwin" -> IF sysctlOk THEN physical ELSE 0
      [] OTHER               -> 0

VARIABLES
    in,         \* the host and the command line, fixed for one run
    pc,         \* "start", "budget", "cap", "cpu", "return", "done" or "crashed"
    memTotal,   \* mem_total_bytes, after the reserve is taken off
    num,        \* num_concurrent_links
    hardCap,    \* hard_cap
    cpuCap,     \* cpu_cap
    result      \* the number printed

vars == <<in, pc, memTotal, num, hardCap, cpuCap, result>>

Inputs ==
    [platform : Platforms, physical : Physical, meminfoOk : BOOLEAN,
     sysctlOk : BOOLEAN, mpl : MemPerLink, reserve : Reserve,
     envSet : BOOLEAN, envCap : EnvCaps, cpuOk : BOOLEAN, cpus : CpuCounts]

TypeOK ==
    /\ in \in Inputs
    /\ pc \in {"start", "budget", "cap", "cpu", "return", "done", "crashed"}
    /\ memTotal \in Nat /\ num \in Nat /\ hardCap \in Int /\ cpuCap \in Nat
    /\ result \in Int

Init ==
    /\ in \in Inputs
    /\ pc = "start"
    /\ memTotal = 0 /\ num = 0 /\ hardCap = 0 /\ cpuCap = 0 /\ result = 0

\* Mutant of ReadMemory: the floor at zero is missing.
ReadMemoryNoFloor ==
    /\ pc = "start"
    /\ memTotal' = TotalMemory(in.platform, in.physical, in.meminfoOk, in.sysctlOk)
                     - in.reserve * Quarters
    /\ pc' = "budget"
    /\ UNCHANGED <<in, num, hardCap, cpuCap, result>>

\* Lines 66-67: total memory less the reserve, never below zero.
ReadMemory ==
    /\ pc = "start"
    /\ memTotal' = MaxOf(0, TotalMemory(in.platform, in.physical, in.meminfoOk, in.sysctlOk)
                             - in.reserve * Quarters)
    /\ pc' = "budget"
    /\ UNCHANGED <<in, num, hardCap, cpuCap, result>>

\* Mutant of Budget: round() instead of int().
BudgetRounded ==
    /\ pc = "budget"
    /\ IF in.mpl = 0
          THEN pc' = "crashed" /\ UNCHANGED num
          ELSE /\ num' = MaxOf(1, (2 * memTotal + in.mpl * Quarters) \div (2 * in.mpl * Quarters))
               /\ pc' = "cap"
    /\ UNCHANGED <<in, memTotal, hardCap, cpuCap, result>>

\* Lines 68-69: at least one link; --mem_per_link_gb=0 divides by zero.
Budget ==
    /\ pc = "budget"
    /\ IF in.mpl = 0
          THEN pc' = "crashed" /\ UNCHANGED num
          ELSE /\ num' = MaxOf(1, memTotal \div (in.mpl * Quarters))
               /\ pc' = "cap"
    /\ UNCHANGED <<in, memTotal, hardCap, cpuCap, result>>

\* Line 70.
ReadHardCap ==
    /\ pc = "cap"
    /\ hardCap' = MaxOf(1, IF in.envSet THEN in.envCap ELSE NoCapDefault)
    /\ pc' = "cpu"
    /\ UNCHANGED <<in, memTotal, num, cpuCap, result>>

\* Lines 72-75: cpu_count() may raise, and then one CPU is assumed.
ReadCpuCount ==
    /\ pc = "cpu"
    /\ cpuCap' = IF in.cpuOk THEN in.cpus ELSE 1
    /\ pc' = "return"
    /\ UNCHANGED <<in, memTotal, num, hardCap, result>>

\* Mutant of Return: the environment cap is left out of the minimum.
ReturnIgnoringCap ==
    /\ pc = "return"
    /\ result' = MinOf(num, cpuCap)
    /\ pc' = "done"
    /\ UNCHANGED <<in, memTotal, num, hardCap, cpuCap>>

\* Line 77.
Return ==
    /\ pc = "return"
    /\ result' = MinOf(MinOf(num, hardCap), cpuCap)
    /\ pc' = "done"
    /\ UNCHANGED <<in, memTotal, num, hardCap, cpuCap>>

Next == ReadMemory \/ Budget \/ ReadHardCap \/ ReadCpuCount \/ Return

Spec == Init /\ [][Next]_vars

-----------------------------------------------------------------------------
\* The recommendation never oversubscribes the host: at least one link, no
\* more links than CPUs, and, unless it is the floor of one, every link gets
\* --mem_per_link_gb of the memory left after the reserve.
ResultIsSafeParallelism ==
    pc = "done" =>
        LET cpus == IF in.cpuOk THEN in.cpus ELSE 1
            avail == TotalMemory(in.platform, in.physical, in.meminfoOk, in.sysctlOk)
                       - in.reserve * Quarters
        IN  /\ 1 <= result /\ result <= cpus
            /\ result = 1 \/ result * in.mpl * Quarters <= avail

\* GYP_LINK_CONCURRENCY_MAX bounds the recommendation whatever the memory
\* and CPU count say (lines 70 and 77): when it is set, the result never
\* exceeds it, except that a cap of 0 or below gives one link, never zero
\* (a ninja pool of depth 0 would not limit links at all).
EnvCapHonoured ==
    (pc = "done" /\ in.envSet) =>
        \/ result <= in.envCap
        \/ in.envCap < 1 /\ result = 1

=============================================================================
