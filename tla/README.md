# TLA+ models of llvm-libc

This directory models parts of this repository in TLA+ and checks them with TLC: the
math core, `fgets` on a shared stream, `cpp::span`, `IntegerToString`, the
builtin wrappers, `strcat` and `mempcpy`, and the `pwrite` / `fchdir` / `signal` syscall wrappers.

The math core is the single-precision exponential and trigonometric functions. The functions are `expf`, `exp2f`,
two revisions of `expm1f`, and `sincosf`. It covers:

- their special-case dispatch on the bits of the argument;
- their rounding-mode-dependent results and their errno / FE_INVALID side effects;
- the first stage of their general path, the hi + mid + lo range reduction.

## 1. The system

| Part | Source | State it touches | Operations |
|---|---|---|---|
| expf | `src/math/generic/expf.cpp` | errno | exceptional input, tiny, underflow, overflow branches, reduction, tables, polynomial |
| exp2f | `src/math/generic/exp2f.cpp` | errno | switch on 6 exceptional inputs (some mode-dependent with `break`), tiny, overflow, underflow, K = 6 reduction |
| expm1f | `src/math/generic/expm1f.cpp` | errno | saturation to -1, overflow, `fma(x, x, x)` for tiny x, exceptional input, truncating reduction with an explicit fix-up of lo |
| expm1f (2nd) | `unnamed/part_005` | errno | the same behaviour, written differently: another exceptional input, nested tests on `x_abs`, and a biased reduction |
| sincosf | `unnamed/part_004` | errno, FE_INVALID | tiny, inf/NaN (EDOM), table of 10 exceptional inputs with per-mode increments, general path |
| FPBits, fenv | not in the repository (spec 4.1, 6) | rounding mode, errno, exception flags | bit view, `get_round`, `set_except` |

How the parts interact:
- Each function reads the calling thread's rounding mode.
- Each function may write errno and raise FE_INVALID.
- No function keeps state of its own.
- Concurrency: none inside the functions (spec section 5). A call runs to completion on its thread.

The other modelled parts:

| Part | Source | State | Operations |
|---|---|---|---|
| fgets | `src/stdio/fgets.cpp` | the `File` (bytes, sticky eof and error flags, its lock), each caller's buffer | count check, lock, one `read_unlocked` per loop iteration, flag sampling + unlock + result |
| cpp::span | `src/unistd/chdir.h` lines 44-117 | pointer and `size_t` count | five constructors, `operator[]`, `front`, `back`, `subspan`, `first`, `last` |
| IntegerToString | `unnamed/part_007` | none (pure) | `bufsize`, `floor_log_2`, `convert_uintmax`, `convert_intmax`, `convert` |
| builtin_wrappers | `unnamed/part_008` | none (pure) | `safe_clz`, `safe_ctz`, `add_with_carry`, `sub_with_borrow`, generic and `__builtin_addc`/`subc` forms |
| strcat, mempcpy | `src/string/strcat.cpp`, `src/fenv/fegetenv.h` lines 21-45 (the mempcpy source) | the destination buffer | `strcat`: both lengths, `strcpy(dest + destLength, src)`, the terminator; `mempcpy`: the copy and the returned end pointer |
| pwrite, fchdir, signal | `src/unistd/linux/pwrite.cpp`, `src/signal/linux/signal.cpp` | errno, the signal's disposition | one syscall each, mapping `-e` to errno = e; `signal` installs with `SA_RESTART` |

fgets is the one place where threads interact: several threads may call it on one
`FILE`, and the `File` lock and its sticky flags are shared. signal interacts with
pwrite through the kernel: a handler installed by `signal()` decides whether a blocked
pwrite is restarted or fails with EINTR. The rest of the repository (dirent, rand_util,
thread stubs, headers, tests) is listed in `PROJECT.json` "components" with the reason
it is not modelled.

**What makes the math core hard to get right.** These are boundary behaviours that a
test hits only by choosing the exact bit pattern:
- thresholds compared as raw bit patterns, including `get_unbiased_exponent()`, which returns the biased exponent field in this revision;
- half-ulp ties in the tiny-argument identities;
- exceptional tables whose results are rounded toward zero plus per-mode increments, with sign-dependent column swaps;
- the order in which errno is written relative to the rounding-mode test;
- NaN sign and signalling bit;
- the rounding of `x * 2^K +- 0.5` in the caller's mode.

## 2. Modules

- `FPBits.tla` models the binary32 view and the environment.
  - A float is `[s |-> sign, a |-> x_abs]`. TLC integers are 32-bit signed, so the 32-bit `x_u` is never formed: `x_u >= 0xc2cff1b5` is written `s = 1 /\ a >= 0x42cff1b5`.
  - `PerturbRound` is the correct rounding of `b + t` for a `t` below half an ulp of `b`, with an explicit tie flag. It is what the hardware does for `1.0f + x`, `fma(x, x, x)` and `fma(x, -2^-25, x)`.
  - `CorrectlyRounded` selects, in each mode, from a bracket `lo <= f(x) <= hi` of adjacent floats.
  - `RoundSig(v, p, mode)` is IEEE rounding of an exact integer to p significant bits, and `TruncScaled` is `static_cast<int>`. `RangeReduction` and `TableIndex` share them.
- `Expf.tla`, `Exp2f.tla`, `Expm1f.tla`, `Expm1fAlt.tla` and `Sincosf.tla` translate each function as an operator `f(x, mode)`.
  - It returns the result(s), the errno written, whether FE_INVALID is raised, and whether a special branch returned or the call fell through to the general path.
  - The CASE arms follow the code's `if` chain in order, and each branch is an operator named for what it does (`expf_underflow`, `sincosf_exceptional`, ...).
- `Libm.tla` is the calling thread. Its variables are `round`, `errno`, `flags` and `last`.
  - Its actions are one call per function (`CallExpf` ... `CallSincosf`), `fesetround`, `ClearErrno` and `feclearexcept`.
  - A call is one atomic step, because the functions run to completion without suspending.
  - On the general path the result is abstracted to the correctly rounded value from the constant `Exact`.
- `RangeReduction.tla` models the general path's first stage in a binary format with a P-bit significand.
  - It covers the biased reduction (`expf`, `exp2f`, second `expm1f`) and the truncating one with a fix-up (`expm1f`).
  - Values are integers in units of 2^-U, and `RoundP` is IEEE rounding to P bits in each mode.
  - The action `Reduce` is the whole straight-line sequence: `XHi`, then `Residual`, then, for `expm1f`, `FixLo`.
- `TableIndex.tla` models the general path's table lookup on real binary32 arguments.
  - `XHiBiased` is `x_hi` as expf, exp2f and the second expm1f compute it: `x * 2^K +- 0.5` rounded to 24 bits in the current mode, then truncated. `XHiTruncated` is the first expm1f's truncation with its fix-up.
  - `ExpM1Index` is `x_hi += 104 << 7` with `EXP_M1[x_hi >> 7]` and `EXP_M2[x_hi & 0x7f]`. `Exp2Index` is `e_hi = (x_hi >> 6) + EXPONENT_BIAS` with `EXP_M[x_hi & 0x3f]`.
  - `>>` and `&` act on the two's-complement pattern of a possibly negative int: `ASR` is the arithmetic shift, and `LowBits` is the masked low bits.
  - `Libm`'s call step records `tab`, the lookup of a general-path call. The table values themselves are not modelled.
- `MCLibm.tla` and `MCRangeReduction.tla` instantiate these for TLC.
- `FileStream.tla` models fgets with several threads (`Threads`) on one stream.
  - Variables: the `File`'s `input`, `eof`, `err` and lock `owner`; per thread `pc`, `count`, `str` (the bytes stored, so `i = Len(str[t])`) and `ret`.
  - Actions: `fgets` (lines 20-21, the count check), `lock` (line 25), `read_unlocked` (one iteration of lines 30-35), `unlock` (lines 37-47: sample flags, unlock, decide the result).
  - `File` is not in the repository. It is modelled from its interface: a mutex, and a `read_unlocked` that returns the next byte, or 0 after setting eof (no bytes left) or error (at most `MaxErrors` I/O errors, at any read).
- `FgetsAtomic.tla` is the abstract fgets: one atomic step per call that takes a line from the stream. `FileStream` maps to it through `INSTANCE ... WITH`. While a thread holds the lock, the bytes it has read still count as the stream's, and the flags are the ones it found on taking the lock (history variable `snap`). `FgetsRefinement == Atomic!Spec` is checked as a property.
- `Span.tla` keeps `span_data` (an index, or `NullPtr`), `span_size` (a `size_t` of `W` bits) and `ref`, the elements std::span's definition says the span views. Each constructor or narrowing call is an action, with arguments that meet std::span's preconditions.
- `IntegerToString.tla` translates the conversion as operators (`Fill` is the digit loop, RECURSIVE). `Convert` makes one call and `Return` ends it. A call's result is a view, `nullopt`, `oob` (a write before the buffer), or `trap` (a build that traps on the undefined negation).
- `BuiltinWrappers.tla` translates the limb steps and `correct_zero`. `__builtin_clz(0)` is undefined, so the builtin's count at zero is any of 0..W. `AddLimbs` / `SubLimbs` chain a step over L limbs as the big-integer code does.
- `Unistd.tla` models one thread calling `pwrite`, `fchdir`, `signal`, `madvise`, `fchmod`, `geteuid`, and its own `sigaction` without `SA_RESTART`. The kernel is modelled from POSIX: a syscall returns a count or `-e`, and a signal with a handler that arrives during a blocked pwrite either restarts it (`SA_RESTART`) or makes it return `-EINTR`. The history variable `installed_by` records which call installed the current handler.
- `StringOps.tla` translates `strcat` and `mempcpy` as operators on byte buffers (functions from the C indices 0..n-1 to bytes, 0 being NUL). `Store` writes bytes into a buffer and records `oob` when a write runs past its `Cap` bytes. `string_length`, `strcpy` and `inline_memcpy` are not in the repository and are modelled from their contracts. `CallStrcat` and `CallMempcpy` make one call each.
- `Expm1fAlt.tla` has a constant `HasFMA`. Without FMA, `multiply_add(x, x, x)` rounds `x * x` first, and `SquareRoundsToZero` says in which rounding modes and below which `x_abs` that gives 0.
- `MCSupport.tla` composes `IntegerToString`, `BuiltinWrappers` and `StringOps` over their shared `call` and `result` variables: each component's calls are actions of one next-state relation, with one `Return`. Every call record carries its function in `fn`, and each component's property is about its own calls, so the state space is the sum of the components'.
- `MCFileStream.tla` gives `FileStream` its constant values.

## 3. Runs

| Run | Result | What it shows |
|---|---|---|
| `libm_special_paths` (MCLibm.cfg) | pass | `SpecialPathCorrectlyRounded`: every value a special branch returns, in every rounding mode, is the correctly rounded f(x). `ErrorSignalOnlyForErrors`: errno and FE_INVALID are written only for a finite overflow or underflow, sincosf(inf), or a signalling NaN. `IndexInTable`: every general-path call reads EXP_M1/EXP_M2 (or exp2f's EXP_M and a normal e_hi) inside their bounds, also at the edges of the domain and after a rounding-mode-dependent break out of exp2f's switch. `IndexNearArgument`: hi and mid, read back as the value they stand for, are within one step 2^-K of the argument x, in every mode; this ties exp2f's shift and mask of a negative `x_hi` to x, so a truncating `x_hi / 64` is caught, and an identity of the model's own operators is not what is checked. |
| `libm_range_error` | violation | `RangeErrorReported` fails: `expf(0x1.62e43p+6)` (88.7228, below the branch threshold 89) returns +inf with errno untouched. |
| `libm_nan_quiet` | violation | `NaNResultIsQuiet` fails: `expf` of a negative signalling NaN returns it unquieted (`return x`). |
| `rr_expm1f` | pass | Both expm1f reductions are exact and keep lo in the polynomial's interval [-2^-8, 2^-8], for every input of the modelled format and every mode. |
| `rr_exact` | violation | `expf`/`exp2f`: for |x| just below 2^-(K+1), `x*2^K +- 0.5` rounds to +-1 and lo is rounded, so x != hi + mid + lo. |
| `fgets_threads` (MCFileStream.cfg) | pass | `TypeOK`: the terminating '\0' always lands in the buffer. `FgetsRefinement`: every interleaving of two threads' reads, with EOF and I/O errors, is a sequence of atomic whole-line fgets calls. `EveryCallReturns`: under weak fairness every call that waits for the lock returns. |
| `fgets_stale_flags` | violation | `NullOnlyForOwnFailure` fails: thread t2's read error sets the sticky error flag, then thread t1's `fgets(count = 1)`, or a call that reads a whole line, returns nullptr. |
| `span_views` (MCSpan.cfg) | pass | `ViewsReference`: after any sequence of constructors and `subspan`/`first`/`last` (with `dynamic_extent`), size, pointer, `operator[]`, `front` and `back` match the elements std::span defines. |
| `support_ops` (MCSupport.cfg) | pass | `ConvertCorrect`: a buffer of `bufsize<BASE, T>()` characters gives the exact string of the value, and one character less gives `nullopt`, for all bases 2..36. `MultiwordCorrect`: chained limb steps compute x +- y mod 2^(W*L) with the right final carry or borrow, in both forms. `StrcatCorrect`: strcat writes past dest exactly when destLength + srcLength + 1 exceeds the buffer, and otherwise dest holds the concatenation with the bytes after it untouched. |
| `its_intmax_min` (MCSupport_intmax_min.cfg) | violation | `ConvertCorrect` fails for `intmax_t` at its minimum: `-val` overflows, and a trapping build aborts. |
| `libm_unfused` (MCLibm_unfused.cfg) | violation | `SpecialPathCorrectlyRounded` fails with `HasFMA = FALSE`: the second expm1f's `multiply_add(x, x, x)` returns -MIN_SUBNORMAL for x = -MIN_SUBNORMAL in FE_TOWARDZERO, where the correctly rounded value is -0. The first revision uses `fputil::fma` and is unaffected. |
| `unistd_signal` (MCUnistd.cfg) | pass | `TypeOK`: errno only ever holds a positive error code. Every wrapper returns -1, a count, 0, a uid or a handler, across signals delivered during a blocked pwrite. |

The violation runs are recorded as findings in `PROJECT.json`. `rr_exact` does not change
any float result: the polynomial tolerates lo slightly outside its interval. This was
checked offline for the binary32 inputs concerned. The biased reduction also gives
lo = +2^-8 for x = -(2 - 2^-8), outside the half-open interval a comment at
`unnamed/part_005:107` states but inside the closed interval the polynomial was fitted on,
which `LoInFitInterval` checks.

## 4. Bounds and why they are enough

**Libm.** Each function is called with:
- ±0, ±MIN_SUBNORMAL, ±MAX_NORMAL, ±inf, ±quiet NaN, ±signalling NaN, ±1;
- every bit pattern one below, at and one above each constant its dispatch compares with, in both signs;
- all its exceptional inputs;
- arguments between the branch thresholds and the true overflow/underflow points;
- for exp2f, also 1.5 and the floats around -2^-7, where `x_hi` is a tie in round to nearest.

`x_hi` is monotone in x, so the largest and smallest table indices are reached at the
arguments next to the special-branch thresholds, which are in the input set; that makes
the bounds checked by `IndexInTable` the extreme ones.

All of them are combined with all four rounding modes and arbitrary interleavings of
`fesetround`, `errno = 0` and `feclearexcept`. The dispatch depends only on these
comparisons, so every branch and every branch boundary is reached. The reference
brackets were computed to 160 significant digits, independently of the code.

**RangeReduction.** P = 10 and |x| < 2 (`HIEXP` = 1). The format keeps binary32's regime:
- `x * 2^K + 0.5` is exact when |x * 2^K| >= 1/2, since |x * 2^K| < 2^(P-2) as |x * 128| < 2^14 < 2^22 in binary32;
- it is rounded when |x * 2^K| < 1/2;
- hi takes the values -2..1 and mid all 128 values.

TLC checks all 40,960 (input, mode) pairs of the expm1f domain.

**FileStream.** Two threads, input `a \n b`, counts 0..3, two calls per thread, one I/O
error. This covers every exit of the loop: count reached, newline, EOF, and error. It
also covers count = 0 and count = 1, a line that spans the other thread's call, and a
flag left by the other thread (8,306 states).

**Span.** 14 elements and a 5-bit `size_t`, so `dynamic_extent` = 31 is a value that
wraps when an offset is subtracted.

**IntegerToString.** Every value of `int8_t` and `uint8_t`, and the edge values of
the 16-bit types, in all bases 2..36, with both buffer sizes. The reference string is
computed independently. INTMAX_MIN is checked with a 16-bit `intmax_t`, because TLC's
integers cannot hold 2^63.

**BuiltinWrappers.** W = 4 and L = 2: all 256 x 256 pairs of 8-bit numbers, which
exercises every carry pattern between limbs.

**StringOps.** A 4-byte destination, a 3-byte source, bytes {0, 1, 2}: every string pair
(lengths 0..3 and 0..2, with bytes after the terminator), so that the concatenation fits
with room to spare, fits exactly, and overflows by one or more; mempcpy with every offset
0..4 and count 0..3, including copies that end exactly at the buffer's end and past it.

**Unistd.** Two handlers, EIO and EBADF, pwrite counts 0..2, and up to two signals, so
that a restarted pwrite can be interrupted again.

## 5. Fairness

The math, span, conversion, builtin, string and syscall models have no fairness. Each of their
calls is one step, and a caller may stop at any time.

`FileStream` has weak fairness on each thread's `lock`, `read_unlocked` and `unlock`.
This is justified because a runnable thread is eventually scheduled, and `File`'s lock is
a mutex that a waiting thread acquires once it is free and stays free. Weak fairness
suffices: once the lock is free, the lock step stays enabled until someone takes it, and
with `MaxCalls` bounded no thread can starve another forever. `fgets` itself (starting a
call) is not fair, because a caller need not call. Each thread makes `MaxCalls` calls and
then stops, so `MCFileStream.cfg` has `CHECK_DEADLOCK FALSE`.

## 6. Not modelled, and the plan

Properties deliberately not stated:
- `safe_clz(0)` / `safe_ctz(0)` returning the width restates `correct_zero`'s
  `val == 0` test; the real hazard, the undefined `__builtin_clz(0)` the code evaluates
  before that test, is a property of the build (a sanitizer aborts), not of the code.
- mempcpy returning `dst + count` restates its one line.
- EINTR versus restart for a signal during pwrite is decided by the kernel, modelled
  from POSIX, and by `sa_flags = SA_RESTART` alone.

Not modelled:
- **The polynomials and table values.** They are abstracted to the correctly rounded result; only the table indices are modelled.
- **sincosf's pi/16 reduction.** `sincosf_eval` is not in the repository.

- **putc, fgetc_unlocked, fopen.** They forward to `File` methods whose bodies are not
  in the repository. The lock and flags they would share with fgets are already in
  `FileStream`.
- **The kernel and `sigaction`.** They are modelled from POSIX, not translated.
- **dirent, rand_util, thread stubs.** closedir forwards to `Dir::close`, which is not
  here. rand_util only defines the seed. `cnd_signal` returns success.

Next: `putc` against the same stream as fgets, if `File` becomes available. The
remaining wrappers (ceil/trunc asm, lroundf, fmodf, closedir, rand_util, cnd_signal)
forward to a builtin or to code outside the repository and have no state to model.
