-------------------------------- MODULE Clocks ---------------------------------
(***************************************************************************)
(* The clocks of the two platforms.  hw (arch/x86/clock.c): a page of the  *)
(* hypervisor per CPU, read as a sequence lock, made monotonic over CPUs   *)
(* by a common word when it is not stable, or the TSC, calibrated with the *)
(* i8254; the date of the RTC (clock_subr.c).  Xen (arch/x86/time.c): a    *)
(* shadow of the page that the timer interrupt also refreshes.             *)
(*                                                                         *)
(* A machine is one of ckKind; the fixed point has ClFrac binary places in *)
(* place of 32, and words wrap at ClWord in place of 2^64.                 *)
(***************************************************************************)
EXTENDS Integers, Sequences, FiniteSets, FiniteSetsExt

CONSTANTS
  ClCpus,      \* the CPUs, 0 the first
  ClMaxTsc, ClMaxUpdates, ClMaxCalls,       \* bounds
  ClFrac, ClWord,
  ClSkew,      \* how far the clock of the other CPUs is behind, not stable
  ClReload, ClDelay,   \* the i8254: ticks of a period and of 0.1 s
  ClTscPerTick, \* TSC ticks in a tick of the i8254
  ClNsec,      \* the nanoseconds of a second
  ClYears      \* years of the RTC

VARIABLES
  ckKind,      \* "boot" and what it ends in, "booted" with a page or
               \* "tsc"; "stable" and "mono", booted; "shadow", Xen; "date"
  ckTsc,
  ckPage,      \* [CPU -> [ver, ts, sys, rate]], shared with the hypervisor; the
               \* wall clock is one more, its seconds in ts and the rest in sys
  ckWrites,    \* [page -> how many of its fields are still to be written]
  ckReady,     \* the CPUs that have initialised their clock
  ckPc, ckReg, \* [CPU -> where it is, what it has read]
  ckMono,      \* monotonic_value
  ckBase,      \* [CPU -> [tsc, time, calls]], and tsc_mult
  ckShadow,    \* [ver, ts, sys, rate]
  ckTorn,      \* the timer interrupt came between a load and its store
  ckBack,      \* [CPU -> what was returned last, and what it may not be below]
  ckDev        \* the RTC and the i8254, or a date

clVars == <<ckKind, ckTsc, ckPage, ckWrites, ckReady, ckPc, ckReg, ckMono, ckBase,
            ckShadow, ckTorn, ckBack, ckDev>>
clTime == <<ckTsc, ckPage, ckWrites>>
clKept == <<ckKind, ckDev>>

-----------------------------------------------------------------------------
(* Arithmetic.  mul64_32 drops the places behind the point.                *)
mul64_32(a, b) == ((a * b) \div 2^ClFrac) % ClWord
Shifted(delta, shift) == IF shift < 0 THEN delta \div 2^(-shift) ELSE (delta * 2^shift) % ClWord
scale_delta(delta, rate) == mul64_32(Shifted(delta, rate.shift), rate.mul)

(* The time of a CPU, and the two ways the hypervisor says its rate: both  *)
(* are one nanosecond for a tick.                                          *)
SkewOf(c) == IF ckKind = "mono" /\ c # 0 THEN ClSkew ELSE 0
TimeAt(c, tsc) == IF tsc < SkewOf(c) THEN 0 ELSE tsc - SkewOf(c)
RateOf(n) == LET k == 1 + (n % 2) IN [mul |-> 2^(ClFrac - k), shift |-> k]

-----------------------------------------------------------------------------
(* The date.                                                               *)
is_leap_year(y) == y % 4 = 0 /\ (y % 100 # 0 \/ y % 400 = 0)
days_per_year(y) == IF is_leap_year(y) THEN 366 ELSE 365
days_in_month(m) == IF m = 2 THEN 28 ELSE IF m \in {4, 6, 9, 11} THEN 30 ELSE 31
SumOf(S, F(_)) == MapThenSumSet(F, S)
LeapDay(y, m) == IF is_leap_year(y) /\ m > 2 THEN 1 ELSE 0
DaysOfYears(y) ==
  IF y < 2000 THEN SumOf(1970..(y - 1), days_per_year)
  ELSE LET r == y - 2000
           c == r % 400
           q == c % 100
       IN  (365 * 30 + 7) + (r \div 400) * (365 * 400 + 97) + (c \div 100) * (365 * 100 + 24)
             + (q \div 4) * (365 * 4 + 1) + SumOf((y - (q % 4))..(y - 1), days_per_year)
clock_ymdhms_to_days(d) ==
  IF d.y < 1970 THEN 0
  ELSE LeapDay(d.y, d.m) + DaysOfYears(d.y) + SumOf(1..(d.m - 1), days_in_month) + (d.d - 1)
(* The seconds, as days and seconds of the day.                            *)
clock_ymdhms_to_secs(d) == <<clock_ymdhms_to_days(d), (d.h * 60 + d.min) * 60 + d.s>>

-----------------------------------------------------------------------------
Wall == -1
Pages == ClCpus \cup {Wall}
NoReg == [ver |-> 0, tsc |-> 0, ts |-> 0, sys |-> 0, rate |-> RateOf(0), time |-> 0]
PageAt(c, n, t) == [ver |-> 2 * n, ts |-> t, sys |-> TimeAt(c, t), rate |-> RateOf(n)]
LastDay(y, m) == IF m = 2 /\ y % 4 = 0 /\ (y % 100 # 0 \/ y % 400 = 0) THEN 29 ELSE days_in_month(m)
Dates == {d \in [y : ClYears, m : 1..12, d : 1..31, h : {23}, min : {59}, s : {59}] : d.d <= LastDay(d.y, d.m)}
NoDev == [uip |-> FALSE, second |-> 0, left |-> 0, read |-> <<>>, counter |-> ClReload,
          initial |-> 0, remaining |-> 0, elapsed |-> 0, freq |-> 0, mult |-> 0, epoch |-> <<>>]
ClInit ==
  /\ ckKind \in {"boot", "stable", "mono", "shadow", "date"}
  /\ ckTsc = 0 /\ ckPage = [c \in Pages |-> PageAt(c, 0, 0)] /\ ckWrites = [c \in Pages |-> 0]
  /\ ckReady = IF ckKind \in {"stable", "mono", "shadow"} THEN {0} ELSE {}
  /\ ckPc = [c \in ClCpus |-> "idle"] /\ ckReg = [c \in ClCpus |-> NoReg]
  /\ ckMono = 0 /\ ckBase = [c \in ClCpus |-> [tsc |-> 0, time |-> 0, calls |-> 0, from |-> 0, at |-> 0]]
  /\ ckShadow = PageAt(0, 0, 0) /\ ckTorn = FALSE
  /\ ckBack = [c \in ClCpus |-> [last |-> 0, floor |-> 0, calls |-> 0]]
  /\ IF ckKind = "date" THEN ckDev \in Dates ELSE ckDev = NoDev

-----------------------------------------------------------------------------
(* The hypervisor and the TSC.  The version is odd while the fields are    *)
(* written.                                                                *)
rdtsc == ckTsc
Ticks ==
  /\ ckKind \in {"stable", "mono", "tsc", "shadow"} /\ ckTsc < ClMaxTsc + ckDev.elapsed * ClTscPerTick
  /\ ckTsc' = ckTsc + 1
  /\ UNCHANGED <<ckPage, ckWrites, ckReady, ckPc, ckReg, ckMono, ckBase, ckShadow, ckTorn, ckBack>> /\ UNCHANGED clKept
UpdatePage(c) ==
  /\ ckKind \in (IF c = Wall THEN {"boot"} ELSE {"stable", "mono", "shadow"})
  /\ \/ /\ ckWrites[c] = 0 /\ ckPage[c].ver < 2 * ClMaxUpdates
        /\ ckPage' = [ckPage EXCEPT ![c].ver = @ + 1] /\ ckWrites' = [ckWrites EXCEPT ![c] = 3]
     \/ /\ ckWrites[c] > 0
        /\ LET p == ckPage[c]
               n == (p.ver + 1) \div 2
           IN  ckPage' = [ckPage EXCEPT ![c] =
                 CASE ckWrites[c] = 3 -> [p EXCEPT !.ts = IF c = Wall THEN n ELSE ckTsc]
                   [] ckWrites[c] = 2 -> [p EXCEPT !.sys = TimeAt(c, p.ts), !.rate = RateOf(n)]
                   [] ckWrites[c] = 1 -> [p EXCEPT !.ver = 2 * n]]
        /\ ckWrites' = [ckWrites EXCEPT ![c] = @ - 1]
  /\ UNCHANGED <<ckTsc, ckReady, ckPc, ckReg, ckMono, ckBase, ckShadow, ckTorn, ckBack>> /\ UNCHANGED clKept

-----------------------------------------------------------------------------
(* Steps of a CPU: where it goes and what it has read.                     *)
Steps(c, from, to, reg) ==
  /\ ckPc[c] = from /\ ckPc' = [ckPc EXCEPT ![c] = to] /\ ckReg' = [ckReg EXCEPT ![c] = reg]
Greatest == Max({ckBack[c].last : c \in ClCpus})
MostCalls == IF ckKind \in {"stable", "mono"} THEN ClMaxCalls ELSE ClMaxTsc
Calls(c) ==
  /\ c \in ckReady /\ ckBack[c].calls < MostCalls
  /\ ckBack' = [ckBack EXCEPT ![c].floor = Max({Greatest, TimeAt(c, ckTsc)}), ![c].calls = @ + 1]
Returns(c, time) == ckBack' = [ckBack EXCEPT ![c].last = time]
PvOnly == UNCHANGED <<ckReady, ckBase, ckShadow, ckTorn>> /\ UNCHANGED clTime /\ UNCHANGED clKept

(* _pvclock_monotonic: the fields one after the other, until the version   *)
(* is even and the same as before.                                         *)
PvKind == ckKind \in {"stable", "mono"}
R(c) == ckReg[c]
P(c) == ckPage[c]
PvVersion(c) ==
  /\ PvKind /\ Calls(c) /\ Steps(c, "idle", "tsc", [NoReg EXCEPT !.ver = P(c).ver])
  /\ UNCHANGED ckMono /\ PvOnly
PvTsc(c) == PvKind /\ Steps(c, "tsc", "ts", [R(c) EXCEPT !.tsc = rdtsc]) /\ UNCHANGED <<ckMono, ckBack>> /\ PvOnly
PvStamp(c) == PvKind /\ Steps(c, "ts", "sys", [R(c) EXCEPT !.ts = P(c).ts]) /\ UNCHANGED <<ckMono, ckBack>> /\ PvOnly
PvSys(c) ==
  /\ PvKind
  /\ Steps(c, "sys", "check", 
       [R(c) EXCEPT !.time = (scale_delta((R(c).tsc - R(c).ts) % ClWord, P(c).rate) + P(c).sys) % ClWord])
  /\ UNCHANGED <<ckMono, ckBack>> /\ PvOnly
(* Mutant: only that the version has not changed is looked at.             *)
SameVersion(ver, now) == now = ver
Unchanged(ver, now) == now % 2 = 0 /\ now = ver
_pvclock_monotonic(c) ==
  /\ PvKind /\ UNCHANGED ckMono
  /\ IF ~Unchanged(R(c).ver, P(c).ver)
     THEN Steps(c, "check", "tsc", [NoReg EXCEPT !.ver = P(c).ver]) /\ UNCHANGED ckBack
     ELSE IF ckKind = "mono" THEN Steps(c, "check", "load", R(c)) /\ UNCHANGED ckBack
     ELSE Steps(c, "check", "idle", NoReg) /\ Returns(c, R(c).time)
  /\ PvOnly
(* pvclock_monotonic: the common word never goes back.                     *)
LoadMono(c) ==
  /\ Steps(c, "load", "cas", [R(c) EXCEPT !.sys = ckMono]) /\ UNCHANGED <<ckMono, ckBack>> /\ PvOnly
pvclock_monotonic(c) ==
  /\ IF R(c).sys >= R(c).time
     THEN Steps(c, "cas", "idle", NoReg) /\ Returns(c, R(c).sys) /\ UNCHANGED ckMono
     ELSE IF ckMono = R(c).sys
     THEN Steps(c, "cas", "idle", NoReg) /\ Returns(c, R(c).time) /\ ckMono' = R(c).time
     ELSE Steps(c, "cas", "cas", [R(c) EXCEPT !.sys = ckMono]) /\ UNCHANGED <<ckMono, ckBack>>
  /\ PvOnly

-----------------------------------------------------------------------------
(* The TSC: each CPU adds to its own base.                                 *)
tscclock_monotonic(c) ==
  LET b == ckBase[c]
      time == b.time + mul64_32(rdtsc - b.tsc, ckDev.mult)
  IN  /\ ckKind = "tsc" /\ c \in ckReady /\ b.calls < MostCalls
      /\ ckBase' = [ckBase EXCEPT ![c] = [b EXCEPT !.tsc = rdtsc, !.time = time, !.calls = @ + 1]]
      /\ ckBack' = [ckBack EXCEPT ![c].floor = ckBack[c].last, ![c].last = time]
      /\ UNCHANGED <<ckReady, ckPc, ckReg, ckMono, ckShadow, ckTorn>> /\ UNCHANGED clTime /\ UNCHANGED clKept

(* The other CPUs: their page, or the time of CPU 0 as it last read it.    *)
x86_initclocks_notmain(c) ==
  /\ ckKind \in {"stable", "mono", "tsc"} /\ 0 \in ckReady /\ c \notin ckReady /\ ckReady' = ckReady \cup {c}
  /\ IF ckKind = "tsc"
     THEN /\ ckBase' = [ckBase EXCEPT ![c] = [tsc |-> rdtsc, time |-> ckBase[0].time, calls |-> 0,
                                              from |-> rdtsc, at |-> ckBase[0].time]]
          /\ ckBack' = [ckBack EXCEPT ![c].last = ckBase[0].time]
     ELSE UNCHANGED <<ckBase, ckBack>>
  /\ UNCHANGED <<ckPc, ckReg, ckMono, ckShadow, ckTorn>> /\ UNCHANGED clTime /\ UNCHANGED clKept

-----------------------------------------------------------------------------
(* x86_initclocks on CPU 0: the clock of the hypervisor if it has one.     *)
Boots == ckKind = "boot" /\ UNCHANGED <<ckMono, ckShadow, ckTorn, ckBack, ckPage, ckWrites>>
x86_initclocks ==
  /\ Boots /\ UNCHANGED <<ckKind, ckTsc, ckReady, ckBase>>
  /\ \/ Steps(0, "idle", "wallsec", [NoReg EXCEPT !.ver = ckPage[Wall].ver]) /\ UNCHANGED ckDev
     \/ Steps(0, "idle", "rtc", NoReg) /\ UNCHANGED ckDev
(* pvclock_read_wall_clock.                                                *)
WallSec ==
  /\ Boots /\ Steps(0, "wallsec", "wallnsec", [R(0) EXCEPT !.ts = ckPage[Wall].ts])
  /\ UNCHANGED <<ckKind, ckTsc, ckReady, ckBase, ckDev>>
WallNsec ==
  /\ Boots /\ Steps(0, "wallnsec", "wallcheck", [R(0) EXCEPT !.sys = ckPage[Wall].sys])
  /\ UNCHANGED <<ckKind, ckTsc, ckReady, ckBase, ckDev>>
pvclock_read_wall_clock ==
  /\ Boots /\ ckTsc' = ckTsc /\ UNCHANGED ckBase
  /\ IF Unchanged(R(0).ver, ckPage[Wall].ver)
     THEN /\ Steps(0, "wallcheck", "idle", NoReg) /\ ckDev' = [ckDev EXCEPT !.epoch = <<R(0).ts, R(0).sys>>]
          /\ ckKind' = "booted" /\ ckReady' = {0}
     ELSE /\ Steps(0, "wallcheck", "wallsec", [NoReg EXCEPT !.ver = ckPage[Wall].ver])
          /\ UNCHANGED <<ckKind, ckReady, ckDev>>

(* rtc_gettimeofday: six registers, of which the RTC may have changed some *)
(* or all when the next second begins.  UIP comes up while there is still  *)
(* time to read all of them.                                               *)
RtcRaises ==
  /\ ckKind = "boot" /\ ckPc[0] \in {"rtc", "rtcread"} /\ ~ckDev.uip /\ ckDev.second < ClMaxUpdates
  /\ ckDev' = [ckDev EXCEPT !.uip = TRUE, !.left = 6]
  /\ UNCHANGED <<ckKind, ckReady, ckPc, ckReg, ckMono, ckBase, ckShadow, ckTorn, ckBack>> /\ UNCHANGED clTime
RtcUpdates ==
  /\ ckKind = "boot" /\ ckDev.uip /\ (ckDev.left = 0 \/ ckPc[0] # "rtcread")
  /\ ckDev' = [ckDev EXCEPT !.uip = FALSE, !.second = @ + 1]
  /\ UNCHANGED <<ckKind, ckReady, ckPc, ckReg, ckMono, ckBase, ckShadow, ckTorn, ckBack>> /\ UNCHANGED clTime
RtcWait ==
  /\ Boots /\ ~ckDev.uip /\ Steps(0, "rtc", "rtcread", NoReg)
  /\ UNCHANGED <<ckKind, ckTsc, ckReady, ckBase, ckDev>>
rtc_read ==
  /\ Boots /\ Len(ckDev.read) < 6 /\ Steps(0, "rtcread", "rtcread", NoReg)
  /\ ckDev' = [ckDev EXCEPT !.read = Append(@, ckDev.second), !.left = IF @ > 0 THEN @ - 1 ELSE 0]
  /\ UNCHANGED <<ckKind, ckTsc, ckReady, ckBase>>
rtc_gettimeofday ==
  /\ Boots /\ Len(ckDev.read) = 6 /\ Steps(0, "rtcread", "delay", NoReg)
  /\ ckDev' = [ckDev EXCEPT !.epoch = <<ckDev.read[1], ckDev.read[6]>>, !.initial = ckDev.counter, !.remaining = ClDelay]
  /\ UNCHANGED <<ckKind, ckTsc, ckReady, ckBase>>

(* i8254_delay: the counter goes down from the reload value to 1 and       *)
(* starts again; it is read more than once in a period.                    *)
Counted(from, n) == IF n < from THEN from - n ELSE from + ClReload - n
Passed(initial, cur) == IF cur > initial THEN ClReload - (cur - initial) ELSE initial - cur
i8254_delay ==
  /\ Boots /\ ckDev.remaining > 1 /\ Steps(0, "delay", "delay", NoReg)
  /\ \E n \in 1..(ClReload - 1) :
       LET cur == Counted(ckDev.counter, n) IN
       /\ ckDev' = [ckDev EXCEPT !.counter = cur, !.initial = cur, !.elapsed = @ + n,
                                 !.remaining = @ - Passed(ckDev.initial, cur)]
       /\ ckTsc' = ckTsc + n * ClTscPerTick
  /\ UNCHANGED <<ckKind, ckReady, ckBase>>
(* tscclock_init: the frequency and the multiplier, a word of ClFrac bits. *)
tscclock_init ==
  LET freq == (ckTsc - ckBase[0].tsc) * 10
      mult == ((ClNsec * 2^ClFrac) \div freq) % 2^ClFrac
      time == mul64_32(ckBase[0].tsc, mult)
  IN  /\ Boots /\ ckDev.remaining <= 1 /\ Steps(0, "delay", "idle", NoReg)
      /\ ckDev' = [ckDev EXCEPT !.freq = freq, !.mult = mult]
      /\ ckBase' = [ckBase EXCEPT ![0].time = time, ![0].at = time]
      /\ ckKind' = "tsc" /\ ckReady' = {0} /\ UNCHANGED ckTsc

-----------------------------------------------------------------------------
(* Xen.  The clock is computed from the shadow, which is copied again when *)
(* the page has another version.                                           *)
XenOnly == ckKind = "shadow" /\ UNCHANGED <<ckReady, ckMono, ckBase>> /\ UNCHANGED clTime /\ UNCHANGED clKept
Same == UNCHANGED <<ckShadow, ckTorn, ckBack>>
LocalVersion ==
  /\ XenOnly /\ Calls(0) /\ Steps(0, "idle", "system", [NoReg EXCEPT !.ver = ckShadow.ver])
  /\ UNCHANGED <<ckShadow, ckTorn>>
SystemTime == XenOnly /\ Same /\ Steps(0, "system", "offset", [R(0) EXCEPT !.sys = ckShadow.sys])
get_nsec_offset ==
  /\ XenOnly /\ Same
  /\ Steps(0, "offset", "current",
       [R(0) EXCEPT !.time = (R(0).sys + scale_delta((rdtsc - ckShadow.ts) % ClWord, ckShadow.rate)) % ClWord])
time_values_up_to_date ==
  /\ XenOnly /\ Same /\ Steps(0, "current", IF ckShadow.ver = P(0).ver THEN "done" ELSE "version", R(0))
(* get_time_values_from_xen: each field is loaded, and stored.             *)
CopyVersion ==
  /\ XenOnly /\ Steps(0, "version", "load_ts", R(0))
  /\ ckShadow' = [ckShadow EXCEPT !.ver = P(0).ver] /\ UNCHANGED <<ckTorn, ckBack>>
LoadField ==
  /\ XenOnly /\ Same
  /\ \/ Steps(0, "load_ts", "store_ts", [R(0) EXCEPT !.ts = P(0).ts])
     \/ Steps(0, "load_sys", "store_sys", [R(0) EXCEPT !.ts = P(0).sys])
     \/ Steps(0, "load_rate", "store_rate", [R(0) EXCEPT !.rate = P(0).rate])
StoreField ==
  /\ XenOnly /\ UNCHANGED <<ckTorn, ckBack>>
  /\ \/ Steps(0, "store_ts", "load_sys", R(0)) /\ ckShadow' = [ckShadow EXCEPT !.ts = R(0).ts]
     \/ Steps(0, "store_sys", "load_rate", R(0)) /\ ckShadow' = [ckShadow EXCEPT !.sys = R(0).ts]
     \/ Steps(0, "store_rate", "copied", R(0)) /\ ckShadow' = [ckShadow EXCEPT !.rate = R(0).rate]
get_time_values_from_xen ==
  /\ XenOnly /\ Same /\ Steps(0, "copied", IF Unchanged(ckShadow.ver, P(0).ver) THEN "done" ELSE "version", R(0))
xen_cpu_clock_monotonic ==
  /\ XenOnly /\ UNCHANGED <<ckShadow, ckTorn>>
  /\ IF R(0).ver = ckShadow.ver
     THEN Steps(0, "done", "idle", NoReg) /\ Returns(0, R(0).time)
     ELSE Steps(0, "done", "system", [NoReg EXCEPT !.ver = ckShadow.ver]) /\ UNCHANGED ckBack
(* The timer interrupt copies all of it, as often as it takes.             *)
timer_handler ==
  /\ XenOnly /\ P(0).ver % 2 = 0 /\ ckShadow # P(0)
  /\ ckShadow' = P(0) /\ ckTorn' = (ckTorn \/ ckPc[0] \in {"store_ts", "store_sys", "store_rate"})
  /\ UNCHANGED <<ckPc, ckReg, ckBack>>

ClNext ==
  \/ Ticks \/ \E c \in Pages : UpdatePage(c)
  \/ \E c \in ClCpus : \/ PvVersion(c) \/ PvTsc(c) \/ PvStamp(c) \/ PvSys(c) \/ _pvclock_monotonic(c)
                       \/ LoadMono(c) \/ pvclock_monotonic(c) \/ tscclock_monotonic(c) \/ x86_initclocks_notmain(c)
  \/ x86_initclocks \/ WallSec \/ WallNsec \/ pvclock_read_wall_clock
  \/ RtcRaises \/ RtcUpdates \/ RtcWait \/ rtc_read \/ rtc_gettimeofday \/ i8254_delay \/ tscclock_init
  \/ LocalVersion \/ SystemTime \/ get_nsec_offset \/ time_values_up_to_date \/ CopyVersion \/ LoadField
  \/ StoreField \/ get_time_values_from_xen \/ xen_cpu_clock_monotonic \/ timer_handler
ClSpec == ClInit /\ [][ClNext]_clVars

-----------------------------------------------------------------------------
(* A day after the 1st of January 1970 per date.                           *)
NextDate(d) ==
  IF d.d < LastDay(d.y, d.m) THEN [d EXCEPT !.d = @ + 1]
  ELSE IF d.m < 12 THEN [d EXCEPT !.d = 1, !.m = @ + 1] ELSE [d EXCEPT !.d = 1, !.m = 1, !.y = @ + 1]
(* What a call of the clock of the hypervisor returned is no less than the *)
(* time when the call began, or than what any CPU had got before, and not  *)
(* more than the time is now, however the page changed during the call; on *)
(* Xen unless the timer interrupt came between a load and its store.  The  *)
(* TSC clock loses less than a nanosecond a call, and gains none.  The     *)
(* offset of the wall clock is of one second.  i8254_delay waits all but   *)
(* one of its ticks.  The next date is a day later, up to the end of what  *)
(* the RTC can say.                                                        *)
ClocksSound ==
  /\ ckKind \in {"stable", "mono", "shadow"} /\ ~ckTorn =>
       \A c \in ClCpus : ckPc[c] = "idle" =>
         ckBack[c].last \in ckBack[c].floor..Max({TimeAt(d, ckTsc) : d \in ClCpus})
  /\ ckKind = "tsc" =>
       /\ \A c \in ckReady :
            LET b == ckBase[c]
                exact == mul64_32(b.tsc - b.from, ckDev.mult)
            IN  b.time - b.at \in (exact - b.calls)..exact
       /\ ckDev.elapsed >= ClDelay - 1
  /\ (IF ckKind = "date" THEN FALSE ELSE ckDev.epoch # <<>>) => ckDev.epoch[1] = ckDev.epoch[2]
  /\ (IF ckKind = "date" THEN NextDate(ckDev).y < 2100 ELSE FALSE) =>
       clock_ymdhms_to_secs(NextDate(ckDev)) = <<clock_ymdhms_to_days(ckDev) + 1, 24 * 3600 - 1>>

=============================================================================
