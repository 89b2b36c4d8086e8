------------------------------ MODULE Settings ------------------------------
(***************************************************************************)
(* How xmSigma decides what is logged and where: levels and their spdlog   *)
(* counterparts, the level asked for in the environment, the compile-time  *)
(* floor of the macros, the file names of data loggers.  Pure operators.   *)
(*                                                                         *)
(* A LogLevel is its number, a spdlog level its name.                      *)
(***************************************************************************)
EXTENDS Integers, Sequences

kInfo == 2
kError == 4
kOff  == 6
default_log_level == kInfo

\* spdlog::level::level_enum, in its order.
SpdlogLevels == <<"trace", "debug", "info", "warn", "err", "critical", "off">>

\* a >= b for spdlog levels: logger::should_log() of a logger at level b.
AtLeast(a, b) ==
  \E i, j \in DOMAIN SpdlogLevels :
    SpdlogLevels[i] = a /\ SpdlogLevels[j] = b /\ i >= j

-----------------------------------------------------------------------------
(* Three translation units have a switch of their own from LogLevel to the *)
(* spdlog level; XLOG_LEVEL() casts any int, hence the default branches.   *)

Switch(cases, level) ==
  IF level \in 0..(Len(cases) - 1) THEN cases[level + 1] ELSE "off"

ToSpdlogLevel(level) ==
  Switch(<<"trace", "debug", "info", "warn", "err", "critical">>, level)

RtToSpdlogLevel(level) ==
  Switch(<<"trace", "debug", "info", "warn", "err", "critical">>, level)

MpscToSpdlogLevel(level) ==
  Switch(<<"trace", "debug", "info", "warn", "err", "critical">>, level)

FromSpdlogLevel(s) ==
  CASE s = "trace" -> 0 [] s = "debug" -> 1 [] s = "info" -> 2
    [] s = "warn" -> 3 [] s = "err" -> 4 [] s = "critical" -> 5
    [] OTHER -> kOff

-----------------------------------------------------------------------------
(* The environment: a function from the names of the variables that are   *)
(* set to their texts.  A variable that is not set reads as "".            *)

GetEnvironmentVariable(env, name) == IF name \in DOMAIN env THEN env[name] ELSE ""

\* strtol(text, &end, 10) on the texts in use: whether it found a number
\* (end # text) and which.  What follows the number is not looked at.
LevelTexts == {"-1", "0", "1", "2", "3", "4", "5", "6", "7", "4junk", "junk"}
strtol(text) ==
  CASE text = "-1" -> <<TRUE, -1>> [] text = "0" -> <<TRUE, 0>>
    [] text = "1" -> <<TRUE, 1>>   [] text = "2" -> <<TRUE, 2>>
    [] text = "3" -> <<TRUE, 3>>   [] text = "4" -> <<TRUE, 4>>
    [] text = "5" -> <<TRUE, 5>>   [] text = "6" -> <<TRUE, 6>>
    [] text = "7" -> <<TRUE, 7>>   [] text = "4junk" -> <<TRUE, 4>>
    [] OTHER -> <<FALSE, 0>>

ResolveLogLevelFromEnv(env, fallback) ==
  LET value == GetEnvironmentVariable(env, "XLOG_LEVEL")
      level == strtol(value)[2]
  IN  IF value = "" \/ ~strtol(value)[1] \/ level < 0 \/ level > 6
      THEN fallback ELSE level

\* A file name is the tuple of its parts; strftime has a resolution of one
\* second, and so has t.
CreateLogFileName(prefix, path, t) == Append(path, <<prefix, t, ".csv">>)

-----------------------------------------------------------------------------
(* The macros.  enabled is ENABLE_LOGGING, active XMSIGMA_ACTIVE_LEVEL.    *)
(* Each of the twelve is written out under an #if of its own, and is       *)
(* nothing when active is above the number there, or without               *)
(* ENABLE_LOGGING.                                                         *)

\* Faulty form of XLOG_Sites: the #if of the fourth has the wrong number.
XLOG_SitesSlip ==
  [n \in 1..6 |-> [floor |-> IF n = 4 THEN 2 ELSE n - 1, level |-> n - 1]]

\* XLOG_TRACE to XLOG_FATAL, each with its _STREAM form: the number in the #if
\* and the level passed on.
XLOG_Sites ==
  << [floor |-> 0, level |-> 0], [floor |-> 1, level |-> 1],
     [floor |-> 2, level |-> 2], [floor |-> 3, level |-> 3],
     [floor |-> 4, level |-> 4], [floor |-> 5, level |-> 5] >>

XLOG_Site(enabled, active, n) == enabled /\ active <= XLOG_Sites[n].floor

\* XLOG_RT_TRACE to XLOG_RT_FATAL.
XLOG_RT_Sites ==
  << [floor |-> 0, level |-> 0], [floor |-> 1, level |-> 1],
     [floor |-> 2, level |-> 2], [floor |-> 3, level |-> 3],
     [floor |-> 4, level |-> 4], [floor |-> 5, level |-> 5] >>

XLOG_RT_Site(enabled, active, n) == enabled /\ active <= XLOG_RT_Sites[n].floor

\* logger_->should_log(): the runtime filter of the soft path.
ShouldLog(log_level, level) == AtLeast(ToSpdlogLevel(level), log_level)

\* Log(): the levels without a case of their own are ignored.
LogCase(level) == level \in 0..5
=============================================================================
