------------------------------- MODULE Config --------------------------------
(***************************************************************************)
(* load_config.  A file is a sequence of lines; a line is what stands      *)
(* before its '#' and, when its comment does not fit in the 127 characters *)
(* fgets hands over at once, what the rest of the comment reads as.  Text  *)
(* that is not a key and a value is NoSetting, and a value is what atoi    *)
(* makes of it, 0 for anything that is not a number.                       *)
(***************************************************************************)
EXTENDS Integers, Sequences, SequencesExt, FiniteSetsExt

CONSTANT Default        \* g_config as it is compiled in

PositiveKeys == {"num_operators", "num_users", "num_worker_seats", "sim_duration",
                 "minute_duration", "max_n_requests", "nof_pause"}
NaturalKeys == {"p_serv_min", "p_serv_max", "worker_shift_open", "worker_shift_close",
                "explode_max"}
Keys == PositiveKeys \cup NaturalKeys

poste_config == [Keys -> Int]
ConfigOK(g) == /\ g \in poste_config
               /\ \A k \in Keys : g[k] >= IF k \in PositiveKeys THEN 1 ELSE 0

ASSUME DefaultAssumption == ConfigOK(Default)

Settings == [key : STRING, val : Int]
Lines == [setting : Settings, tail : Settings]
NoSetting == [key |-> "", val |-> 0]
Line(s) == [setting |-> s, tail |-> NoSetting]

\* A slip: the first value of a key is kept.
ApplyFirst(g, s) == IF s.key \in Keys /\ s.val > 0 /\ g[s.key] = Default[s.key]
                    THEN [g EXCEPT ![s.key] = s.val] ELSE g

\* A slip: zero is accepted for every key.
AcceptsZero(s) == s.key \in Keys /\ s.val >= 0

Accepts(s) == \/ s.key \in PositiveKeys /\ s.val > 0
              \/ s.key \in NaturalKeys /\ s.val >= 0

Apply(g, s) == IF Accepts(s) THEN [g EXCEPT ![s.key] = s.val] ELSE g

\* One line: what fgets returns first, and then the rest of it.
ApplyLine(g, line) == Apply(Apply(g, line.setting), line.tail)

load_config(file) == FoldLeft(ApplyLine, Default, file)
-----------------------------------------------------------------------------
\* A key's value is the last one the file gives it that makes sense, and the
\* compiled-in one when there is none; a bad value never undoes a good one before
\* it (config.c:67-128).  The rest of a long comment counts like what stands before it.
Sensible(s) == s.key \in Keys /\ s.val >= (IF s.key \in PositiveKeys THEN 1 ELSE 0)
Gives(s, k) == s.key = k /\ Sensible(s)
Meant(file, k) ==
    LET given == {i \in 1 .. Len(file) : Gives(file[i].setting, k) \/ Gives(file[i].tail, k)}
        line  == file[Max(given)]
    IN  IF given = {} THEN Default[k]
        ELSE IF Gives(line.tail, k) THEN line.tail.val ELSE line.setting.val

LastValueCounts(files) ==
    \A f \in files : \A k \in Keys : load_config(f)[k] = Meant(f, k)
=============================================================================
